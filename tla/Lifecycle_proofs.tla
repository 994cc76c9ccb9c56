-------------------------- MODULE Lifecycle_proofs --------------------------
(***************************************************************************)
(* Proofs about Lifecycle, for every set of markets, securities and events,*)
(* every batch size, every bound and every set of faults: what no message, *)
(* crash or interleaving of the two processes can do to a listing, a       *)
(* security or an event.                                                   *)
(***************************************************************************)
EXTENDS Lifecycle, TLAPS

-----------------------------------------------------------------------------
(* Types.  What a process picked is of the kind its label works on.        *)

OnOff      == {"none", "active", "inactive"}
Resolution == {"none", "unresolved", "resolved"}
Message == [type : {"new"}, event : Event, markets : SUBSET Market]
               \cup [type : {"closed"}, market : Market] \cup [type : {"stale"}, event : Event]

RunnerLooksUp == {"record", "find", "listings", "securities", "off", "resolve", "events"}
RunnerTurnsOn == {"on", "onSecurities", "findUnresolve", "unresolve"}
RunnerLabel   == {"idle", "closure", "recent", "reactivate"} \cup RunnerLooksUp \cup RunnerTurnsOn
WorkerTurnsOff == {"listings", "securities", "off"}
WorkerLabel   == {"idle", "closed", "stale", "gone", "events", "new", "create", "createListings",
                  "link", "reconcile", "delete"} \cup WorkerTurnsOff

Markets(p)  == pc[p] \in {"record", "find", "listings", "securities", "on", "onSecurities", "findUnresolve"}
Events(p)   == pc[p] \in {"events", "unresolve"}
Securities(p) == pc[p] \in {"off", "gone"}

OutsideTyped ==
    /\ status \in [Market -> {"open", "closed", "settled", "gone"}] /\ altered \subseteq Event /\ quiet \subseteq Event
    /\ known \subseteq Market /\ sentClosed \subseteq Market
    /\ listed \subseteq Event /\ tracked \subseteq Event

RegistryTyped ==
    /\ listing \in [Market -> OnOff]
    /\ security \in [Security -> OnOff]
    /\ event \in [Event -> Resolution]
    /\ linked \subseteq Security /\ settled \subseteq Security

LocalsTyped ==
    /\ queue \subseteq Message /\ batch \subseteq Message
    /\ items \subseteq Security /\ keys \subseteq Market /\ left \subseteq Market
    /\ old \subseteq Event /\ told \subseteq Event

ControlTyped ==
    /\ pc \in [Proc -> RunnerLabel \cup WorkerLabel] /\ DOMAIN stage = Proc /\ DOMAIN picked = Proc
    /\ pc["runner"] \in RunnerLabel /\ pc["worker"] \in WorkerLabel
    /\ stage["runner"] \in {"idle", "closure", "recent", "sweep"}
    /\ stage["worker"] \in {"idle", "closed", "stale", "reconcile"}
    /\ pc["worker"] \in WorkerTurnsOff => stage["worker"] # "idle"
    /\ \A p \in Proc : /\ Markets(p) => picked[p] \subseteq Market
                       /\ Securities(p) => picked[p] \subseteq Security
                       /\ Events(p) => picked[p] \subseteq Event

CountsTyped == faults \in 0..MaxFaults /\ changes \in 0..MaxChanges

TypeOK == OutsideTyped /\ RegistryTyped /\ LocalsTyped /\ ControlTyped /\ CountsTyped

-----------------------------------------------------------------------------
(* What each process leaves to the other.                                  *)

RunnerStep ==
    \/ Fetch \/ SettleSweep \/ ResolveCycle \/ (\E e \in Event : TellStale(e))
    \/ AfterFetch \/ RunnerFails

WorkerStep == Receive \/ ProcessBatch \/ WorkerFails

\* A patch changes the ids it is given and nothing else.
LEMMA SetType ==
    ASSUME NEW S, NEW V, NEW f \in [S -> V], NEW ids, NEW v \in V
    PROVE  /\ Set(f, ids, v) \in [S -> V]
           /\ \A x \in S : Set(f, ids, v)[x] = IF x \in ids THEN v ELSE f[x]
BY DEF Set

\* FetchRunner leaves the worker where it is, with the batch it holds.
LEMMA RunnerFrame ==
    ASSUME ControlTyped, RunnerStep
    PROVE  /\ pc'["worker"] = pc["worker"] /\ stage'["worker"] = stage["worker"]
           /\ picked'["worker"] = picked["worker"]
           /\ UNCHANGED <<workerVars, linked, status, changes>>
<1> USE DEF ControlTyped, At, Goto, Pick, Proc, MoveOn, workerVars, registryVars, cycleVars, control,
            runnerVars, venueVars
<1>1. CASE Fetch
    BY <1>1 DEF Fetch
<1>2. CASE SettleSweep
    BY <1>2 DEF SettleSweep, LookUp
<1>3. CASE ResolveCycle \/ \E e \in Event : TellStale(e)
    BY <1>3 DEF ResolveCycle, TellStale
<1>4. CASE CheckClosures \/ RecentSettlements
    BY <1>4 DEF CheckClosures, RecentSettlements, LookUp, NoLookUp
<1>5. CASE RecordValues \/ FindClosed \/ FindResolved \/ PatchResolved
    BY <1>5 DEF RecordValues, FindClosed, FindResolved, PatchResolved, Retire
<1>6. CASE Deactivate("runner")
    BY <1>6 DEF Deactivate, PatchListingsOff, FindSecurities, PatchSecuritiesOff
<1>7. CASE FindReopened \/ PatchListingsOn \/ PatchSecuritiesOn \/ FindUnresolve \/ PatchUnresolved
    BY <1>7 DEF FindReopened, PatchListingsOn, PatchSecuritiesOn, FindUnresolve, PatchUnresolved
<1>8. CASE RunnerFails
    BY <1>8 DEF RunnerFails
<1> QED BY <1>1, <1>2, <1>3, <1>4, <1>5, <1>6, <1>7, <1>8 DEF RunnerStep, AfterFetch

\* NormalizeWorker leaves the runner where it is, and records no value.
LEMMA WorkerFrame ==
    ASSUME ControlTyped, WorkerStep
    PROVE  /\ pc'["runner"] = pc["runner"] /\ stage'["runner"] = stage["runner"]
           /\ picked'["runner"] = picked["runner"]
           /\ UNCHANGED <<venueVars, cycleVars, runnerVars, settled, told>>
<1> USE DEF ControlTyped, At, Goto, Pick, Proc, workerVars, registryVars, control, Retire, LetGo
<1>1. CASE Receive
    BY <1>1 DEF Receive
<1>2. CASE TakeClosed \/ TakeStale \/ FindGone \/ PatchGone
    BY <1>2 DEF TakeClosed, TakeStale, FindGone, PatchGone
<1>3. CASE Deactivate("worker")
    BY <1>3 DEF Deactivate, PatchListingsOff, FindSecurities, PatchSecuritiesOff
<1>4. CASE CreateEvents \/ CreateSecurities \/ CreateListings \/ CreateEventContracts \/ Reconcile
    BY <1>4 DEF CreateEvents, CreateSecurities, CreateListings, CreateEventContracts, Reconcile
<1>5. CASE Delete \/ WorkerFails
    BY <1>5 DEF Delete, WorkerFails
<1> QED BY <1>1, <1>2, <1>3, <1>4, <1>5 DEF WorkerStep, ProcessBatch

\* A step is the venue's, the runner's or the worker's.
LEMMA Steps == Next => VenueChanges \/ RunnerStep \/ WorkerStep
BY DEF Next, RunnerStep, WorkerStep

-----------------------------------------------------------------------------
(* Type correctness.                                                       *)

\* The messages a batch carries are of markets and events.
LEMMA BatchType ==
    ASSUME LocalsTyped
    PROVE  /\ NewIn \subseteq Market
           /\ \A msg \in News : msg.event \in Event
BY DEF LocalsTyped, NewIn, News, Message

\* A fault a process suffers is one more of those counted.
LEMMA FaultCounted ==
    ASSUME NEW kind, CountsTyped, Fault(kind)
    PROVE  faults' \in 0..MaxFaults
BY ConstantsAssumption DEF CountsTyped, Fault

\* Every fault and every change on the venue is counted.
LEMMA CountsStep == TypeOK /\ Next => CountsTyped'
<1> SUFFICES ASSUME TypeOK, Next PROVE CountsTyped'
    OBVIOUS
<1> USE DEF TypeOK
<1>1. changes' \in 0..MaxChanges
    <2>1. CASE VenueChanges
        BY <2>1, ConstantsAssumption DEF VenueChanges, CountsTyped
    <2> QED BY <2>1, Steps, RunnerFrame, WorkerFrame DEF CountsTyped, venueVars
<1>2. faults' \in 0..MaxFaults
    <2>1. ASSUME UNCHANGED faults PROVE faults' \in 0..MaxFaults
        BY <2>1 DEF CountsTyped
    <2>2. CASE VenueChanges \/ Fetch \/ SettleSweep \/ ResolveCycle \/ \E e \in Event : TellStale(e)
        BY <2>1, <2>2, FaultCounted DEF VenueChanges, Fetch, SettleSweep, LookUp, ResolveCycle, TellStale
    <2>3. CASE CheckClosures \/ RecentSettlements \/ RunnerFails
        BY <2>1, <2>3, FaultCounted DEF CheckClosures, RecentSettlements, LookUp, NoLookUp, RunnerFails
    <2>4. CASE RecordValues \/ FindClosed \/ FindResolved \/ PatchResolved \/ FindReopened
               \/ PatchListingsOn \/ PatchSecuritiesOn \/ FindUnresolve \/ PatchUnresolved
        BY <2>1, <2>4 DEF RecordValues, FindClosed, FindResolved, PatchResolved, FindReopened,
                          PatchListingsOn, PatchSecuritiesOn, FindUnresolve, PatchUnresolved
    <2>5. CASE \E p \in Proc : Deactivate(p)
        BY <2>1, <2>5 DEF Deactivate, PatchListingsOff, FindSecurities, PatchSecuritiesOff
    <2>6. CASE Receive \/ TakeClosed \/ TakeStale \/ FindGone \/ PatchGone \/ CreateEvents
               \/ CreateSecurities \/ CreateListings \/ CreateEventContracts \/ Reconcile
        BY <2>1, <2>6 DEF Receive, TakeClosed, TakeStale, FindGone, PatchGone, CreateEvents,
                          CreateSecurities, CreateListings, CreateEventContracts, Reconcile
    <2>7. CASE Delete \/ WorkerFails
        BY <2>1, <2>7, FaultCounted DEF Delete, WorkerFails
    <2> QED BY <2>2, <2>3, <2>4, <2>5, <2>6, <2>7 DEF Next, AfterFetch, ProcessBatch, Proc
<1> QED BY <1>1, <1>2 DEF CountsTyped

\* The venue and the trackers in Redis keep their types.
LEMMA OutsideStep == TypeOK /\ Next => OutsideTyped'
<1> SUFFICES ASSUME TypeOK, Next PROVE OutsideTyped'
    OBVIOUS
<1> USE DEF OutsideTyped
<1>1. CASE VenueChanges
    BY <1>1 DEF VenueChanges, TypeOK, cycleVars
<1>2. CASE WorkerStep
    BY <1>2, WorkerFrame DEF TypeOK, venueVars, cycleVars
<1>3. CASE Fetch
    <2>1. \A m \in Open : EventOfMarket(m) \in Event
        BY ConstantsAssumption DEF Open, EventOfMarket
    <2> QED BY <1>3, <2>1 DEF Fetch, TypeOK, Open
<1>4. CASE SettleSweep \/ CheckClosures \/ RecentSettlements
    BY <1>4 DEF SettleSweep, CheckClosures, RecentSettlements, LookUp, NoLookUp, TypeOK, venueVars, cycleVars
<1>5. CASE ResolveCycle \/ \E e \in Event : TellStale(e)
    BY <1>5 DEF ResolveCycle, TellStale, TypeOK, venueVars
<1>6. CASE \/ RecordValues \/ FindClosed \/ Deactivate("runner") \/ FindResolved \/ PatchResolved
           \/ FindReopened \/ PatchListingsOn \/ PatchSecuritiesOn \/ FindUnresolve \/ PatchUnresolved
           \/ RunnerFails
    BY <1>6 DEF RecordValues, FindClosed, Deactivate, PatchListingsOff, FindSecurities, PatchSecuritiesOff,
                FindResolved, PatchResolved, FindReopened, PatchListingsOn, PatchSecuritiesOn,
                FindUnresolve, PatchUnresolved, RunnerFails, TypeOK, venueVars, cycleVars
<1> QED BY <1>1, <1>2, <1>3, <1>4, <1>5, <1>6, Steps DEF RunnerStep, AfterFetch

\* Every patch and every new row keeps the registry in its type.
LEMMA RegistryStep == TypeOK /\ Next => RegistryTyped'
<1> SUFFICES ASSUME TypeOK, Next PROVE RegistryTyped'
    OBVIOUS
<1> USE DEF RegistryTyped
<1>1. ASSUME UNCHANGED registryVars PROVE RegistryTyped'
    BY <1>1 DEF TypeOK, registryVars
<1>2. ASSUME NEW ids, NEW v \in OnOff, listing' = Set(listing, ids, v),
             UNCHANGED <<security, linked, settled, event>>
      PROVE  RegistryTyped'
    <2>1. listing' \in [Market -> OnOff]
        BY <1>2, SetType DEF TypeOK
    <2> QED BY <1>2, <2>1 DEF TypeOK
<1>3. ASSUME NEW ids, NEW v \in OnOff, security' = Set(security, ids, v),
             UNCHANGED <<listing, linked, settled, event>>
      PROVE  RegistryTyped'
    <2>1. security' \in [Security -> OnOff]
        BY <1>3, SetType DEF TypeOK
    <2> QED BY <1>3, <2>1 DEF TypeOK
<1>4. ASSUME NEW ids, NEW v \in Resolution, event' = Set(event, ids, v),
             UNCHANGED <<listing, security, linked, settled>>
      PROVE  RegistryTyped'
    <2>1. event \in [Event -> Resolution]
        BY DEF TypeOK
    <2>2. event' \in [Event -> Resolution]
        BY <1>4, <2>1, SetType
    <2> QED BY <1>4, <2>2 DEF TypeOK
<1>5. CASE VenueChanges \/ Fetch \/ SettleSweep \/ ResolveCycle \/ \E e \in Event : TellStale(e)
    BY <1>1, <1>5 DEF VenueChanges, Fetch, SettleSweep, LookUp, ResolveCycle, TellStale
<1>6. CASE CheckClosures \/ RecentSettlements \/ FindClosed \/ FindResolved \/ FindReopened \/ FindUnresolve
    BY <1>1, <1>6 DEF CheckClosures, RecentSettlements, LookUp, NoLookUp, FindClosed, FindResolved,
                      FindReopened, FindUnresolve
<1>7. CASE RunnerFails \/ Receive \/ TakeClosed \/ TakeStale \/ FindGone \/ Reconcile \/ Delete \/ WorkerFails
    BY <1>1, <1>7 DEF RunnerFails, Receive, TakeClosed, TakeStale, FindGone, Reconcile, Delete, WorkerFails, LetGo
<1>8. CASE RecordValues
    BY <1>8 DEF RecordValues, TypeOK, LocalsTyped
<1>9. ASSUME NEW p \in Proc, Deactivate(p) PROVE RegistryTyped'
    BY <1>1, <1>2, <1>3, <1>9 DEF Deactivate, PatchListingsOff, FindSecurities, PatchSecuritiesOff, OnOff
<1>10. CASE PatchListingsOn
    BY <1>2, <1>10 DEF PatchListingsOn, OnOff
<1>11. CASE PatchSecuritiesOn
    BY <1>3, <1>11 DEF PatchSecuritiesOn, OnOff
<1>12. CASE PatchResolved \/ PatchUnresolved \/ PatchGone \/ CreateEvents
    BY <1>4, <1>12 DEF PatchResolved, PatchUnresolved, PatchGone, CreateEvents, Resolution
<1>13. CASE CreateListings
    BY <1>2, <1>13 DEF CreateListings, OnOff
<1>14. CASE CreateSecurities
    BY <1>3, <1>14 DEF CreateSecurities, OnOff
<1>15. CASE CreateEventContracts
    BY <1>15, BatchType, ConstantsAssumption DEF CreateEventContracts, TypeOK
<1> QED BY <1>5, <1>6, <1>7, <1>8, <1>9, <1>10, <1>11, <1>12, <1>13, <1>14, <1>15
    DEF Next, AfterFetch, ProcessBatch, Proc

\* Messages and locals hold markets, securities and events.
LEMMA LocalsStep == TypeOK /\ Next => LocalsTyped'
<1> SUFFICES ASSUME TypeOK, Next PROVE LocalsTyped'
    OBVIOUS
<1> USE DEF TypeOK, LocalsTyped
<1>1. ASSUME UNCHANGED <<queue, runnerVars, workerVars, told>> PROVE LocalsTyped'
    BY <1>1 DEF runnerVars, workerVars
<1>2. CASE VenueChanges
    BY <1>1, <1>2 DEF VenueChanges
<1>3. CASE Fetch
    <2>1. \A e \in Event, M \in SUBSET Market : NewMessage(e, M) \in Message
        BY DEF NewMessage, Message
    <2>2. PICK seen \in SUBSET Open, before \in SUBSET known :
              /\ \E sent \in SUBSET {EventOfMarket(m) : m \in seen} :
                    queue' = queue \cup {NewMessage(e, seen \cap MarketsOf(e)) : e \in sent}
              /\ keys' \subseteq seen /\ left' = before \ keys'
        BY <1>3 DEF Fetch
    <2>3. queue' \subseteq Message
        <3>1. \A m \in seen : EventOfMarket(m) \in Event
            BY ConstantsAssumption DEF Open, EventOfMarket
        <3> QED BY <2>1, <2>2, <3>1 DEF Open
    <2> QED BY <1>3, <2>2, <2>3 DEF Fetch, Open, OutsideTyped, workerVars
<1>4. CASE ResolveCycle
    <2>1. \A m \in Market : Closed(m) \in Message
        BY DEF Closed, Message
    <2> QED BY <1>4, <2>1 DEF ResolveCycle, runnerVars, workerVars
<1>5. ASSUME NEW e \in Event, TellStale(e) PROVE LocalsTyped'
    <2>1. Stale(e) \in Message
        BY DEF Stale, Message
    <2> QED BY <1>5, <2>1 DEF TellStale, runnerVars, workerVars
<1>6. CASE SettleSweep \/ CheckClosures \/ RecentSettlements
    BY <1>6, ConstantsAssumption DEF SettleSweep, CheckClosures, RecentSettlements, LookUp, NoLookUp, MoveOn,
        Unsettled, RegistryTyped, workerVars
<1>7. CASE FindClosed \/ RecordValues \/ PatchListingsOn \/ PatchSecuritiesOn \/ FindUnresolve
    BY <1>1, <1>7 DEF FindClosed, RecordValues, PatchListingsOn, PatchSecuritiesOn, FindUnresolve
<1>8. CASE FindResolved \/ PatchResolved \/ FindReopened \/ PatchUnresolved \/ RunnerFails
    BY <1>8 DEF FindResolved, PatchResolved, FindReopened, PatchUnresolved, RunnerFails, MoveOn,
                runnerVars, workerVars
<1>9. CASE \E p \in Proc : Deactivate(p)
    BY <1>1, <1>9 DEF Deactivate, PatchListingsOff, FindSecurities, PatchSecuritiesOff
<1>10. CASE Receive
    BY <1>10 DEF Receive, runnerVars
<1>11. CASE TakeClosed \/ TakeStale \/ FindGone \/ PatchGone \/ CreateSecurities \/ CreateListings
            \/ CreateEventContracts \/ Reconcile
    BY <1>1, <1>11 DEF TakeClosed, TakeStale, FindGone, PatchGone, CreateSecurities, CreateListings,
                       CreateEventContracts, Reconcile
<1>12. CASE CreateEvents
    BY <1>12, BatchType DEF CreateEvents, runnerVars
<1>13. CASE Delete \/ WorkerFails
    BY <1>13 DEF Delete, WorkerFails, LetGo, runnerVars
<1> QED BY <1>2, <1>3, <1>4, <1>5, <1>6, <1>7, <1>8, <1>9, <1>10, <1>11, <1>12, <1>13
    DEF Next, AfterFetch, ProcessBatch, Proc

\* Each process goes from label to label as its handler does, with what that label works on.
LEMMA ControlStep == TypeOK /\ Next => ControlTyped'
<1> SUFFICES ASSUME TypeOK, Next PROVE ControlTyped'
    OBVIOUS
<1> USE DEF ControlTyped, At, Goto, Pick, Proc, RunnerLabel, WorkerLabel, RunnerLooksUp, RunnerTurnsOn,
            WorkerTurnsOff, Markets, Events, Securities
<1>1. ASSUME UNCHANGED control PROVE ControlTyped'
    BY <1>1 DEF TypeOK, control
<1>2. ASSUME NEW label \in RunnerLabel, label \notin {"on", "onSecurities", "findUnresolve", "unresolve"},
             label \notin RunnerLooksUp, MoveOn(label)
      PROVE  ControlTyped'
    BY <1>2 DEF MoveOn, TypeOK
<1>3. CASE VenueChanges \/ ResolveCycle \/ \E e \in Event : TellStale(e)
    BY <1>1, <1>3 DEF VenueChanges, ResolveCycle, TellStale
<1>4. CASE Fetch
    BY <1>4 DEF Fetch, TypeOK
<1>5. CASE SettleSweep
    BY <1>5 DEF SettleSweep, LookUp, Over, TypeOK
<1>6. CASE CheckClosures
    BY <1>2, <1>6 DEF CheckClosures, LookUp, NoLookUp, Over, TypeOK
<1>7. CASE RecentSettlements
    BY <1>2, <1>7 DEF RecentSettlements, LookUp, NoLookUp, Over, TypeOK
<1>8. CASE RecordValues \/ PatchListingsOn \/ PatchSecuritiesOn
    BY <1>8 DEF RecordValues, PatchListingsOn, PatchSecuritiesOn, TypeOK
<1>9. CASE FindClosed
    BY <1>9 DEF FindClosed, Retire, Active, TypeOK
<1>10. NextStage(stage["runner"]) \in {"recent", "reactivate", "idle"}
    BY DEF NextStage
<1>11. CASE FindResolved
    <2>1. \A s \in items : EventOf[s] \in Event
        BY ConstantsAssumption DEF TypeOK, LocalsTyped
    <2> QED BY <1>2, <1>10, <1>11, <2>1 DEF FindResolved, TypeOK
<1>12. CASE PatchResolved \/ PatchUnresolved \/ RunnerFails
    BY <1>2, <1>10, <1>12 DEF PatchResolved, PatchUnresolved, RunnerFails
<1>13. CASE FindReopened
    BY <1>2, <1>13 DEF FindReopened, Reopened, Unsettled, Inactive, TypeOK, LocalsTyped
<1>14. CASE FindUnresolve
    <2>1. \A m \in picked["runner"] : EventOfMarket(m) \in Event
        BY <1>14, ConstantsAssumption DEF FindUnresolve, EventOfMarket, TypeOK
    <2> QED BY <1>14, <2>1 DEF FindUnresolve, TypeOK
<1>15. ASSUME NEW p \in Proc, Deactivate(p) PROVE ControlTyped'
    <2>1. CASE PatchListingsOff(p)
        BY <2>1 DEF PatchListingsOff, TypeOK
    <2>2. CASE FindSecurities(p)
        <3>1. LeftWithNone(p) \subseteq Security
            BY <2>2, ConstantsAssumption DEF FindSecurities, LeftWithNone, TypeOK
        <3> QED BY <2>2, <3>1 DEF FindSecurities, TypeOK
    <2>3. CASE PatchSecuritiesOff(p)
        BY <2>3 DEF PatchSecuritiesOff, AfterOff, TypeOK
    <2> QED BY <1>15, <2>1, <2>2, <2>3 DEF Deactivate
<1>16. CASE Receive
    BY <1>16 DEF Receive, TypeOK
<1>17. CASE TakeClosed \/ TakeStale \/ Reconcile
    BY <1>17 DEF TakeClosed, TakeStale, Reconcile, Retire, Active, TypeOK
<1>18. CASE FindGone
    <2>1. GoneEvents \subseteq Event
        BY ConstantsAssumption DEF GoneEvents, TypeOK, RegistryTyped
    <2> QED BY <1>18, <2>1 DEF FindGone, TypeOK
<1>19. CASE PatchGone \/ CreateEvents \/ CreateSecurities \/ CreateListings \/ CreateEventContracts
    BY <1>19 DEF PatchGone, CreateEvents, CreateSecurities, CreateListings, CreateEventContracts, TypeOK
<1>20. CASE Delete \/ WorkerFails
    BY <1>20 DEF Delete, WorkerFails, LetGo, TypeOK
<1> QED BY <1>3, <1>4, <1>5, <1>6, <1>7, <1>8, <1>9, <1>11, <1>12, <1>13, <1>14, <1>15, <1>16, <1>17,
           <1>18, <1>19, <1>20 DEF Next, AfterFetch, ProcessBatch

\* The type of the state is that of its four parts.
LEMMA NextTypeOK == TypeOK /\ [Next]_vars => TypeOK'
<1>1. CASE UNCHANGED vars
    BY <1>1 DEF vars, venueVars, cycleVars, registryVars, runnerVars, workerVars, control, TypeOK, OutsideTyped,
                RegistryTyped, LocalsTyped, ControlTyped, CountsTyped, Markets, Events, Securities
<1> QED BY <1>1, OutsideStep, RegistryStep, LocalsStep, ControlStep, CountsStep DEF TypeOK

\* The first state has the type: the registry holds what the registered markets are of.
LEMMA InitTypeOK == Init => TypeOK
<1> SUFFICES ASSUME Init PROVE TypeOK
    OBVIOUS
<1>1. \A m \in Registered : SecurityOf[m] \in Security /\ EventOfMarket(m) \in Event
    BY ConstantsAssumption DEF EventOfMarket
<1>2. OutsideTyped
    BY <1>1, ConstantsAssumption DEF Init, OutsideTyped
<1>3. RegistryTyped
    BY <1>1 DEF Init, RegistryTyped, OnOff, Resolution
<1>4. LocalsTyped
    BY DEF Init, LocalsTyped
<1>5. ControlTyped
    BY DEF Init, ControlTyped, Proc, RunnerLabel, WorkerLabel, WorkerTurnsOff, Markets, Events, Securities
<1>6. CountsTyped
    BY ConstantsAssumption DEF Init, CountsTyped
<1> QED BY <1>2, <1>3, <1>4, <1>5, <1>6 DEF TypeOK

\* The state always has its type: each process, wherever it is interrupted, works on ids of the kind
\* that its next call takes.
THEOREM TypeCorrect == Spec => []TypeOK
<1> QED BY InitTypeOK, NextTypeOK, PTL DEF Spec

-----------------------------------------------------------------------------
(* A listing comes back on only from the runner's reactivation, which      *)
(* reads first and patches later.                                          *)

\* What the runner is about to turn on has no settlement value: only the runner records one.
OnWithoutValue ==
    pc["runner"] = "on" => \A m \in picked["runner"] : SecurityOf[m] \notin settled

\* A listing comes on only by a patch of RecoverOn, which read it without a value.
LEMMA OnStep == TypeOK /\ OnWithoutValue /\ Next => OnWithoutValue'
<1> SUFFICES ASSUME TypeOK, OnWithoutValue, Next PROVE OnWithoutValue'
    OBVIOUS
<1> USE DEF OnWithoutValue
<1> ControlTyped
    BY DEF TypeOK
<1>1. CASE VenueChanges \/ ResolveCycle \/ \E e \in Event : TellStale(e)
    BY <1>1 DEF VenueChanges, ResolveCycle, TellStale, registryVars, control
<1>2. CASE WorkerStep
    BY <1>2, WorkerFrame
<1>3. CASE FindReopened
    <2>1. \A m \in Reopened : SecurityOf[m] \notin settled
        BY DEF Reopened, Unsettled
    <2> QED BY <1>3, <2>1 DEF FindReopened, MoveOn, Goto, Pick, ControlTyped, Proc, registryVars
<1>4. CASE Fetch \/ SettleSweep \/ CheckClosures \/ RecentSettlements \/ RecordValues \/ FindClosed
           \/ FindResolved \/ PatchResolved \/ PatchListingsOn \/ PatchSecuritiesOn \/ FindUnresolve
           \/ PatchUnresolved \/ Deactivate("runner") \/ RunnerFails
    <2>1. pc'["runner"] # "on"
        BY <1>4 DEF Fetch, SettleSweep, CheckClosures, RecentSettlements, LookUp, NoLookUp, RecordValues,
            FindClosed, Retire, FindResolved, PatchResolved, NextStage, PatchListingsOn, PatchSecuritiesOn,
            FindUnresolve, PatchUnresolved, RunnerFails, Deactivate, PatchListingsOff, FindSecurities,
            PatchSecuritiesOff, AfterOff, MoveOn, Goto, Pick, ControlTyped, Proc
    <2> QED BY <2>1
<1> QED BY <1>1, <1>2, <1>3, <1>4, Steps DEF RunnerStep, AfterFetch

\* Whatever the closure check, the sweep and the two kinds of look-ups record while the worker turns
\* listings off, a listing whose outcome has its settlement value never comes back on.
THEOREM SettledNeverReactivated == Spec => SettledStaysRetired
<1>1. Init => OnWithoutValue
    BY DEF Init, OnWithoutValue, Proc
<1>2. TypeOK /\ OnWithoutValue /\ [Next]_vars => OnWithoutValue'
    BY OnStep DEF vars, registryVars, control, OnWithoutValue
<1>3. ASSUME TypeOK, OnWithoutValue, Next,
             NEW m \in Market, listing[m] = "inactive", SecurityOf[m] \in settled
      PROVE  listing'[m] = "inactive"
    <2> ControlTyped /\ RegistryTyped
        BY <1>3 DEF TypeOK
    <2> USE DEF RegistryTyped
    <2>1. CASE UNCHANGED listing
        BY <1>3, <2>1
    <2>2. ASSUME NEW p \in Proc, PatchListingsOff(p) PROVE listing'[m] = "inactive"
        BY <1>3, <2>2 DEF PatchListingsOff, Set
    <2>3. CASE PatchListingsOn
        <3>1. m \notin picked["runner"]
            BY <1>3, <2>3 DEF PatchListingsOn, At, OnWithoutValue
        <3> QED BY <1>3, <2>3, <3>1 DEF PatchListingsOn, Set
    <2>4. CASE CreateListings
        BY <1>3, <2>4 DEF CreateListings, Set
    <2>5. CASE VenueChanges \/ Fetch \/ SettleSweep \/ ResolveCycle \/ \E e \in Event : TellStale(e)
        BY <2>1, <2>5 DEF VenueChanges, Fetch, SettleSweep, LookUp, ResolveCycle, TellStale, registryVars
    <2>6. CASE CheckClosures \/ RecentSettlements \/ FindClosed \/ RecordValues \/ FindResolved \/ PatchResolved
               \/ FindReopened \/ PatchSecuritiesOn \/ FindUnresolve \/ PatchUnresolved \/ RunnerFails
        BY <2>1, <2>6 DEF CheckClosures, RecentSettlements, LookUp, NoLookUp, FindClosed, RecordValues, FindResolved,
            PatchResolved, FindReopened, PatchSecuritiesOn, FindUnresolve, PatchUnresolved, RunnerFails, registryVars
    <2>7. CASE \E p \in Proc : FindSecurities(p) \/ PatchSecuritiesOff(p)
        BY <2>1, <2>7 DEF FindSecurities, PatchSecuritiesOff, registryVars
    <2>8. CASE Receive \/ TakeClosed \/ TakeStale \/ FindGone \/ PatchGone \/ CreateEvents \/ CreateSecurities
               \/ CreateEventContracts \/ Reconcile \/ Delete \/ WorkerFails
        BY <2>1, <2>8 DEF Receive, TakeClosed, TakeStale, FindGone, PatchGone, CreateEvents, CreateSecurities,
            CreateEventContracts, Reconcile, Delete, WorkerFails, LetGo, registryVars
    <2> QED BY <1>3, <2>2, <2>3, <2>4, <2>5, <2>6, <2>7, <2>8
        DEF Next, AfterFetch, ProcessBatch, Deactivate, Proc
<1>4. TypeOK /\ OnWithoutValue /\ [Next]_vars =>
          [\A m \in Market : listing[m] = "inactive" /\ SecurityOf[m] \in settled
                                 => listing'[m] = "inactive"]_vars
    BY <1>3
<1> QED BY <1>1, <1>2, <1>4, TypeCorrect, PTL DEF Spec, SettledStaysRetired

-----------------------------------------------------------------------------
(* Why an event that is resolved is over.                                  *)

\* The messages that tell an event stale are about events the stale cycle told.
ToldInMessages == \A e \in Event : Stale(e) \in queue \cup batch => e \in told

\* What the worker takes for gone, it takes from such a message.
GoneWereTold ==
    /\ stage["worker"] = "stale" /\ pc["worker"] \in {"listings", "securities"} =>
           \A m \in picked["worker"] : EventOfMarket(m) \in told
    /\ (stage["worker"] = "stale" /\ pc["worker"] = "off") \/ pc["worker"] = "gone" =>
           \A s \in picked["worker"] : EventOf[s] \in told
    /\ pc["worker"] = "events" => picked["worker"] \subseteq told

\* Every outcome of an event whose markets are all registered has its event contract from the start,
\* so that no new one joins the event between the runner's read and its patch.
AllRegistered(e) == MarketsOf(e) \subseteq Registered
RegisteredLinked == \A m \in Registered : SecurityOf[m] \in linked

\* What the runner takes for settled has its value, recorded by the time it is used.
Valued(e) == \A s \in linked : EventOf[s] = e => s \in settled
RecordedFirst == pc["runner"] # "record" => items \subseteq settled
DoneAreValued ==
    pc["runner"] = "events" => \A e \in picked["runner"] : AllRegistered(e) => Valued(e)

RegisteredIsOver ==
    \A e \in Event : event[e] = "resolved" /\ AllRegistered(e) => e \in told \/ Valued(e)

ResolvedInv ==
    /\ TypeOK
    /\ RegisteredLinked
    /\ ToldInMessages /\ GoneWereTold /\ RecordedFirst /\ DoneAreValued
    /\ RegisteredIsOver

\* The event of a stale message, and of nothing else, is that of Stale(e).
LEMMA MessagesDiffer ==
    /\ \A d, e \in Event : Stale(d) = Stale(e) => d = e
    /\ \A e \in Event, m \in Market : Stale(e) # Closed(m)
    /\ \A d, e \in Event : \A M : Stale(d) # NewMessage(e, M)
BY DEF Stale, Closed, NewMessage

\* A stale message is only sent of an event the tracker told stale, and told only grows.
LEMMA ToldStep == TypeOK /\ ToldInMessages /\ Next => ToldInMessages'
<1> SUFFICES ASSUME TypeOK, ToldInMessages, Next, NEW e \in Event, Stale(e) \in (queue \cup batch)'
             PROVE  e \in told'
    BY DEF ToldInMessages, Stale
<1> USE DEF ToldInMessages, runnerVars, workerVars
<1>1. CASE UNCHANGED <<queue, batch, told>>
    BY <1>1
<1>2. CASE VenueChanges \/ SettleSweep \/ CheckClosures \/ RecentSettlements
    BY <1>1, <1>2 DEF VenueChanges, SettleSweep, CheckClosures, RecentSettlements, LookUp, NoLookUp
<1>3. CASE Fetch
    <2>1. \A m \in Open : EventOfMarket(m) \in Event
        BY ConstantsAssumption DEF Open, EventOfMarket
    <2>2. PICK seen \in SUBSET Open, before \in SUBSET known :
              \E sent \in SUBSET {EventOfMarket(m) : m \in seen} :
                  queue' = queue \cup {NewMessage(d, seen \cap MarketsOf(d)) : d \in sent}
        BY <1>3 DEF Fetch
    <2>3. Stale(e) \in queue \/ Stale(e) \in batch
        <3>1. \A m \in seen : Stale(e) # NewMessage(EventOfMarket(m), seen \cap MarketsOf(EventOfMarket(m)))
            BY <2>1, MessagesDiffer
        <3> QED BY <1>3, <2>2, <3>1 DEF Fetch
    <2> QED BY <1>3, <2>3 DEF Fetch
<1>4. CASE ResolveCycle
    BY <1>4, MessagesDiffer DEF ResolveCycle
<1>5. ASSUME NEW d \in Event, TellStale(d) PROVE e \in told'
    BY <1>5, MessagesDiffer DEF TellStale
<1>6. CASE RecordValues \/ FindClosed \/ FindResolved \/ PatchResolved \/ FindReopened \/ PatchListingsOn
           \/ PatchSecuritiesOn \/ FindUnresolve \/ PatchUnresolved \/ RunnerFails
    BY <1>1, <1>6 DEF RecordValues, FindClosed, FindResolved, PatchResolved, FindReopened, PatchListingsOn,
                      PatchSecuritiesOn, FindUnresolve, PatchUnresolved, RunnerFails
<1>7. CASE \E p \in Proc : Deactivate(p)
    BY <1>1, <1>7 DEF Deactivate, PatchListingsOff, FindSecurities, PatchSecuritiesOff
<1>8. CASE Receive
    BY <1>8 DEF Receive
<1>9. CASE TakeClosed \/ TakeStale \/ FindGone \/ PatchGone \/ CreateEvents \/ CreateSecurities
           \/ CreateListings \/ CreateEventContracts \/ Reconcile
    BY <1>1, <1>9 DEF TakeClosed, TakeStale, FindGone, PatchGone, CreateEvents, CreateSecurities,
                      CreateListings, CreateEventContracts, Reconcile
<1>10. CASE Delete \/ WorkerFails
    BY <1>10 DEF Delete, WorkerFails, LetGo
<1> QED BY <1>2, <1>3, <1>4, <1>5, <1>6, <1>7, <1>8, <1>9, <1>10 DEF Next, AfterFetch, ProcessBatch, Proc

\* What was told was told, and a value recorded stays recorded.
LEMMA HistoryGrows == TypeOK /\ Next => told \subseteq told' /\ settled \subseteq settled'
<1> SUFFICES ASSUME TypeOK, Next PROVE told \subseteq told' /\ settled \subseteq settled'
    OBVIOUS
<1>1. CASE VenueChanges
    BY <1>1 DEF VenueChanges, registryVars
<1>2. CASE WorkerStep
    BY <1>2, WorkerFrame DEF TypeOK
<1>3. CASE Fetch \/ SettleSweep \/ ResolveCycle \/ (\E e \in Event : TellStale(e)) \/ RunnerFails
    BY <1>3 DEF Fetch, SettleSweep, LookUp, ResolveCycle, TellStale, RunnerFails, registryVars
<1>4. CASE AfterFetch
    BY <1>4 DEF AfterFetch, CheckClosures, RecentSettlements, LookUp, NoLookUp, RecordValues, FindClosed,
        FindResolved, PatchResolved, FindReopened, PatchListingsOn, PatchSecuritiesOn, FindUnresolve,
        PatchUnresolved, Deactivate, PatchListingsOff, FindSecurities, PatchSecuritiesOff, registryVars
<1> QED BY <1>1, <1>2, <1>3, <1>4, Steps DEF RunnerStep

\* What the worker has in hand when it looks for events that are gone comes from the stale messages.
LEMMA GoneStep == TypeOK /\ ToldInMessages /\ GoneWereTold /\ Next => GoneWereTold'
<1> SUFFICES ASSUME TypeOK, ToldInMessages, GoneWereTold, Next PROVE GoneWereTold'
    OBVIOUS
<1> ControlTyped
    BY DEF TypeOK
<1> USE DEF ControlTyped, At, Goto, Pick, Proc
<1>1. told \subseteq told'
    BY HistoryGrows
<1>2. CASE VenueChanges
    BY <1>2 DEF VenueChanges, GoneWereTold, control
<1>3. CASE RunnerStep
    BY <1>1, <1>3, RunnerFrame DEF GoneWereTold
<1>4. CASE TakeStale
    <2>1. \A m \in Active : EventOfMarket(m) \in StaleIn => EventOfMarket(m) \in told
        BY DEF StaleIn, ToldInMessages
    <2> QED BY <1>1, <1>4, <2>1 DEF TakeStale, Retire, GoneWereTold
<1>5. CASE PatchListingsOff("worker")
    BY <1>1, <1>5 DEF PatchListingsOff, GoneWereTold
<1>6. CASE FindSecurities("worker")
    <2>1. ASSUME stage["worker"] = "stale", NEW s \in LeftWithNone("worker") PROVE EventOf[s] \in told
        BY <1>6, <2>1 DEF FindSecurities, LeftWithNone, EventOfMarket, GoneWereTold
    <2> QED BY <1>1, <1>6, <2>1 DEF FindSecurities, GoneWereTold
<1>7. CASE PatchSecuritiesOff("worker")
    BY <1>1, <1>7 DEF PatchSecuritiesOff, AfterOff, GoneWereTold
<1>8. CASE FindGone
    <2>1. GoneEvents \subseteq told
        BY <1>8 DEF FindGone, GoneEvents, GoneWereTold
    <2> QED BY <1>1, <1>8, <2>1 DEF FindGone, GoneWereTold
<1>9. CASE TakeClosed \/ Reconcile
    BY <1>9 DEF TakeClosed, Reconcile, Retire, GoneWereTold
<1>10. CASE Receive \/ PatchGone \/ CreateEvents \/ CreateSecurities \/ CreateListings \/ CreateEventContracts
            \/ Delete \/ WorkerFails
    BY <1>10 DEF Receive, PatchGone, CreateEvents, CreateSecurities, CreateListings, CreateEventContracts,
                 Delete, WorkerFails, LetGo, GoneWereTold
<1> QED BY <1>2, <1>3, <1>4, <1>5, <1>6, <1>7, <1>8, <1>9, <1>10, Steps DEF WorkerStep, ProcessBatch, Deactivate

\* An event contract is never removed, and a new one is of a market that was not registered.
LEMMA LinkedGrows ==
    ASSUME TypeOK, RegisteredLinked, Next
    PROVE  /\ linked \subseteq linked'
           /\ \A s \in linked' \ linked : ~AllRegistered(EventOf[s])
<1>1. CASE VenueChanges
    BY <1>1 DEF VenueChanges, registryVars
<1>2. CASE RunnerStep
    BY <1>2, RunnerFrame DEF TypeOK
<1>3. CASE CreateEventContracts
    <2>1. ASSUME NEW m \in NewIn, SecurityOf[m] \notin linked PROVE ~AllRegistered(EventOf[SecurityOf[m]])
        BY <2>1, BatchType DEF TypeOK, RegisteredLinked, AllRegistered, MarketsOf, EventOfMarket
    <2> QED BY <1>3, <2>1 DEF CreateEventContracts
<1>4. CASE Receive \/ TakeClosed \/ TakeStale \/ FindGone \/ PatchGone \/ CreateEvents \/ CreateSecurities
           \/ CreateListings \/ Reconcile \/ Delete \/ WorkerFails \/ Deactivate("worker")
    BY <1>4 DEF Receive, TakeClosed, TakeStale, FindGone, PatchGone, CreateEvents, CreateSecurities,
        CreateListings, Reconcile, Delete, WorkerFails, LetGo, Deactivate, PatchListingsOff, FindSecurities,
        PatchSecuritiesOff, registryVars
<1> QED BY <1>1, <1>2, <1>3, <1>4, Steps DEF WorkerStep, ProcessBatch

\* An event whose outcomes all have values has them from then on.
LEMMA ValuedStays ==
    ASSUME TypeOK, RegisteredLinked, Next, NEW e, AllRegistered(e), Valued(e)
    PROVE  Valued(e)'
BY LinkedGrows, HistoryGrows DEF Valued

\* Once the runner is past recording, what its look-ups found has its value in the registry.
LEMMA RecordedStep == TypeOK /\ RecordedFirst /\ Next => RecordedFirst'
<1> SUFFICES ASSUME TypeOK, RecordedFirst, Next PROVE RecordedFirst'
    OBVIOUS
<1> ControlTyped /\ settled \subseteq settled'
    BY HistoryGrows DEF TypeOK
<1> USE DEF RecordedFirst, ControlTyped, At, Goto, Proc, runnerVars
<1>1. CASE VenueChanges \/ ResolveCycle \/ \E e \in Event : TellStale(e)
    BY <1>1 DEF VenueChanges, ResolveCycle, TellStale, control
<1>2. CASE WorkerStep
    BY <1>2, WorkerFrame
<1>3. CASE SettleSweep \/ CheckClosures \/ RecentSettlements
    BY <1>3 DEF SettleSweep, CheckClosures, RecentSettlements, LookUp, NoLookUp, MoveOn
<1>4. CASE RecordValues
    BY <1>4 DEF RecordValues
<1>5. CASE Fetch \/ FindClosed \/ PatchListingsOn \/ PatchSecuritiesOn \/ FindUnresolve
    BY <1>5 DEF Fetch, FindClosed, Retire, PatchListingsOn, PatchSecuritiesOn, FindUnresolve
<1>6. CASE FindResolved \/ PatchResolved \/ FindReopened \/ PatchUnresolved \/ RunnerFails
    BY <1>6 DEF FindResolved, PatchResolved, FindReopened, PatchUnresolved, RunnerFails, MoveOn
<1>7. CASE Deactivate("runner")
    BY <1>7 DEF Deactivate, PatchListingsOff, FindSecurities, PatchSecuritiesOff, AfterOff
<1> QED BY <1>1, <1>2, <1>3, <1>4, <1>5, <1>6, <1>7, Steps DEF RunnerStep, AfterFetch

\* An event found to have a value for every outcome still has them when the runner resolves it.
LEMMA DoneStep ==
    ASSUME TypeOK, RegisteredLinked, RecordedFirst, DoneAreValued, Next
    PROVE  DoneAreValued'
<1> ControlTyped
    BY DEF TypeOK
<1>1. \A e : AllRegistered(e) /\ Valued(e) => Valued(e)'
    BY ValuedStays
<1> USE DEF DoneAreValued, ControlTyped, At, Goto, Pick, Proc
<1>2. CASE VenueChanges \/ ResolveCycle \/ \E e \in Event : TellStale(e)
    BY <1>1, <1>2 DEF VenueChanges, ResolveCycle, TellStale, control
<1>3. CASE WorkerStep
    BY <1>1, <1>3, WorkerFrame
<1>4. CASE FindResolved
    <2>1. ASSUME NEW e, EveryValue(e) PROVE Valued(e)
        BY <1>4, <2>1 DEF FindResolved, EveryValue, Valued, RecordedFirst
    <2>2. NextStage(stage["runner"]) # "events"
        BY DEF NextStage
    <2> QED BY <1>1, <1>4, <2>1, <2>2 DEF FindResolved, MoveOn
<1>5. CASE Fetch \/ SettleSweep \/ CheckClosures \/ RecentSettlements \/ RecordValues \/ FindClosed
           \/ PatchResolved \/ FindReopened \/ PatchListingsOn \/ PatchSecuritiesOn \/ FindUnresolve
           \/ PatchUnresolved \/ Deactivate("runner") \/ RunnerFails
    <2>1. pc'["runner"] # "events"
        BY <1>5 DEF Fetch, SettleSweep, CheckClosures, RecentSettlements, LookUp, NoLookUp, RecordValues,
            FindClosed, Retire, FindReopened, PatchResolved, NextStage, PatchListingsOn, PatchSecuritiesOn,
            FindUnresolve, PatchUnresolved, RunnerFails, Deactivate, PatchListingsOff, FindSecurities,
            PatchSecuritiesOff, AfterOff, MoveOn
    <2> QED BY <2>1
<1> QED BY <1>2, <1>3, <1>4, <1>5, Steps DEF RunnerStep, AfterFetch

\* Only the two resolving patches resolve an event, each one it was sure of when it read.
LEMMA OverStep ==
    ASSUME TypeOK, RegisteredLinked, GoneWereTold, DoneAreValued, RegisteredIsOver, Next
    PROVE  RegisteredIsOver'
<1> SUFFICES ASSUME NEW e \in Event, event'[e] = "resolved", AllRegistered(e)
             PROVE  e \in told' \/ Valued(e)'
    BY DEF RegisteredIsOver, AllRegistered, MarketsOf, EventOfMarket
<1> RegistryTyped /\ told \subseteq told'
    BY HistoryGrows DEF TypeOK
<1> USE DEF RegistryTyped
<1>1. Valued(e) => Valued(e)'
    BY ValuedStays
<1>2. CASE event[e] = "resolved"
    BY <1>1, <1>2 DEF RegisteredIsOver
<1>3. CASE event[e] # "resolved"
    <2>1. event' # event
        BY <1>3
    <2>2. CASE VenueChanges \/ Fetch \/ SettleSweep \/ ResolveCycle \/ \E d \in Event : TellStale(d)
        BY <2>1, <2>2 DEF VenueChanges, Fetch, SettleSweep, LookUp, ResolveCycle, TellStale, registryVars
    <2>3. CASE CheckClosures \/ RecentSettlements \/ FindClosed \/ RecordValues \/ FindResolved \/ FindReopened
               \/ PatchListingsOn \/ PatchSecuritiesOn \/ FindUnresolve \/ RunnerFails
        BY <2>1, <2>3 DEF CheckClosures, RecentSettlements, LookUp, NoLookUp, FindClosed, RecordValues,
            FindResolved, FindReopened, PatchListingsOn, PatchSecuritiesOn, FindUnresolve, RunnerFails, registryVars
    <2>4. CASE \E p \in Proc : Deactivate(p)
        BY <2>1, <2>4 DEF Deactivate, PatchListingsOff, FindSecurities, PatchSecuritiesOff, registryVars
    <2>5. CASE Receive \/ TakeClosed \/ TakeStale \/ FindGone \/ CreateSecurities \/ CreateListings
               \/ CreateEventContracts \/ Reconcile \/ Delete \/ WorkerFails
        BY <2>1, <2>5 DEF Receive, TakeClosed, TakeStale, FindGone, CreateSecurities, CreateListings,
            CreateEventContracts, Reconcile, Delete, WorkerFails, LetGo, registryVars
    <2>6. CASE PatchUnresolved \/ CreateEvents
        BY <1>3, <2>6 DEF PatchUnresolved, CreateEvents, Set
    <2>7. CASE PatchResolved
        BY <1>1, <1>3, <2>7 DEF PatchResolved, Set, At, DoneAreValued
    <2>8. CASE PatchGone
        BY <1>3, <2>8 DEF PatchGone, Set, At, GoneWereTold
    <2> QED BY <2>2, <2>3, <2>4, <2>5, <2>6, <2>7, <2>8 DEF Next, AfterFetch, ProcessBatch, Proc
<1> QED BY <1>2, <1>3

\* An event whose markets are all in the registry from the start is resolved only once it was told
\* stale or every outcome it has carries a settlement value: whatever the two processes read and
\* write in between, whichever of them dies between two calls, and whatever SQS delivers twice.
\* (A market that is new to the event may join it between the runner's read and its patch.)
THEOREM ResolvedEventIsOver == Spec => []RegisteredIsOver
<1>1. Init => ResolvedInv
    <2> SUFFICES ASSUME Init PROVE ResolvedInv
        OBVIOUS
    <2>1. RegisteredLinked
        BY DEF Init, RegisteredLinked
    <2>2. ToldInMessages /\ GoneWereTold /\ RecordedFirst /\ DoneAreValued /\ RegisteredIsOver
        BY DEF Init, ToldInMessages, GoneWereTold, RecordedFirst, DoneAreValued, RegisteredIsOver, Proc
    <2> QED BY <2>1, <2>2, InitTypeOK DEF ResolvedInv
<1>2. ResolvedInv /\ [Next]_vars => ResolvedInv'
    <2> SUFFICES ASSUME ResolvedInv, [Next]_vars PROVE ResolvedInv'
        OBVIOUS
    <2>1. CASE Next
        <3>1. RegisteredLinked'
            BY <2>1, LinkedGrows DEF ResolvedInv, RegisteredLinked
        <3> QED BY <2>1, <3>1, NextTypeOK, ToldStep, GoneStep, RecordedStep, DoneStep, OverStep DEF ResolvedInv
    <2>2. CASE UNCHANGED vars
        <3>1. ToldInMessages' /\ GoneWereTold' /\ RecordedFirst' /\ DoneAreValued' /\ RegisteredIsOver'
            BY <2>2 DEF ResolvedInv, vars, ToldInMessages, GoneWereTold, RecordedFirst, DoneAreValued, Valued,
                RegisteredIsOver, AllRegistered, MarketsOf, EventOfMarket, registryVars, runnerVars, workerVars, control
        <3> QED BY <2>2, <3>1, NextTypeOK DEF ResolvedInv, RegisteredLinked, vars, registryVars
    <2> QED BY <2>1, <2>2
<1>3. ResolvedInv => RegisteredIsOver
    BY DEF ResolvedInv
<1> QED BY <1>1, <1>2, <1>3, PTL DEF Spec

\* With every market registered, that is every event.
THEOREM ResolvedOnlyWhenOver ==
    ASSUME Registered = Market
    PROVE  Spec => []ResolvedIsOver
<1>1. RegisteredIsOver => ResolvedIsOver
    BY DEF RegisteredIsOver, AllRegistered, MarketsOf, Valued, ResolvedIsOver
<1> QED BY <1>1, ResolvedEventIsOver, PTL

-----------------------------------------------------------------------------
(* Why a security follows its listings: no listing comes back on.          *)

ListingsOf(s) == {m \in Market : SecurityOf[m] = s}
AllOf(s, value) == \A m \in ListingsOf(s) : listing[m] = value

RegisteredListed == \A m \in Registered : listing[m] # "none"
LinkedListed ==
    \A s \in linked : ListingsOf(s) # {} /\ \A m \in ListingsOf(s) : listing[m] # "none"

\* A security that is off has nothing on, and one that is about to be turned off.
OffWithListings ==
    /\ \A s \in Security : security[s] = "inactive" => AllOf(s, "inactive")
    /\ \A s \in Security : security[s] = "none" => AllOf(s, "none")
    /\ \A p \in Proc : pc[p] = "listings" => \A m \in picked[p] : listing[m] # "none"
    /\ \A p \in Proc : pc[p] = "securities" => \A m \in picked[p] : listing[m] = "inactive"
    /\ \A p \in Proc : pc[p] = "off" => \A s \in picked[p] : AllOf(s, "inactive")

\* The worker makes no listing before its security, and no event contract before its listing.
MadeInOrder ==
    /\ pc["worker"] = "createListings" =>
           \A m \in NewIn : listing[m] = "none" => security[SecurityOf[m]] = "active"
    /\ pc["worker"] = "link" => \A m \in NewIn : listing[m] # "none"

\* Someone is about to turn s off, if it is to be.
InHand(s) ==
    \E p \in Proc : \/ pc[p] = "securities" /\ \E m \in picked[p] : SecurityOf[m] = s
                    \/ pc[p] = "off" /\ s \in picked[p]

OnOrInHand ==
    \A s \in Security : security[s] = "active" => StillListed({s}) # {} \/ InHand(s) \/ AllOf(s, "none")

\* Reactivation is off.
NeverOn == pc["runner"] \notin RunnerTurnsOn

FollowsInv ==
    /\ TypeOK /\ NeverOn
    /\ RegisteredListed /\ LinkedListed /\ OffWithListings /\ MadeInOrder /\ OnOrInHand

\* Where no listing comes back on, one is made, by the worker, or turned off.
LEMMA ListingMoves ==
    ASSUME TypeOK, NeverOn, Next, NEW m \in Market
    PROVE  \/ listing'[m] = listing[m]
           \/ CreateListings /\ m \in NewIn /\ listing[m] = "none" /\ listing'[m] = "active"
           \/ /\ listing'[m] = "inactive"
              /\ \E p \in Proc : PatchListingsOff(p) /\ m \in picked[p]
<1> RegistryTyped
    BY DEF TypeOK
<1> USE DEF RegistryTyped
<1>1. CASE UNCHANGED listing
    BY <1>1
<1>2. CASE VenueChanges \/ Fetch \/ SettleSweep \/ ResolveCycle \/ \E e \in Event : TellStale(e)
    BY <1>1, <1>2 DEF VenueChanges, Fetch, SettleSweep, LookUp, ResolveCycle, TellStale, registryVars
<1>3. CASE CheckClosures \/ RecentSettlements \/ FindClosed \/ RecordValues \/ FindResolved \/ PatchResolved
           \/ FindReopened \/ PatchSecuritiesOn \/ FindUnresolve \/ PatchUnresolved \/ RunnerFails
    BY <1>1, <1>3 DEF CheckClosures, RecentSettlements, LookUp, NoLookUp, FindClosed, RecordValues, FindResolved,
        PatchResolved, FindReopened, PatchSecuritiesOn, FindUnresolve, PatchUnresolved, RunnerFails, registryVars
<1>4. CASE \E p \in Proc : FindSecurities(p) \/ PatchSecuritiesOff(p)
    BY <1>1, <1>4 DEF FindSecurities, PatchSecuritiesOff, registryVars
<1>5. CASE Receive \/ TakeClosed \/ TakeStale \/ FindGone \/ PatchGone \/ CreateEvents \/ CreateSecurities
           \/ CreateEventContracts \/ Reconcile \/ Delete \/ WorkerFails
    BY <1>1, <1>5 DEF Receive, TakeClosed, TakeStale, FindGone, PatchGone, CreateEvents, CreateSecurities,
        CreateEventContracts, Reconcile, Delete, WorkerFails, LetGo, registryVars
<1>6. ~PatchListingsOn
    BY DEF PatchListingsOn, NeverOn, At, RunnerTurnsOn
<1>7. ASSUME NEW p \in Proc, PatchListingsOff(p)
      PROVE  listing'[m] = IF m \in picked[p] THEN "inactive" ELSE listing[m]
    BY <1>7 DEF PatchListingsOff, Set
<1>8. CASE CreateListings
    BY <1>8 DEF CreateListings, Set
<1> QED BY <1>2, <1>3, <1>4, <1>5, <1>6, <1>7, <1>8 DEF Next, AfterFetch, ProcessBatch, Deactivate, Proc

\* A security is made with its first listing, or turned off.
LEMMA SecurityMoves ==
    ASSUME TypeOK, NeverOn, Next, NEW s \in Security
    PROVE  \/ security'[s] = security[s]
           \/ CreateSecurities /\ security[s] = "none" /\ security'[s] = "active"
           \/ /\ security'[s] = "inactive"
              /\ \E p \in Proc : PatchSecuritiesOff(p) /\ s \in picked[p]
<1> RegistryTyped
    BY DEF TypeOK
<1> USE DEF RegistryTyped
<1>1. CASE UNCHANGED security
    BY <1>1
<1>2. CASE VenueChanges \/ Fetch \/ SettleSweep \/ ResolveCycle \/ \E e \in Event : TellStale(e)
    BY <1>1, <1>2 DEF VenueChanges, Fetch, SettleSweep, LookUp, ResolveCycle, TellStale, registryVars
<1>3. CASE CheckClosures \/ RecentSettlements \/ FindClosed \/ RecordValues \/ FindResolved \/ PatchResolved
           \/ FindReopened \/ PatchListingsOn \/ FindUnresolve \/ PatchUnresolved \/ RunnerFails
    BY <1>1, <1>3 DEF CheckClosures, RecentSettlements, LookUp, NoLookUp, FindClosed, RecordValues, FindResolved,
        PatchResolved, FindReopened, PatchListingsOn, FindUnresolve, PatchUnresolved, RunnerFails, registryVars
<1>4. CASE \E p \in Proc : FindSecurities(p) \/ PatchListingsOff(p)
    BY <1>1, <1>4 DEF FindSecurities, PatchListingsOff, registryVars
<1>5. CASE Receive \/ TakeClosed \/ TakeStale \/ FindGone \/ PatchGone \/ CreateEvents \/ CreateListings
           \/ CreateEventContracts \/ Reconcile \/ Delete \/ WorkerFails
    BY <1>1, <1>5 DEF Receive, TakeClosed, TakeStale, FindGone, PatchGone, CreateEvents, CreateListings,
        CreateEventContracts, Reconcile, Delete, WorkerFails, LetGo, registryVars
<1>6. ~PatchSecuritiesOn
    BY DEF PatchSecuritiesOn, NeverOn, At, RunnerTurnsOn
<1>7. ASSUME NEW p \in Proc, PatchSecuritiesOff(p)
      PROVE  security'[s] = IF s \in picked[p] THEN "inactive" ELSE security[s]
    BY <1>7 DEF PatchSecuritiesOff, Set
<1>8. CASE CreateSecurities
    BY <1>8 DEF CreateSecurities, Set
<1> QED BY <1>2, <1>3, <1>4, <1>5, <1>6, <1>7, <1>8 DEF Next, AfterFetch, ProcessBatch, Deactivate, Proc

\* How a process comes to have listings or securities in hand to turn off.
Turning(p) ==
    /\ pc'[p] = "listings" => \/ pc[p] = "listings" /\ picked'[p] = picked[p]
                              \/ picked'[p] \subseteq Active /\ UNCHANGED listing
    /\ pc'[p] = "securities" => (pc[p] = "securities" /\ picked'[p] = picked[p]) \/ PatchListingsOff(p)
    /\ pc'[p] = "off" => (pc[p] = "off" /\ picked'[p] = picked[p]) \/ FindSecurities(p)

\* And that it does turn them off, unless it dies.
Finishing(p) ==
    /\ pc[p] = "securities" => (pc'[p] = pc[p] /\ picked'[p] = picked[p]) \/ FindSecurities(p)
    /\ pc[p] = "off" => (pc'[p] = pc[p] /\ picked'[p] = picked[p]) \/ PatchSecuritiesOff(p)

\* The runner takes in hand active listings, then what it turned off, then their securities.
LEMMA RunnerTurns ==
    ASSUME TypeOK, RunnerStep
    PROVE  Turning("runner") /\ ("crash" \notin Faults => Finishing("runner"))
<1> ControlTyped
    BY DEF TypeOK
<1> USE DEF ControlTyped, At, Goto, Pick, Proc, Turning, Finishing
<1>1. CASE ResolveCycle \/ \E e \in Event : TellStale(e)
    BY <1>1 DEF ResolveCycle, TellStale, control
<1>2. CASE Fetch \/ RecordValues \/ PatchListingsOn \/ PatchSecuritiesOn \/ FindUnresolve
    BY <1>2 DEF Fetch, RecordValues, PatchListingsOn, PatchSecuritiesOn, FindUnresolve
<1>3. CASE SettleSweep \/ CheckClosures \/ RecentSettlements
    BY <1>3 DEF SettleSweep, CheckClosures, RecentSettlements, LookUp, NoLookUp, MoveOn
<1>4. CASE FindClosed
    BY <1>4 DEF FindClosed, Retire, registryVars
<1>5. CASE FindResolved \/ PatchResolved \/ FindReopened \/ PatchUnresolved
    BY <1>5 DEF FindResolved, PatchResolved, FindReopened, PatchUnresolved, MoveOn, NextStage
<1>6. CASE PatchListingsOff("runner") \/ FindSecurities("runner")
    BY <1>6 DEF PatchListingsOff, FindSecurities
<1>7. CASE PatchSecuritiesOff("runner")
    BY <1>7 DEF PatchSecuritiesOff, AfterOff
<1>8. CASE RunnerFails
    BY <1>8 DEF RunnerFails, Fault, MoveOn, NextStage
<1> QED BY <1>1, <1>2, <1>3, <1>4, <1>5, <1>6, <1>7, <1>8 DEF RunnerStep, AfterFetch, Deactivate

\* So does the worker, whether it closes, retires the gone or reconciles.
LEMMA WorkerTurns ==
    ASSUME TypeOK, WorkerStep
    PROVE  Turning("worker") /\ ("crash" \notin Faults => Finishing("worker"))
<1> ControlTyped
    BY DEF TypeOK
<1> USE DEF ControlTyped, At, Goto, Pick, Proc, Turning, Finishing
<1>1. CASE TakeClosed \/ TakeStale \/ Reconcile
    BY <1>1 DEF TakeClosed, TakeStale, Reconcile, Retire, registryVars
<1>2. CASE Receive \/ FindGone \/ PatchGone \/ CreateEvents \/ CreateSecurities \/ CreateListings
           \/ CreateEventContracts \/ Delete
    BY <1>2 DEF Receive, FindGone, PatchGone, CreateEvents, CreateSecurities, CreateListings,
                CreateEventContracts, Delete, LetGo
<1>3. CASE PatchListingsOff("worker") \/ FindSecurities("worker")
    BY <1>3 DEF PatchListingsOff, FindSecurities
<1>4. CASE PatchSecuritiesOff("worker")
    BY <1>4 DEF PatchSecuritiesOff, AfterOff
<1>5. CASE WorkerFails
    BY <1>5 DEF WorkerFails, Fault, LetGo
<1> QED BY <1>1, <1>2, <1>3, <1>4, <1>5 DEF WorkerStep, ProcessBatch, Deactivate

\* So does each of the two, whatever the other or the venue does meanwhile.
LEMMA Turns ==
    ASSUME TypeOK, Next, NEW p \in Proc
    PROVE  Turning(p) /\ ("crash" \notin Faults => Finishing(p))
<1>1. CASE VenueChanges
    BY <1>1 DEF VenueChanges, control, Turning, Finishing
<1>2. CASE RunnerStep
    <2>1. CASE p = "worker"
        BY <1>2, <2>1, RunnerFrame DEF TypeOK, Turning, Finishing
    <2> QED BY <1>2, <2>1, RunnerTurns DEF Proc
<1>3. CASE WorkerStep
    <2>1. CASE p = "runner"
        BY <1>3, <2>1, WorkerFrame DEF TypeOK, Turning, Finishing
    <2> QED BY <1>3, <2>1, WorkerTurns DEF Proc
<1> QED BY <1>1, <1>2, <1>3, Steps

\* The worker makes listings after their securities, and event contracts after those, of one batch.
LEMMA WorkerMakes ==
    ASSUME TypeOK, Next
    PROVE  /\ pc'["worker"] = "createListings" =>
                  UNCHANGED batch /\ (pc["worker"] = "createListings" \/ CreateSecurities)
           /\ pc'["worker"] = "link" => UNCHANGED batch /\ (pc["worker"] = "link" \/ CreateListings)
           /\ linked' = linked \/ CreateEventContracts
<1> ControlTyped
    BY DEF TypeOK
<1> USE DEF ControlTyped, At, Goto, Pick, Proc, workerVars, registryVars
<1>1. CASE VenueChanges
    BY <1>1 DEF VenueChanges, control
<1>2. CASE RunnerStep
    BY <1>2, RunnerFrame
<1>3. CASE TakeClosed \/ TakeStale \/ Reconcile \/ Deactivate("worker")
    BY <1>3 DEF TakeClosed, TakeStale, Reconcile, Retire, Deactivate, PatchListingsOff, FindSecurities,
                PatchSecuritiesOff, AfterOff
<1>4. CASE Receive \/ FindGone \/ PatchGone \/ CreateEvents \/ CreateSecurities \/ CreateListings
           \/ CreateEventContracts \/ Delete \/ WorkerFails
    BY <1>4 DEF Receive, FindGone, PatchGone, CreateEvents, CreateSecurities, CreateListings,
                CreateEventContracts, Delete, WorkerFails, LetGo
<1> QED BY <1>1, <1>2, <1>3, <1>4, Steps DEF WorkerStep, ProcessBatch

\* The runner goes to turn listings on only when reactivation is enabled.
LEMMA NeverOnStep == ~Reactivation /\ TypeOK /\ NeverOn /\ Next => NeverOn'
<1> SUFFICES ASSUME ~Reactivation, TypeOK, NeverOn, Next PROVE NeverOn'
    OBVIOUS
<1> ControlTyped
    BY DEF TypeOK
<1> USE DEF NeverOn, RunnerTurnsOn, ControlTyped, At, Goto, Pick, Proc
<1>1. CASE VenueChanges \/ ResolveCycle \/ \E e \in Event : TellStale(e)
    BY <1>1 DEF VenueChanges, ResolveCycle, TellStale, control
<1>2. CASE WorkerStep
    BY <1>2, WorkerFrame
<1>3. CASE Fetch \/ SettleSweep \/ CheckClosures \/ RecentSettlements
    BY <1>3 DEF Fetch, SettleSweep, CheckClosures, RecentSettlements, LookUp, NoLookUp, MoveOn
<1>4. CASE RecordValues \/ FindClosed \/ FindResolved \/ PatchResolved \/ FindReopened \/ RunnerFails
    BY <1>4 DEF RecordValues, FindClosed, Retire, FindResolved, PatchResolved, FindReopened, RunnerFails,
                MoveOn, NextStage
<1>5. CASE PatchListingsOn \/ PatchSecuritiesOn \/ FindUnresolve \/ PatchUnresolved
    BY <1>5 DEF PatchListingsOn, PatchSecuritiesOn, FindUnresolve, PatchUnresolved
<1>6. CASE Deactivate("runner")
    BY <1>6 DEF Deactivate, PatchListingsOff, FindSecurities, PatchSecuritiesOff, AfterOff
<1> QED BY <1>1, <1>2, <1>3, <1>4, <1>5, <1>6, Steps DEF RunnerStep, AfterFetch

\* A listing once made is never unmade, and one that is off stays off.
LEMMA ListingStays ==
    ASSUME TypeOK, NeverOn, Next, NEW m \in Market
    PROVE  /\ listing[m] # "none" => listing'[m] # "none"
           /\ listing[m] = "inactive" => listing'[m] = "inactive"
           /\ listing[m] = "none" /\ listing'[m] # "none" =>
                  \/ CreateListings /\ m \in NewIn
                  \/ \E p \in Proc : PatchListingsOff(p) /\ m \in picked[p]
BY ListingMoves

\* A security all of whose listings are off stays so where no listing comes back on.
LEMMA AllOffStays ==
    ASSUME TypeOK, NeverOn, Next, NEW s, AllOf(s, "inactive")
    PROVE  AllOf(s, "inactive")'
BY ListingStays DEF AllOf, ListingsOf

\* Two listings share a security only if both are registered.
LEMMA SharedAreRegistered ==
    ASSUME NEW m \in Market, NEW n \in Market, SecurityOf[m] = SecurityOf[n]
    PROVE  m = n \/ m \in Registered
BY ConstantsAssumption

\* The securities of registered markets, and those with event contracts, have their listings.
LEMMA ListedStep ==
    TypeOK /\ NeverOn /\ RegisteredListed /\ LinkedListed /\ MadeInOrder /\ Next
        => RegisteredListed' /\ LinkedListed'
<1> SUFFICES ASSUME TypeOK, NeverOn, RegisteredListed, LinkedListed, MadeInOrder, Next
             PROVE  RegisteredListed' /\ LinkedListed'
    OBVIOUS
<1>1. RegisteredListed'
    BY ListingStays, ConstantsAssumption DEF RegisteredListed
<1>2. ASSUME NEW s \in linked', NEW m \in Market, SecurityOf[m] = s
      PROVE  listing'[m] # "none"
    <2>1. CASE s \in linked
        BY <1>2, <2>1, ListingStays DEF LinkedListed, ListingsOf
    <2>2. CASE s \notin linked
        <3>1. CreateEventContracts
            BY <1>2, <2>2, WorkerMakes
        <3>2. PICK n \in NewIn : s = SecurityOf[n]
            BY <1>2, <2>2, <3>1 DEF CreateEventContracts
        <3>3. n \in Market /\ listing[n] # "none"
            BY <3>1, BatchType DEF CreateEventContracts, At, MadeInOrder, TypeOK
        <3>4. listing[m] # "none"
            BY <1>2, <3>2, <3>3, SharedAreRegistered DEF RegisteredListed
        <3> QED BY <3>4, ListingStays
    <2> QED BY <2>1, <2>2
<1>3. ASSUME NEW s \in linked' PROVE ListingsOf(s) # {}
    BY <1>3, WorkerMakes, BatchType DEF LinkedListed, ListingsOf, CreateEventContracts, TypeOK
<1> QED BY <1>1, <1>2, <1>3 DEF LinkedListed, ListingsOf

\* A security is off only with all its listings, and only such ones are picked to go off.
LEMMA OffStep ==
    TypeOK /\ NeverOn /\ RegisteredListed /\ OffWithListings /\ MadeInOrder /\ Next => OffWithListings'
<1> SUFFICES ASSUME TypeOK, NeverOn, RegisteredListed, OffWithListings, MadeInOrder, Next
             PROVE  OffWithListings'
    OBVIOUS
<1> ControlTyped /\ RegistryTyped
    BY DEF TypeOK
<1>1. ASSUME NEW p \in Proc, pc[p] = "off" PROVE \A s \in picked[p] : AllOf(s, "inactive")
    BY <1>1 DEF OffWithListings
<1>2. ASSUME NEW s \in Security, security'[s] = "inactive" PROVE AllOf(s, "inactive")'
    <2>1. AllOf(s, "inactive")
        <3>1. CASE security[s] = "inactive"
            BY <3>1 DEF OffWithListings
        <3>2. CASE \E p \in Proc : PatchSecuritiesOff(p) /\ s \in picked[p]
            BY <1>1, <3>2 DEF PatchSecuritiesOff, At
        <3> QED BY <1>2, <3>1, <3>2, SecurityMoves
    <2> QED BY <2>1, AllOffStays
<1>3. ASSUME NEW s \in Security, security'[s] = "none" PROVE AllOf(s, "none")'
    <2>1. security[s] = "none" /\ AllOf(s, "none")
        BY <1>3, SecurityMoves DEF OffWithListings
    <2>2. ASSUME NEW m \in Market, SecurityOf[m] = s, listing'[m] # "none" PROVE FALSE
        <3>1. listing[m] = "none"
            BY <2>1, <2>2 DEF AllOf, ListingsOf
        <3>2. CASE CreateListings /\ m \in NewIn
            BY <2>1, <2>2, <3>1, <3>2 DEF CreateListings, At, MadeInOrder
        <3>3. ASSUME NEW p \in Proc, PatchListingsOff(p), m \in picked[p] PROVE FALSE
            BY <3>1, <3>3 DEF PatchListingsOff, At, OffWithListings
        <3> QED BY <2>2, <3>1, <3>2, <3>3, ListingStays
    <2> QED BY <2>2 DEF AllOf, ListingsOf
<1>4. ASSUME NEW p \in Proc, pc'[p] = "listings", NEW m \in picked'[p] PROVE listing'[m] # "none"
    <2>1. CASE pc[p] = "listings" /\ picked'[p] = picked[p]
        <3>1. m \in Market /\ listing[m] # "none"
            BY <1>4, <2>1 DEF OffWithListings, ControlTyped, Markets
        <3> QED BY <3>1, ListingStays
    <2>2. CASE picked'[p] \subseteq Active /\ UNCHANGED listing
        BY <1>4, <2>2 DEF Active
    <2> QED BY <1>4, <2>1, <2>2, Turns DEF Turning
<1>5. ASSUME NEW p \in Proc, pc'[p] = "securities", NEW m \in picked'[p] PROVE listing'[m] = "inactive"
    <2>1. CASE pc[p] = "securities" /\ picked'[p] = picked[p]
        <3>1. m \in Market /\ listing[m] = "inactive"
            BY <1>5, <2>1 DEF OffWithListings, ControlTyped, Markets
        <3> QED BY <3>1, ListingStays
    <2>2. CASE PatchListingsOff(p)
        BY <1>5, <2>2 DEF PatchListingsOff, At, Set, ControlTyped, RegistryTyped, Markets
    <2> QED BY <1>5, <2>1, <2>2, Turns DEF Turning
<1>6. ASSUME NEW p \in Proc, pc'[p] = "off", NEW s \in picked'[p] PROVE AllOf(s, "inactive")'
    <2>1. CASE pc[p] = "off" /\ picked'[p] = picked[p]
        BY <1>1, <1>6, <2>1, AllOffStays
    <2>2. CASE FindSecurities(p)
        <3>1. s \in LeftWithNone(p) /\ pc[p] = "securities"
            BY <1>6, <2>2 DEF FindSecurities, Pick, At, ControlTyped
        <3>2. PICK n \in picked[p] : s = SecurityOf[n]
            BY <3>1 DEF LeftWithNone
        <3>3. n \in Market /\ listing[n] = "inactive"
            BY <3>1 DEF OffWithListings, ControlTyped, Markets
        <3>4. ASSUME NEW m \in Market, SecurityOf[m] = s PROVE listing[m] = "inactive"
            <4>1. listing[m] # "active"
                BY <3>1, <3>4 DEF LeftWithNone, StillListed, Active
            <4>2. listing[m] # "none"
                BY <3>2, <3>3, <3>4, SharedAreRegistered DEF RegisteredListed
            <4> QED BY <4>1, <4>2 DEF RegistryTyped, OnOff
        <3> QED BY <3>4, AllOffStays DEF AllOf, ListingsOf
    <2> QED BY <1>6, <2>1, <2>2, Turns DEF Turning
<1> QED BY <1>2, <1>3, <1>4, <1>5, <1>6 DEF OffWithListings

\* Each of the requests that make rows finds what the ones before it made.
LEMMA MadeStep == TypeOK /\ NeverOn /\ OffWithListings /\ MadeInOrder /\ Next => MadeInOrder'
<1> SUFFICES ASSUME TypeOK, NeverOn, OffWithListings, MadeInOrder, Next PROVE MadeInOrder'
    OBVIOUS
<1> ControlTyped /\ RegistryTyped
    BY DEF TypeOK
<1>1. NewIn \subseteq Market /\ (UNCHANGED batch => NewIn' = NewIn)
    BY BatchType DEF TypeOK, NewIn, News
<1>2. ASSUME pc'["worker"] = "createListings", NEW m \in NewIn', listing'[m] = "none"
      PROVE  security'[SecurityOf[m]] = "active"
    <2> DEFINE s == SecurityOf[m]
    <2>1. m \in NewIn /\ m \in Market /\ s \in Security
        BY <1>1, <1>2, WorkerMakes, ConstantsAssumption
    <2>2. listing[m] = "none"
        BY <1>2, <2>1, ListingStays
    <2>3. security[s] # "inactive"
        BY <2>1, <2>2 DEF OffWithListings, AllOf, ListingsOf
    <2>4. CASE pc["worker"] = "createListings"
        <3>1. security[s] = "active"
            BY <2>1, <2>2, <2>4 DEF MadeInOrder
        <3>2. ASSUME NEW p \in Proc, PatchSecuritiesOff(p) PROVE s \notin picked[p]
            BY <2>1, <2>2, <3>2 DEF PatchSecuritiesOff, At, OffWithListings, AllOf, ListingsOf
        <3> QED BY <2>1, <3>1, <3>2, SecurityMoves
    <2>5. CASE CreateSecurities
        BY <2>1, <2>2, <2>3, <2>5 DEF CreateSecurities, Set, RegistryTyped, OnOff
    <2> QED BY <1>2, <2>4, <2>5, WorkerMakes
<1>3. ASSUME pc'["worker"] = "link", NEW m \in NewIn' PROVE listing'[m] # "none"
    <2>1. m \in NewIn /\ m \in Market
        BY <1>1, <1>3, WorkerMakes
    <2>2. CASE pc["worker"] = "link"
        BY <2>1, <2>2, ListingStays DEF MadeInOrder
    <2>3. CASE CreateListings
        BY <2>1, <2>3 DEF CreateListings, Set, RegistryTyped
    <2> QED BY <1>3, <2>2, <2>3, WorkerMakes
<1> QED BY <1>2, <1>3 DEF MadeInOrder

\* When the last listing of a security goes off, whoever turned it off goes on to the security.
LEMMA OnStepInHand ==
    ASSUME "crash" \notin Faults, TypeOK, NeverOn, OffWithListings, OnOrInHand, Next
    PROVE  OnOrInHand'
<1> SUFFICES ASSUME NEW s \in Security, security'[s] = "active"
             PROVE  (StillListed({s}) # {} \/ InHand(s) \/ AllOf(s, "none"))'
    BY DEF OnOrInHand
<1> ControlTyped /\ RegistryTyped
    BY DEF TypeOK
<1> DEFINE On == \E m \in Market : SecurityOf[m] = s /\ listing[m] = "active"
<1>1. (StillListed({s}) # {} <=> On) /\ (StillListed({s}) # {} <=> On)'
    BY DEF StillListed, Active
<1>2. CASE On
    <2>1. PICK m \in Market : SecurityOf[m] = s /\ listing[m] = "active"
        BY <1>2
    <2>2. CASE listing'[m] = "active"
        BY <1>1, <2>1, <2>2
    <2>3. ASSUME NEW p \in Proc, PatchListingsOff(p), m \in picked[p] PROVE InHand(s)'
        BY <2>1, <2>3 DEF PatchListingsOff, Goto, InHand, ControlTyped
    <2> QED BY <2>1, <2>2, <2>3, ListingMoves
<1>3. ASSUME NEW p \in Proc, pc[p] = "securities", NEW m \in picked[p], SecurityOf[m] = s
      PROVE  On' \/ InHand(s)'
    <2>1. CASE pc'[p] = pc[p] /\ picked'[p] = picked[p]
        BY <1>3, <2>1 DEF InHand
    <2>2. CASE FindSecurities(p)
        <3>1. UNCHANGED listing /\ pc'[p] = "off" /\ picked'[p] = LeftWithNone(p)
            BY <2>2 DEF FindSecurities, Goto, Pick, ControlTyped, registryVars
        <3>2. CASE s \in LeftWithNone(p)
            BY <3>1, <3>2 DEF InHand
        <3>3. CASE s \notin LeftWithNone(p)
            BY <1>3, <3>1, <3>3 DEF LeftWithNone, StillListed, Active
        <3> QED BY <3>2, <3>3
    <2> QED BY <1>3, <2>1, <2>2, Turns DEF Finishing
<1>4. ASSUME NEW p \in Proc, pc[p] = "off", s \in picked[p]
      PROVE  InHand(s)'
    <2>1. ~PatchSecuritiesOff(p)
        BY <1>4 DEF PatchSecuritiesOff, Set, RegistryTyped
    <2>2. pc'[p] = "off" /\ s \in picked'[p]
        BY <1>4, <2>1, Turns DEF Finishing
    <2> QED BY <2>2 DEF InHand
<1>5. CASE InHand(s)
    BY <1>1, <1>3, <1>4, <1>5 DEF InHand
<1>6. CASE AllOf(s, "none")
    <2>1. ASSUME NEW m \in Market, SecurityOf[m] = s, listing'[m] # "none" PROVE On'
        <3>1. listing[m] = "none"
            BY <1>6, <2>1 DEF AllOf, ListingsOf
        <3>2. ASSUME NEW p \in Proc, PatchListingsOff(p), m \in picked[p] PROVE FALSE
            BY <3>1, <3>2 DEF PatchListingsOff, At, OffWithListings
        <3> QED BY <2>1, <3>1, <3>2, ListingMoves
    <2> QED BY <1>1, <2>1 DEF AllOf, ListingsOf
<1>7. security[s] # "active" => AllOf(s, "none")
    <2>1. security[s] # "active" => security[s] = "none"
        BY SecurityMoves
    <2> QED BY <2>1 DEF OffWithListings
<1> QED BY <1>1, <1>2, <1>5, <1>6, <1>7 DEF OnOrInHand

\* At the start every security has its listings, all of them on.
LEMMA InitFollows == Init => FollowsInv
<1> SUFFICES ASSUME Init PROVE FollowsInv
    OBVIOUS
<1>1. NeverOn /\ MadeInOrder
    BY DEF Init, NeverOn, RunnerTurnsOn, MadeInOrder, Proc
<1>2. ASSUME NEW m \in Market, SecurityOf[m] \in linked PROVE m \in Registered
    BY <1>2, SharedAreRegistered, ConstantsAssumption DEF Init
<1>3. RegisteredListed /\ LinkedListed
    BY <1>2, ConstantsAssumption DEF Init, RegisteredListed, LinkedListed, ListingsOf
<1>4. \A s \in Security : security[s] \in {"active", "none"} /\ (security[s] = "none" => AllOf(s, "none"))
    BY ConstantsAssumption DEF Init, AllOf, ListingsOf
<1>5. OffWithListings
    BY <1>4 DEF Init, OffWithListings, Proc
<1>6. OnOrInHand
    BY ConstantsAssumption DEF Init, OnOrInHand, StillListed, Active
<1> QED BY <1>1, <1>3, <1>5, <1>6, InitTypeOK DEF FollowsInv

\* While reactivation is off and no call is cut short, a security that has an event is on exactly
\* when it has an active listing, whenever nothing is under way: the runner and the worker turn
\* off listings of one security at the same time, and between them the security goes off with the
\* last of them, and not before.
THEOREM SecuritiesFollow ==
    ASSUME ~Reactivation, "crash" \notin Faults
    PROVE  Spec => []SecurityFollowsListings
<1>1. FollowsInv /\ [Next]_vars => FollowsInv'
    <2> SUFFICES ASSUME FollowsInv, [Next]_vars PROVE FollowsInv'
        OBVIOUS
    <2>1. CASE Next
        BY <2>1, NextTypeOK, NeverOnStep, ListedStep, OffStep, MadeStep, OnStepInHand DEF FollowsInv
    <2>2. CASE UNCHANGED vars
        BY <2>2, NextTypeOK DEF FollowsInv, vars, registryVars, control, workerVars, NeverOn, RegisteredListed,
            LinkedListed, OffWithListings, MadeInOrder, NewIn, News, OnOrInHand, InHand, StillListed, Active,
            AllOf, ListingsOf
    <2> QED BY <2>1, <2>2
<1>2. FollowsInv => SecurityFollowsListings
    <2> SUFFICES ASSUME FollowsInv, Quiet, NEW s \in linked
                 PROVE  security[s] = "active" <=> StillListed({s}) # {}
        BY DEF SecurityFollowsListings
    <2> RegistryTyped /\ ControlTyped
        BY DEF FollowsInv, TypeOK
    <2>1. s \in Security /\ ~InHand(s)
        BY DEF RegistryTyped, Quiet, InHand, At
    <2>2. \E m \in Market : SecurityOf[m] = s
        BY DEF FollowsInv, LinkedListed, ListingsOf
    <2>3. ~AllOf(s, "none")
        BY <2>2 DEF FollowsInv, LinkedListed, AllOf, ListingsOf
    <2>4. StillListed({s}) # {} => security[s] = "active"
        BY <2>1 DEF StillListed, Active, FollowsInv, OffWithListings, AllOf, ListingsOf, RegistryTyped, OnOff
    <2> QED BY <2>1, <2>3, <2>4 DEF FollowsInv, OnOrInHand
<1> QED BY <1>1, <1>2, InitFollows, PTL DEF Spec

=============================================================================
