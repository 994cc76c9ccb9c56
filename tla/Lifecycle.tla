------------------------------ MODULE Lifecycle ------------------------------
(***************************************************************************)
(* Listings, securities and events of one exchange in the registry, and    *)
(* the two processes that turn them on and off: FetchRunner (closure       *)
(* check, recent settlements, reactivation, settle sweep, resolve and      *)
(* stale cycles) and NormalizeWorker (closed, stale and new messages off   *)
(* the contracts queue).                                                   *)
(*                                                                         *)
(* Every read of the database and every write through the registry is a    *)
(* step of its own, so the two processes interleave as they do in          *)
(* production, each on what it read before.  A process is at the label     *)
(* pc[p] with the ids it last read in picked[p].  The registry, the venue  *)
(* and SQS are external: a write is one registry call, and SQS delivers at *)
(* least once and in any order.                                            *)
(***************************************************************************)
EXTENDS Naturals, FiniteSets

CONSTANTS
    Market,        \* exchange_security_ids: a contract and its listing
    Security,
    Event,
    SecurityOf,    \* [Market -> Security]: the security a listing is of
    EventOf,       \* [Security -> Event]: the event its event contract is in
    Registered,    \* markets in the registry from the start
    Reactivation,  \* the flag reactivation_enabled
    SettleActive,  \* the adapter's settle_active_listings
    MaxLookups,    \* closure_check_max_lookups
    MaxBatch,      \* normalize_max_messages
    Faults,        \* "crash", "venue", "missed", "wrong", "forgot", "redeliver"
    MaxFaults,     \* bound: faults in a behaviour
    MaxChanges     \* bound: changes on the venue in a behaviour

ASSUME ConstantsAssumption ==
    /\ SecurityOf \in [Market -> Security]
    /\ EventOf \in [Security -> Event]
    /\ Registered \subseteq Market
    /\ Reactivation \in BOOLEAN /\ SettleActive \in BOOLEAN
    /\ MaxLookups \in Nat /\ MaxBatch \in Nat
    /\ MaxFaults \in Nat /\ MaxChanges \in Nat
    \* Only securities from before identity was one per listing have several listings.
    /\ \A m, n \in Market : m # n /\ SecurityOf[m] = SecurityOf[n] => m \in Registered

VARIABLES
    status,     \* the venue: "open", "closed" without a value yet, "settled" or "gone"
    altered,    \* the venue: events with a contract changed since a fetch let them through
    quiet,      \* the venue: events under their volume threshold, and not let in with their game
    known,      \* the keys of the last fetch (fetch:known_contracts)
    listed,     \* the events of the last fetch, quiet or not (_active_events)
    tracked,    \* the events of the stale tracker
    sentClosed, \* fetch:sent_resolved
    queue,      \* messages on the contracts queue
    listing,    \* each market's listing: "none", "active" or "inactive"
    security,   \* each security, likewise
    linked,     \* securities with an event contract
    settled,    \* securities whose event contract has a settlement price
    event,      \* each event: "none", "unresolved" or "resolved"
    pc, stage,  \* where each process is, and for which caller
    picked,     \* the markets, securities or events each process read last
    items,      \* FetchRunner: securities whose value it is recording
    keys, left, \* FetchRunner: fetched_keys and left_feed of the fetch at hand
    batch,      \* NormalizeWorker: the messages it holds
    old,        \* NormalizeWorker: the batch's events that existed before it
    told,       \* history: events ever told stale
    faults,     \* history: faults so far
    changes     \* history: venue changes so far

venueVars    == <<status, altered, quiet, changes>>
cycleVars    == <<known, listed, tracked, sentClosed>>
registryVars == <<listing, security, linked, settled, event>>
runnerVars   == <<items, keys, left>>
workerVars   == <<batch, old>>
control      == <<pc, stage, picked>>
vars == <<venueVars, cycleVars, queue, registryVars, runnerVars, workerVars, control, told, faults>>

-----------------------------------------------------------------------------
Proc == {"runner", "worker"}

EventOfMarket(m) == EventOf[SecurityOf[m]]
MarketsOf(e)     == {m \in Market : EventOfMarket(m) = e}

Active   == {m \in Market : listing[m] = "active"}
Inactive == {m \in Market : listing[m] = "inactive"}
Open     == {m \in Market : status[m] = "open"}
Over     == {m \in Market : status[m] \in {"closed", "settled"}}

\* get_securities_with_active_listings
StillListed(S) == {s \in S : \E m \in Active : SecurityOf[m] = s}

\* Mutant: only listings that are still active can be settled.
UnsettledActive(M) == {m \in M : listing[m] = "active" /\ SecurityOf[m] \in linked \ settled}

\* Listings whose outcome is in an event and has no settlement value.
Unsettled(M) == {m \in M : SecurityOf[m] \in linked \ settled}

NewMessage(e, markets) == [type |-> "new", event |-> e, markets |-> markets]
Closed(m) == [type |-> "closed", market |-> m]
Stale(e)  == [type |-> "stale", event |-> e]

Fault(kind) ==
    /\ kind \in Faults
    /\ faults < MaxFaults
    /\ faults' = faults + 1

At(p, label) == pc[p] = label
Goto(p, label) == pc' = [pc EXCEPT ![p] = label]
Pick(p, ids) == picked' = [picked EXCEPT ![p] = ids]

Set(f, ids, value) == [x \in DOMAIN f |-> IF x \in ids THEN value ELSE f[x]]

-----------------------------------------------------------------------------
Init ==
    /\ status = [m \in Market |-> IF m \in Registered THEN "open" ELSE "gone"]
    /\ altered = {} /\ quiet \in SUBSET Event
    /\ known = Registered /\ sentClosed = {} /\ queue = {}
    /\ tracked = {EventOfMarket(m) : m \in Registered} /\ listed = tracked
    /\ listing = [m \in Market |-> IF m \in Registered THEN "active" ELSE "none"]
    /\ linked = {SecurityOf[m] : m \in Registered}
    /\ security = [s \in Security |-> IF s \in linked THEN "active" ELSE "none"]
    /\ settled = {}
    /\ event = [e \in Event |-> IF e \in tracked THEN "unresolved" ELSE "none"]
    /\ pc = [p \in Proc |-> "idle"] /\ stage = [p \in Proc |-> "idle"]
    /\ picked = [p \in Proc |-> {}]
    /\ items = {} /\ keys = {} /\ left = {} /\ batch = {} /\ old = {}
    /\ told = {} /\ faults = 0 /\ changes = 0

(* The venue: a market opens, closes, reopens, settles or is delisted; a    *)
(* contract of an event changes in another way; or an event's volume does.  *)
VenueChanges ==
    /\ changes < MaxChanges
    /\ changes' = changes + 1
    /\ \/ /\ \E m \in Market :
                \/ status[m] = "open" /\ status' = [status EXCEPT ![m] = "closed"]
                \/ status[m] \in {"open", "closed"} /\ status' = [status EXCEPT ![m] = "settled"]
                \/ status[m] \in {"closed", "gone"} /\ status' = [status EXCEPT ![m] = "open"]
                \/ status[m] \in {"open", "closed"} /\ status' = [status EXCEPT ![m] = "gone"]
          /\ UNCHANGED <<altered, quiet>>
       \/ /\ \E e \in Event \ altered : altered' = altered \cup {e}
          /\ UNCHANGED <<status, quiet>>
       \/ /\ \E e \in Event : quiet' = IF e \in quiet THEN quiet \ {e} ELSE quiet \cup {e}
          /\ UNCHANGED <<status, altered>>
    /\ UNCHANGED <<cycleVars, queue, registryVars, runnerVars, workerVars, control, told, faults>>

-----------------------------------------------------------------------------
(* Turning listings off, the same three calls in deactivate_closed_listings, *)
(* deactivate_stale_events and _reconcile_stale_entities.                    *)

\* Where a process goes when it has turned off what there was to turn off.
AfterOff(p) ==
    CASE stage[p] = "closed"    -> "stale"
      [] stage[p] = "stale"     -> "gone"
      [] stage[p] = "reconcile" -> "delete"
      [] OTHER                  -> "resolve"

\* With the listings to turn off at hand, or none and the caller's next step.
Retire(p, markets, caller, next) ==
    /\ Pick(p, markets)
    /\ stage' = [stage EXCEPT ![p] = caller]
    /\ Goto(p, IF markets = {} THEN next ELSE "listings")


PatchListingsOff(p) ==
    /\ At(p, "listings")
    /\ listing' = Set(listing, picked[p], "inactive")
    /\ Goto(p, "securities")
    /\ UNCHANGED <<venueVars, cycleVars, queue, security, linked, settled, event, runnerVars,
                   workerVars, stage, picked, told, faults>>

\* Mutant: a security stays on.
KeepSecurities(p) == {}

\* The securities of the listings just turned off that have no active listing left.
LeftWithNone(p) ==
    LET candidates == {SecurityOf[m] : m \in picked[p]} IN candidates \ StillListed(candidates)

FindSecurities(p) ==
    /\ At(p, "securities")
    /\ Pick(p, LeftWithNone(p))
    /\ Goto(p, "off")
    /\ UNCHANGED <<venueVars, cycleVars, queue, registryVars, runnerVars, workerVars, stage, told, faults>>

PatchSecuritiesOff(p) ==
    /\ At(p, "off")
    /\ security' = Set(security, picked[p], "inactive")
    /\ Goto(p, AfterOff(p))
    /\ UNCHANGED <<venueVars, cycleVars, queue, listing, linked, settled, event, runnerVars,
                   workerVars, stage, picked, told, faults>>

-----------------------------------------------------------------------------
(* FetchRunner *)

NextStage(from) ==
    CASE from = "closure" -> "recent" [] from = "recent" -> "reactivate" [] OTHER -> "idle"

\* The runner moves on to label with no locals but the fetch's.
MoveOn(label) ==
    /\ Goto("runner", label)
    /\ stage' = [stage EXCEPT !["runner"] = "idle"]
    /\ Pick("runner", {})
    /\ items' = {}
    /\ keys' = IF label = "idle" THEN {} ELSE keys
    /\ left' = IF label = "closure" THEN left ELSE {}

\* The volume gate: a quiet event passes only with a contract that is already known.
Passes(e, seen, before) == e \notin quiet \/ seen \cap MarketsOf(e) \cap before # {}

\* A fetch cycle (FetchCycle has its detail, the cap on messages too): a message for every event
\* that passes with a market that is new or changed, carrying all of its markets.  An event held
\* back is in none of the fetch's keys, though the stale cycle counts it as listed.
Fetch ==
    /\ At("runner", "idle")
    /\ \E seen \in SUBSET Open, before \in SUBSET known :
          /\ \/ seen = Open /\ before = known /\ UNCHANGED faults
             \/ Fault("missed") /\ before = known /\ Cardinality(Open \ seen) = 1
             \/ Fault("forgot") /\ before = {} /\ seen = Open
          /\ listed' = {EventOfMarket(m) : m \in seen}
          /\ LET passed == {e \in listed' : Passes(e, seen, before)}
                 sent   == {e \in passed : e \in altered \/ ~(seen \cap MarketsOf(e) \subseteq before)}
             IN  /\ queue' = queue \cup {NewMessage(e, seen \cap MarketsOf(e)) : e \in sent}
                 /\ altered' = altered \ passed
                 /\ keys' = {m \in seen : EventOfMarket(m) \in passed}
          /\ tracked' = tracked \cup listed'
          /\ known' = keys'
          /\ left' = before \ keys'
    /\ Goto("runner", "closure")
    /\ UNCHANGED <<status, quiet, changes, sentClosed, registryVars, items, workerVars, stage, picked, told>>

\* The venue is asked about some markets: those over are to be turned off, those settled
\* and without a value are to be recorded.
LookUp(markets, caller) ==
    /\ Pick("runner", markets \cap Over)
    /\ items' = {SecurityOf[m] : m \in {n \in Unsettled(markets) : status[n] = "settled"}}
    /\ stage' = [stage EXCEPT !["runner"] = caller]
    /\ Goto("runner", "record")
    /\ UNCHANGED <<venueVars, cycleVars, queue, registryVars, workerVars, keys, left, told, faults>>

\* A look-up with nothing to ask, or that the venue does not answer.
NoLookUp(nothing, label) ==
    /\ \/ nothing /\ UNCHANGED faults
       \/ ~nothing /\ Fault("venue")
    /\ MoveOn(label)
    /\ UNCHANGED <<venueVars, cycleVars, queue, registryVars, workerVars, told>>

CheckClosures ==
    /\ At("runner", "closure")
    /\ LET skipped == left = {} \/ Cardinality(left) > MaxLookups
       IN  \/ ~skipped /\ LookUp(left, "closure")
           \/ NoLookUp(skipped, "recent")

RecentSettlements ==
    /\ At("runner", "recent")
    /\ LET candidates == Unsettled(Inactive)
       IN  \/ candidates # {} /\ LookUp(candidates, "recent")
           \/ NoLookUp(candidates = {}, "reactivate")

SettleSweep ==
    /\ At("runner", "idle")
    /\ LET candidates == Unsettled(Inactive \cup IF SettleActive THEN Active ELSE {})
       IN  candidates # {} /\ LookUp(candidates, "sweep")

\* apply_market_states: record, turn off, resolve.
RecordValues ==
    /\ At("runner", "record")
    /\ settled' = settled \cup items
    /\ Goto("runner", "find")
    /\ UNCHANGED <<venueVars, cycleVars, queue, listing, security, linked, event, runnerVars,
                   workerVars, stage, picked, told, faults>>

FindClosed ==
    /\ At("runner", "find")
    /\ Retire("runner", picked["runner"] \cap Active, stage["runner"], "resolve")
    /\ UNCHANGED <<venueVars, cycleVars, queue, registryVars, runnerVars, workerVars, told, faults>>

\* Mutant: one outcome with a value is enough.
AnyValue(e) == event[e] = "unresolved" /\ \E s \in linked : EventOf[s] = e /\ s \in settled \cup items

EveryValue(e) == event[e] = "unresolved" /\ \A s \in linked : EventOf[s] = e => s \in settled \cup items

\* resolve_settled_events reads the events it just recorded a value for.
FindResolved ==
    /\ At("runner", "resolve")
    /\ LET done == {e \in {EventOf[s] : s \in items} : EveryValue(e)}
       IN  \/ /\ done = {}
              /\ MoveOn(NextStage(stage["runner"]))
           \/ /\ done # {}
              /\ Pick("runner", done)
              /\ Goto("runner", "events")
              /\ UNCHANGED <<stage, runnerVars>>
    /\ UNCHANGED <<venueVars, cycleVars, queue, registryVars, workerVars, told, faults>>

PatchResolved ==
    /\ At("runner", "events")
    /\ event' = Set(event, picked["runner"], "resolved")
    /\ MoveOn(NextStage(stage["runner"]))
    /\ UNCHANGED <<venueVars, cycleVars, queue, listing, security, linked, settled, workerVars, told, faults>>

\* Mutants of Reopened: a settled outcome comes back, or nothing does.
ReopenedSettled == keys \cap {m \in Inactive : SecurityOf[m] \in linked}
ReopenedNever   == {}

\* reactivate_listings: the retired, unsettled listings the fetch lists as open.
Reopened == keys \cap Unsettled(Inactive)

FindReopened ==
    /\ At("runner", "reactivate")
    /\ \/ /\ ~Reactivation \/ Reopened = {}
          /\ MoveOn("idle")
       \/ /\ Reactivation /\ Reopened # {}
          /\ Pick("runner", Reopened)
          /\ Goto("runner", "on")
          /\ UNCHANGED <<stage, runnerVars>>
    /\ UNCHANGED <<venueVars, cycleVars, queue, registryVars, workerVars, told, faults>>

PatchListingsOn ==
    /\ At("runner", "on")
    /\ listing' = Set(listing, picked["runner"], "active")
    /\ Goto("runner", "onSecurities")
    /\ UNCHANGED <<venueVars, cycleVars, queue, security, linked, settled, event, runnerVars,
                   workerVars, stage, picked, told, faults>>

PatchSecuritiesOn ==
    /\ At("runner", "onSecurities")
    /\ security' = Set(security, {SecurityOf[m] : m \in picked["runner"]}, "active")
    /\ Goto("runner", "findUnresolve")
    /\ UNCHANGED <<venueVars, cycleVars, queue, listing, linked, settled, event, runnerVars,
                   workerVars, stage, picked, told, faults>>

FindUnresolve ==
    /\ At("runner", "findUnresolve")
    /\ Pick("runner", {e \in {EventOfMarket(m) : m \in picked["runner"]} : event[e] = "resolved"})
    /\ Goto("runner", "unresolve")
    /\ UNCHANGED <<venueVars, cycleVars, queue, registryVars, runnerVars, workerVars, stage, told, faults>>

PatchUnresolved ==
    /\ At("runner", "unresolve")
    /\ event' = Set(event, picked["runner"], "unresolved")
    /\ MoveOn("idle")
    /\ UNCHANGED <<venueVars, cycleVars, queue, listing, security, linked, settled, workerVars, told, faults>>

\* The process dies, or a call fails and the cycle's next part goes on without it.
RunnerFails ==
    /\ ~At("runner", "idle")
    /\ Fault("crash")
    /\ \/ MoveOn("idle")
       \/ stage["runner"] \in {"closure", "recent"} /\ MoveOn(NextStage(stage["runner"]))
    /\ UNCHANGED <<venueVars, cycleVars, queue, registryVars, workerVars, told>>

\* The resolve cycle: a closed message for each market the bulk list names, once.
ResolveCycle ==
    /\ At("runner", "idle")
    /\ \E current \in SUBSET Market :
          /\ \/ current = Over /\ UNCHANGED faults
             \/ Fault("wrong") /\ current # Over /\ Over \subseteq current /\ current \subseteq Over \cup Open
          /\ current # sentClosed
          /\ queue' = queue \cup {Closed(m) : m \in current \ sentClosed}
          /\ sentClosed' = current
    /\ UNCHANGED <<venueVars, known, listed, tracked, registryVars, runnerVars, workerVars, control, told>>

\* The stale cycle (StaleTracker has its detail) tells an event the feed no longer has.
TellStale(e) ==
    /\ At("runner", "idle")
    /\ e \in tracked \ listed
    /\ tracked' = tracked \ {e}
    /\ queue' = queue \cup {Stale(e)}
    /\ told' = told \cup {e}
    /\ UNCHANGED <<venueVars, known, listed, sentClosed, registryVars, runnerVars, workerVars, control, faults>>

-----------------------------------------------------------------------------
(* NormalizeWorker: process_batch takes the closed messages of a batch,    *)
(* then the stale ones, then the new ones.                                 *)

ClosedIn == {m \in Market : Closed(m) \in batch}
StaleIn  == {e \in Event : Stale(e) \in batch}
News     == {msg \in batch : msg.type = "new"}
NewIn    == UNION {msg.markets : msg \in News}

Receive ==
    /\ At("worker", "idle")
    /\ \E msgs \in SUBSET queue :
          /\ Cardinality(msgs) \in 1..MaxBatch
          /\ batch' = msgs
          /\ queue' = queue \ msgs
    /\ Goto("worker", "closed")
    /\ UNCHANGED <<venueVars, cycleVars, registryVars, runnerVars, old, stage, picked, told, faults>>

TakeClosed ==
    /\ At("worker", "closed")
    /\ Retire("worker", ClosedIn \cap Active, "closed", "stale")
    /\ UNCHANGED <<venueVars, cycleVars, queue, registryVars, runnerVars, workerVars, told, faults>>

\* deactivate_stale_events ends here for events with no active listing.
TakeStale ==
    /\ At("worker", "stale")
    /\ Retire("worker", {m \in Active : SecurityOf[m] \in linked /\ EventOfMarket(m) \in StaleIn},
              "stale", "new")
    /\ UNCHANGED <<venueVars, cycleVars, queue, registryVars, runnerVars, workerVars, told, faults>>

\* The events of the securities just turned off with no active security left.
GoneEvents ==
    {e \in {EventOf[s] : s \in picked["worker"] \cap linked} :
        \A s \in linked : EventOf[s] = e => security[s] # "active"}

FindGone ==
    /\ At("worker", "gone")
    /\ Pick("worker", GoneEvents)
    /\ Goto("worker", "events")
    /\ UNCHANGED <<venueVars, cycleVars, queue, registryVars, runnerVars, workerVars, stage, told, faults>>

PatchGone ==
    /\ At("worker", "events")
    /\ event' = Set(event, picked["worker"], "resolved")
    /\ Goto("worker", "new")
    /\ UNCHANGED <<venueVars, cycleVars, queue, listing, security, linked, settled, runnerVars,
                   workerVars, stage, picked, told, faults>>

\* create_entities: missing events, then securities, listings and event contracts.
CreateEvents ==
    /\ At("worker", "new")
    /\ LET events == {msg.event : msg \in News}
       IN  /\ old' = {e \in events : event[e] # "none"}
           /\ event' = Set(event, events \ old', "unresolved")
    /\ Goto("worker", IF News = {} THEN "delete" ELSE "create")
    /\ UNCHANGED <<venueVars, cycleVars, queue, listing, security, linked, settled, runnerVars,
                   batch, stage, picked, told, faults>>

\* A security left without a listing by an earlier attempt is taken as it is.
CreateSecurities ==
    /\ At("worker", "create")
    /\ security' = Set(security, {s \in {SecurityOf[m] : m \in {n \in NewIn : listing[n] = "none"}} :
                                     security[s] = "none"}, "active")
    /\ Goto("worker", "createListings")
    /\ UNCHANGED <<venueVars, cycleVars, queue, listing, linked, settled, event, runnerVars,
                   workerVars, stage, picked, told, faults>>

CreateListings ==
    /\ At("worker", "createListings")
    /\ listing' = Set(listing, {m \in NewIn : listing[m] = "none"}, "active")
    /\ Goto("worker", "link")
    /\ UNCHANGED <<venueVars, cycleVars, queue, security, linked, settled, event, runnerVars,
                   workerVars, stage, picked, told, faults>>

CreateEventContracts ==
    /\ At("worker", "link")
    /\ linked' = linked \cup {SecurityOf[m] : m \in NewIn}
    /\ Goto("worker", "reconcile")
    /\ UNCHANGED <<venueVars, cycleVars, queue, listing, security, settled, event, runnerVars,
                   workerVars, stage, picked, told, faults>>

\* _reconcile_stale_entities: the active listings of the events that existed before the
\* batch which its messages do not carry.
Reconcile ==
    /\ At("worker", "reconcile")
    /\ Retire("worker",
              {m \in Active : SecurityOf[m] \in linked /\ EventOfMarket(m) \in old} \ NewIn,
              "reconcile", "delete")
    /\ UNCHANGED <<venueVars, cycleVars, queue, registryVars, runnerVars, workerVars, told, faults>>

\* The worker holds no batch any more; back are the messages SQS will deliver again.
LetGo(back) ==
    /\ queue' = queue \cup back
    /\ batch' = {} /\ old' = {}
    /\ Goto("worker", "idle")
    /\ stage' = [stage EXCEPT !["worker"] = "idle"]
    /\ Pick("worker", {})
    /\ UNCHANGED <<venueVars, cycleVars, registryVars, runnerVars, told>>

Delete ==
    /\ At("worker", "delete")
    /\ \/ LetGo({}) /\ UNCHANGED faults
       \/ Fault("redeliver") /\ LetGo(batch)

\* The process dies, or process_batch raises: the batch is delivered again.
WorkerFails ==
    /\ ~At("worker", "idle")
    /\ Fault("crash")
    /\ LetGo(batch)

-----------------------------------------------------------------------------
Deactivate(p) == PatchListingsOff(p) \/ FindSecurities(p) \/ PatchSecuritiesOff(p)

AfterFetch ==
    \/ CheckClosures \/ RecentSettlements
    \/ RecordValues \/ FindClosed \/ Deactivate("runner") \/ FindResolved \/ PatchResolved
    \/ FindReopened \/ PatchListingsOn \/ PatchSecuritiesOn \/ FindUnresolve \/ PatchUnresolved

ProcessBatch ==
    \/ TakeClosed \/ TakeStale \/ Deactivate("worker") \/ FindGone \/ PatchGone
    \/ CreateEvents \/ CreateSecurities \/ CreateListings \/ CreateEventContracts \/ Reconcile
    \/ Delete

Next ==
    \/ VenueChanges
    \/ Fetch \/ SettleSweep \/ ResolveCycle \/ (\E e \in Event : TellStale(e))
    \/ AfterFetch \/ RunnerFails
    \/ Receive \/ ProcessBatch \/ WorkerFails

Spec == Init /\ [][Next]_vars

\* The fetch and the resolve cycle come round (their intervals pass), a cycle that started goes
\* on, and every message is received and processed in the end.  Nothing is asked of the settlement
\* sweep and the stale cycle.
FairSpec ==
    /\ Spec
    /\ SF_vars(Fetch) /\ SF_vars(ResolveCycle)
    /\ WF_vars(AfterFetch) /\ WF_vars(Receive \/ ProcessBatch)

-----------------------------------------------------------------------------
(* Properties *)

\* Nothing is under way and nothing is on the queue.
Quiet == (\A p \in Proc : At(p, "idle")) /\ queue = {}

\* An event is resolved only once every outcome it has carries a settlement value, or once
\* the stale cycle told it gone, through every interleaving, crash, and redelivered or
\* wrong message.
ResolvedIsOver ==
    \A e \in Event : event[e] = "resolved" =>
        e \in told \/ \A s \in linked : EventOf[s] = e => s \in settled

\* With nothing under way, a security that has an event is on exactly when it has an
\* active listing, whichever of the two processes turned its listings off.
SecurityFollowsListings ==
    Quiet => \A s \in linked : security[s] = "active" <=> StillListed({s}) # {}

\* A listing whose outcome has its settlement value never comes back on.
SettledStaysRetired ==
    [][\A m \in Market : listing[m] = "inactive" /\ SecurityOf[m] \in settled => listing'[m] = "inactive"]_vars

\* Once every outcome of a registered event has settled on the venue, the event is resolved.
SettledGetsResolved ==
    \A e \in Event :
        (event[e] # "none" /\ \A m \in MarketsOf(e) : status[m] = "settled" /\ listing[m] # "none")
            ~> event[e] = "resolved"

\* The volume gate holds the event back: it is quiet, and none of its markets is known.
HeldBack(e) == e \in quiet /\ known \cap MarketsOf(e) = {}

\* A market in the registry that its venue keeps open is listed as active in the end, however it
\* came to be turned off: unless the volume gate takes its event for a new one, quiet, with every
\* market it had known closed in between.
OpenComesBack ==
    \A m \in Market :
        (status[m] = "open" /\ listing[m] = "inactive" /\ SecurityOf[m] \notin settled)
            ~> listing[m] = "active" \/ status[m] # "open" \/ HeldBack(EventOfMarket(m))

=============================================================================
