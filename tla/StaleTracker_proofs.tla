------------------------ MODULE StaleTracker_proofs ------------------------
(* What holds of the stale cycle for every set of exchanges and events,    *)
(* every threshold, cap and ratio: its state is well typed, an event is    *)
(* told stale only after the threshold of fetches without it, and leaves   *)
(* the tracker only when it is told.                                       *)
EXTENDS StaleTracker, FiniteSetTheorems, TLAPS

Tracker == [Event -> (0..MissThreshold) \cup {None}]
Counts  == [Exchange -> Nat \cup {None}]

-----------------------------------------------------------------------------
(* The operators of update_stale_tracker.                                  *)

\* The number of events an exchange answered with is a number.
LEMMA SeenNat ==
    ASSUME NEW x, NEW listed \in SUBSET Event
    PROVE  Seen(x, listed) \in Nat
<1>1. listed \cap EventsOf(x) \subseteq Event
    OBVIOUS
<1>2. IsFiniteSet(listed \cap EventsOf(x))
    BY <1>1, FS_Subset, ConstantsAssumption
<1> QED BY <1>2, FS_CardinalityType DEF Seen

\* The counts the cycle returns are counts.
LEMMA FeedCountsType ==
    ASSUME NEW k \in Counts, NEW listed \in SUBSET Event, NEW ok
    PROVE  FeedCounts(k, listed, ok) \in Counts
BY SeenNat DEF FeedCounts, Counts

\* A miss count starts at 0 and stops at the threshold.
LEMMA NewTrackerType ==
    ASSUME NEW t \in Tracker, NEW k, NEW listed, NEW ok, NEW out
    PROVE  NewTracker(t, k, listed, ok, out) \in Tracker
<1>1. ASSUME NEW e \in Event PROVE MissCount(e, t, listed, out) \in (0..MissThreshold) \cup {None}
    <2>1. CASE e \in listed
        BY <2>1, ConstantsAssumption DEF MissCount
    <2>2. CASE e \notin listed /\ (e \in out \/ t[e] = None)
        BY <2>2 DEF MissCount
    <2>3. CASE ~(e \in listed) /\ ~(e \in out \/ t[e] = None)
        <3>1. t[e] \in 0..MissThreshold
            BY <2>3 DEF Tracker
        <3> QED BY <2>3, <3>1, ConstantsAssumption DEF MissCount
    <2> QED BY <2>1, <2>2, <2>3
<1> QED BY <1>1 DEF NewTracker, Tracker

\* Only stale events are told stale.
LEMMA CappedSubset ==
    ASSUME NEW stale, NEW out \in Capped(stale)
    PROVE  out \subseteq stale
BY DEF Capped

\* The log of the faults stays in its bounds.
LEMMA FaultType ==
    ASSUME NEW kind, TypeOK, Fault(kind)
    PROVE  faults' \in FaultLog
BY ConstantsAssumption DEF Fault, FaultLog, TypeOK

\* The adapters list events of the venues.
LEMMA ReadsType ==
    ASSUME NEW listed, NEW ok, TypeOK, Reads(listed, ok)
    PROVE  listed \subseteq Event /\ ok \subseteq Exchange /\ faults' \in FaultLog
BY FaultType DEF Reads, TypeOK

\* The histories a stale cycle keeps stay in their range.
LEMMA RecordType ==
    ASSUME NEW k, NEW listed, NEW ok, TypeOK, Record(k, listed, ok)
    PROVE  /\ misses' \in [Event -> 0..MissThreshold]
           /\ counted' \in BOOLEAN
<1>1. misses \in [Event -> 0..MissThreshold] /\ haveEvents \in BOOLEAN
    BY DEF TypeOK
<1> QED BY <1>1, ConstantsAssumption DEF Record

\* A cycle leaves all it assigns in its type.
LEMMA CycleOnType ==
    ASSUME NEW t \in Tracker, NEW k \in Counts, NEW listed \in SUBSET Event, NEW ok,
           TypeOK, CycleOn(t, k, listed, ok)
    PROVE  /\ told' \subseteq Event /\ newTracker' \in Tracker /\ newFeedCounts' \in Counts
           /\ misses' \in [Event -> 0..MissThreshold]
           /\ counted' \in BOOLEAN /\ due' \in BOOLEAN /\ attempted' \in BOOLEAN
<1>1. PICK out \in Capped(AllStale(t, k, listed, ok)) :
          told' = out /\ newTracker' = NewTracker(t, k, listed, ok, out)
    BY DEF CycleOn
<1>2. told' \subseteq Event
    BY <1>1, CappedSubset DEF AllStale
<1>3. newTracker' \in Tracker
    BY <1>1, NewTrackerType
<1>4. newFeedCounts' \in Counts
    BY FeedCountsType DEF CycleOn
<1> QED BY <1>2, <1>3, <1>4, RecordType DEF CycleOn

-----------------------------------------------------------------------------
\* Every step keeps the state in its type.
LEMMA NextTypeOK == TypeOK /\ [Next]_vars => TypeOK'
<1> SUFFICES ASSUME TypeOK, [Next]_vars PROVE TypeOK'
    OBVIOUS
<1> USE DEF snapshot, redis, locals, history, vars
<1>1. ASSUME NEW e \in Event, VenueChanges(e) PROVE TypeOK'
    BY <1>1, ConstantsAssumption DEF VenueChanges, TypeOK
<1>2. CASE Hour
    BY <1>2 DEF Hour, TypeOK
<1>3. CASE Fetch
    <2>1. active' \subseteq Event /\ successful' \subseteq Exchange /\ faults' \in FaultLog
        BY <1>3, ReadsType DEF Fetch
    <2> QED BY <1>3, <2>1 DEF Fetch, TypeOK
<1>4. CASE FetchFails
    <2>1. faults' \in FaultLog
        BY <1>4, FaultType DEF FetchFails
    <2> QED BY <1>4, <2>1 DEF FetchFails, TypeOK
<1>5. ASSUME NEW t \in Tracker, NEW k \in Counts, NEW listed \in SUBSET Event, NEW ok,
             CycleOn(t, k, listed, ok), faults' \in FaultLog, unread' \in BOOLEAN
      PROVE  TypeOK'
    BY <1>5, CycleOnType DEF CycleOn, TypeOK, Tracker, Counts
<1>6. CASE StaleCycle
    <2>1. tracker \in Tracker /\ feedCounts \in Counts
        BY DEF TypeOK, Tracker, Counts
    <2>2. unread' \in BOOLEAN
        BY <1>6 DEF StaleCycle
    <2>3. CASE CycleOn(tracker, feedCounts, active, successful) /\ UNCHANGED faults
        <3>1. active \in SUBSET Event /\ faults' \in FaultLog
            BY <2>3 DEF TypeOK
        <3> QED BY <1>5, <2>1, <2>2, <2>3, <3>1
    <2>4. ASSUME NEW listed \in SUBSET Event, NEW ok \in SUBSET Exchange,
                 Reads(listed, ok), CycleOn(tracker, feedCounts, listed, ok)
          PROVE  TypeOK'
        BY <1>5, <2>1, <2>2, <2>4, ReadsType
    <2> QED BY <1>6, <2>3, <2>4 DEF StaleCycle
<1>7. CASE StaleCycleUnread
    <2>1. tracker \in Tracker /\ feedCounts \in Counts /\ active \in SUBSET Event
        BY DEF TypeOK, Tracker, Counts
    <2>2. NoTracker \in Tracker /\ NoCounts \in Counts
        BY DEF NoTracker, NoCounts, Tracker, Counts
    <2>3. faults' \in FaultLog /\ unread' \in BOOLEAN
        BY <1>7, FaultType DEF StaleCycleUnread
    <2>4. CASE CycleOn(NoTracker, feedCounts, active, successful)
        BY <1>5, <2>1, <2>2, <2>3, <2>4
    <2>5. CASE CycleOn(tracker, NoCounts, active, successful)
        BY <1>5, <2>1, <2>2, <2>3, <2>5
    <2> QED BY <1>7, <2>4, <2>5 DEF StaleCycleUnread
<1>8. CASE StaleSendFails
    <2>1. faults' \in FaultLog
        BY <1>8, FaultType DEF StaleSendFails
    <2>2. /\ misses' \in [Event -> 0..MissThreshold]
          /\ counted' \in BOOLEAN
        BY <1>8, RecordType DEF StaleSendFails
    <2>3. told' \subseteq Event
        <3>1. PICK out \in Capped(AllStale(tracker, feedCounts, active, successful)) :
                  \E accepted \in SUBSET out : told' = accepted
            BY <1>8 DEF StaleSendFails
        <3> QED BY <3>1, CappedSubset DEF AllStale
    <2> QED BY <1>8, <2>1, <2>2, <2>3 DEF StaleSendFails, TypeOK
<1>9. CASE SaveTracker
    <2>1. faults' \in FaultLog
        BY <1>9, FaultType DEF SaveTracker, TypeOK
    <2>2. misses' \in [Event -> 0..MissThreshold]
        BY <1>9, ConstantsAssumption DEF SaveTracker, TypeOK
    <2> QED BY <1>9, <2>1, <2>2 DEF SaveTracker, TypeOK
<1>10. CASE SaveFeedCounts
    <2>1. faults' \in FaultLog
        BY <1>10, FaultType DEF SaveFeedCounts, TypeOK
    <2> QED BY <1>10, <2>1 DEF SaveFeedCounts, TypeOK, NoTracker, NoCounts
<1>11. CASE Restart
    <2>1. faults' \in FaultLog
        BY <1>11, FaultType DEF Restart
    <2> QED BY <1>11, <2>1 DEF Restart, TypeOK, NoTracker, NoCounts
<1>12. CASE UNCHANGED vars
    BY <1>12 DEF TypeOK
<1> QED BY <1>1, <1>2, <1>3, <1>4, <1>6, <1>7, <1>8, <1>9, <1>10, <1>11, <1>12 DEF Next, Runner

\* The state of the stale cycle always has its type: no miss count grows past the threshold.
THEOREM TypeCorrect == Spec => []TypeOK
<1>1. ASSUME Init PROVE TypeOK
    <2>1. misses \in [Event -> 0..MissThreshold]
        BY <1>1, ConstantsAssumption DEF Init
    <2>2. faults \in FaultLog /\ changes \in 0..MaxChanges
        BY <1>1, ConstantsAssumption DEF Init, FaultLog
    <2>3. {tracker, newTracker} \subseteq [Event -> (0..MissThreshold) \cup {None}]
        BY <1>1 DEF Init, NoTracker
    <2>4. {feedCounts, newFeedCounts} \subseteq [Exchange -> Nat \cup {None}]
        BY <1>1 DEF Init, NoCounts
    <2> QED BY <1>1, <2>1, <2>2, <2>3, <2>4 DEF Init, TypeOK
<1> QED BY <1>1, NextTypeOK, PTL DEF Spec

-----------------------------------------------------------------------------
(* StaleAfterMisses is not inductive: told comes from the tracker of the   *)
(* cycle, which comes from the tracker saved before it, so each of them is *)
(* bounded by the misses the history counts; a cycle counts a fetch once   *)
(* because a fetch cycle has run since the last one; and no event just     *)
(* told is about to be saved at 0.                                         *)

MissesInv ==
    "fetch" \notin faults.kinds =>
        /\ attempted => ~counted
        /\ \A e \in Event : tracker[e] # None => tracker[e] <= misses[e]
        /\ pc = "tracker" => \A e \in Event :
              /\ newTracker[e] # None => newTracker[e] <= misses[e]
              /\ e \in told => newTracker[e] = None
        /\ \A e \in told : misses[e] >= MissThreshold

\* A fault is added to the kinds met so far, and none is ever removed.
LEMMA FaultKinds ==
    ASSUME NEW kind, Fault(kind)
    PROVE  faults'.kinds = faults.kinds \cup {kind}
BY DEF Fault

\* A pass over the adapters forgets no fault.
LEMMA ReadsKinds ==
    ASSUME NEW listed, NEW ok, Reads(listed, ok), "fetch" \notin faults'.kinds
    PROVE  "fetch" \notin faults.kinds
BY FaultKinds DEF Reads

\* A cycle whose tracker is bounded by the misses, on a fetch it has not counted yet, finds
\* stale only what the threshold of fetches missed, and counts what it keeps in bounds.
LEMMA CycleCounts ==
    ASSUME TypeOK, NEW t \in Tracker, NEW k, NEW listed \in SUBSET Event, NEW ok, NEW out,
           Record(k, listed, ok), ~counted, out \subseteq AllStale(t, k, listed, ok),
           \A e \in Event : t[e] # None => t[e] <= misses[e],
           NEW e \in Event
    PROVE  /\ misses[e] <= misses'[e]
           /\ e \in AllStale(t, k, listed, ok) => misses'[e] >= MissThreshold
           /\ LET n == NewTracker(t, k, listed, ok, out)
              IN  /\ n[e] # None => n[e] <= misses'[e]
                  /\ e \in out => n[e] = None
<1> DEFINE x == ExchangeOf[e]
           n == NewTracker(t, k, listed, ok, out)
           missed == e \notin listed /\ x \in ok /\ Seen(x, listed) > 0
<1>1. /\ misses[e] \in 0..MissThreshold /\ MissThreshold \in Nat \ {0}
      /\ x \in Exchange /\ t[e] \in (0..MissThreshold) \cup {None}
    BY ConstantsAssumption DEF TypeOK, Tracker
<1>2. misses'[e] = IF missed /\ misses[e] < MissThreshold THEN misses[e] + 1 ELSE misses[e]
    BY DEF Record
<1>3. misses[e] <= misses'[e]
    BY <1>1, <1>2
<1>4. ASSUME e \notin listed, x \notin Failed(k, listed, ok)
      PROVE  missed
    <2>1. x \in ok /\ Seen(x, listed) # 0
        BY <1>1, <1>4 DEF Failed, Gap
    <2>2. Seen(x, listed) \in Nat
        BY SeenNat
    <2> QED BY <1>4, <2>1, <2>2
<1>5. e \in AllStale(t, k, listed, ok) => misses'[e] >= MissThreshold
    <2> SUFFICES ASSUME e \in AllStale(t, k, listed, ok) PROVE misses'[e] >= MissThreshold
        OBVIOUS
    <2>1. e \notin listed /\ x \notin Failed(k, listed, ok) /\ t[e] # None /\ t[e] + 1 >= MissThreshold
        BY DEF AllStale
    <2>2. missed
        BY <1>4, <2>1
    <2>3. t[e] <= misses[e] /\ t[e] \in 0..MissThreshold
        BY <1>1, <2>1
    <2> HIDE DEF missed
    <2> QED BY <1>1, <1>2, <2>1, <2>2, <2>3
<1>6. n[e] = IF x \in Failed(k, listed, ok) THEN t[e] ELSE MissCount(e, t, listed, out)
    BY DEF NewTracker
<1>7. e \in out => n[e] = None
    BY <1>6 DEF AllStale, MissCount
<1>8. n[e] # None => n[e] <= misses'[e]
    <2> SUFFICES ASSUME n[e] # None PROVE n[e] <= misses'[e]
        OBVIOUS
    <2>0. misses'[e] \in Int /\ misses'[e] >= 0
        BY <1>1, <1>2
    <2>1. CASE x \in Failed(k, listed, ok)
        <3>1. n[e] = t[e] /\ t[e] \in 0..MissThreshold /\ t[e] <= misses[e]
            BY <1>1, <1>6, <2>1
        <3> QED BY <1>1, <1>3, <2>0, <3>1
    <2>2. CASE x \notin Failed(k, listed, ok) /\ e \in listed
        <3>1. n[e] = 0
            BY <1>6, <2>2 DEF MissCount
        <3> QED BY <2>0, <3>1
    <2>3. CASE x \notin Failed(k, listed, ok) /\ e \notin listed
        <3>1. n[e] = MissCount(e, t, listed, out)
            BY <1>6, <2>3
        <3>2. ~(e \in out \/ t[e] = None)
            BY <2>3, <3>1 DEF MissCount
        <3>3. n[e] = IF t[e] + 1 < MissThreshold THEN t[e] + 1 ELSE MissThreshold
            BY <2>3, <3>1, <3>2 DEF MissCount
        <3>4. t[e] \in 0..MissThreshold /\ t[e] <= misses[e]
            BY <1>1, <3>2
        <3>5. missed
            BY <1>4, <2>3
        <3> HIDE DEF missed, n
        <3> QED BY <1>1, <1>2, <3>3, <3>4, <3>5
    <2> QED BY <2>1, <2>2, <2>3
<1> QED BY <1>3, <1>5, <1>7, <1>8

\* Every step keeps the miss counts bounded by the misses.
LEMMA NextMissesInv == TypeOK /\ MissesInv /\ [Next]_vars => MissesInv'
<1> SUFFICES ASSUME TypeOK, MissesInv, [Next]_vars, "fetch" \notin faults'.kinds
             PROVE  MissesInv'
    BY DEF MissesInv
<1> USE DEF snapshot, redis, locals, history, vars
<1>1. ASSUME NEW e \in Event, VenueChanges(e) PROVE MissesInv'
    BY <1>1 DEF VenueChanges, MissesInv
<1>2. CASE Hour
    BY <1>2 DEF Hour, MissesInv
<1>3. CASE Fetch
    <2>1. "fetch" \notin faults.kinds
        BY <1>3, FaultKinds DEF Fetch, Reads
    <2> QED BY <1>3, <2>1 DEF Fetch, MissesInv
<1>4. CASE FetchFails
    BY <1>4, FaultKinds DEF FetchFails
<1>5. ASSUME NEW t \in Tracker, NEW k, NEW listed \in SUBSET Event, NEW ok,
             attempted, CycleOn(t, k, listed, ok), "fetch" \notin faults.kinds,
             \A e \in Event : t[e] # None => t[e] <= misses[e]
      PROVE  MissesInv'
    <2>1. ~counted /\ Record(k, listed, ok)
        BY <1>5 DEF CycleOn, MissesInv
    <2>2. PICK out \in Capped(AllStale(t, k, listed, ok)) :
              told' = out /\ newTracker' = NewTracker(t, k, listed, ok, out)
        BY <1>5 DEF CycleOn
    <2>3. out \subseteq AllStale(t, k, listed, ok) /\ out \subseteq Event
        BY <2>2, CappedSubset DEF AllStale
    <2>4. ASSUME NEW e \in Event
          PROVE  /\ misses[e] <= misses'[e]
                 /\ e \in told' => misses'[e] >= MissThreshold
                 /\ newTracker'[e] # None => newTracker'[e] <= misses'[e]
                 /\ e \in told' => newTracker'[e] = None
        <3> DEFINE n == NewTracker(t, k, listed, ok, out)
        <3>1. /\ misses[e] <= misses'[e]
              /\ e \in AllStale(t, k, listed, ok) => misses'[e] >= MissThreshold
              /\ n[e] # None => n[e] <= misses'[e]
              /\ e \in out => n[e] = None
            BY <1>5, <2>1, <2>3, CycleCounts
        <3> HIDE DEF n
        <3> QED BY <2>2, <2>3, <3>1 DEF n
    <2>5. tracker' = tracker /\ attempted' = FALSE
        BY <1>5 DEF CycleOn
    <2>6. ASSUME NEW e \in Event, tracker'[e] # None PROVE tracker'[e] <= misses'[e]
        <3>1. tracker[e] <= misses[e] /\ misses[e] <= misses'[e]
            BY <1>5, <2>4, <2>5, <2>6 DEF MissesInv
        <3>2. tracker[e] \in Int /\ misses[e] \in Int /\ misses'[e] \in Int
            <4>1. misses' \in [Event -> 0..MissThreshold]
                BY <2>1, RecordType
            <4> QED BY <2>5, <2>6, <4>1, ConstantsAssumption DEF TypeOK
        <3> QED BY <2>5, <3>1, <3>2
    <2> QED BY <2>2, <2>3, <2>4, <2>5, <2>6 DEF MissesInv
<1>6. CASE StaleCycle
    <2>1. PICK listed \in SUBSET Event, ok \in SUBSET Exchange :
              /\ CycleOn(tracker, feedCounts, listed, ok)
              /\ UNCHANGED faults \/ Reads(listed, ok)
        BY <1>6 DEF StaleCycle, TypeOK
    <2>2. "fetch" \notin faults.kinds
        BY <2>1, ReadsKinds
    <2>3. tracker \in Tracker
        BY DEF TypeOK, Tracker
    <2> QED BY <1>5, <1>6, <2>1, <2>2, <2>3 DEF StaleCycle, MissesInv
<1>7. CASE StaleCycleUnread
    <2>1. "fetch" \notin faults.kinds
        BY <1>7, FaultKinds DEF StaleCycleUnread
    <2>2. tracker \in Tracker /\ active \in SUBSET Event /\ NoTracker \in Tracker
        BY DEF TypeOK, Tracker, NoTracker
    <2>3. CASE CycleOn(NoTracker, feedCounts, active, successful)
        <3>1. \A e \in Event : NoTracker[e] = None
            BY DEF NoTracker
        <3> QED BY <1>5, <1>7, <2>1, <2>2, <2>3, <3>1 DEF StaleCycleUnread
    <2>4. CASE CycleOn(tracker, NoCounts, active, successful)
        BY <1>5, <1>7, <2>1, <2>2, <2>4 DEF StaleCycleUnread, MissesInv
    <2> QED BY <1>7, <2>3, <2>4 DEF StaleCycleUnread
<1>8. CASE StaleSendFails
    <2>1. "fetch" \notin faults.kinds
        BY <1>8, FaultKinds DEF StaleSendFails
    <2>2. ~counted /\ Record(feedCounts, active, successful) /\ pc = "idle" /\ pc' = pc
        BY <1>8, <2>1 DEF StaleSendFails, MissesInv
    <2>3. tracker \in Tracker /\ active \in SUBSET Event
        BY DEF TypeOK, Tracker
    <2>4. told' \subseteq AllStale(tracker, feedCounts, active, successful)
        <3>1. PICK out \in Capped(AllStale(tracker, feedCounts, active, successful)) :
                  \E accepted \in SUBSET out : told' = accepted
            BY <1>8 DEF StaleSendFails
        <3> QED BY <3>1, CappedSubset
    <2>5. ASSUME NEW e \in Event
          PROVE  misses[e] <= misses'[e] /\ (e \in told' => misses'[e] >= MissThreshold)
        <3>1. \A f \in Event : tracker[f] # None => tracker[f] <= misses[f]
            BY <2>1 DEF MissesInv
        <3>2. {} \subseteq AllStale(tracker, feedCounts, active, successful)
            OBVIOUS
        <3> QED BY <2>2, <2>3, <2>4, <3>1, <3>2, CycleCounts
    <2>6. tracker' = tracker /\ attempted' = FALSE
        BY <1>8 DEF StaleSendFails
    <2>7. ASSUME NEW e \in Event, tracker'[e] # None PROVE tracker'[e] <= misses'[e]
        <3>1. tracker[e] <= misses[e] /\ misses[e] <= misses'[e]
            BY <2>1, <2>5, <2>6, <2>7 DEF MissesInv
        <3>2. tracker[e] \in Int /\ misses[e] \in Int /\ misses'[e] \in Int
            <4>1. misses' \in [Event -> 0..MissThreshold]
                BY <2>2, RecordType
            <4> QED BY <2>6, <2>7, <4>1, ConstantsAssumption DEF TypeOK
        <3> QED BY <2>6, <3>1, <3>2
    <2>8. told' \subseteq Event
        BY <2>4 DEF AllStale
    <2> QED BY <2>2, <2>5, <2>6, <2>7, <2>8 DEF MissesInv
<1>9. CASE SaveTracker
    <2>1. "fetch" \notin faults.kinds
        BY <1>9, FaultKinds DEF SaveTracker
    <2>2. CASE UNCHANGED <<tracker, misses>>
        BY <1>9, <2>1, <2>2 DEF SaveTracker, MissesInv
    <2>3. CASE tracker' = newTracker /\ misses' = [e \in Event |-> IF newTracker[e] = 0 THEN 0 ELSE misses[e]]
        <3>1. ASSUME NEW e \in Event, tracker'[e] # None PROVE tracker'[e] <= misses'[e]
            <4>1. newTracker[e] # None /\ newTracker[e] <= misses[e]
                BY <1>9, <2>1, <2>3, <3>1 DEF SaveTracker, MissesInv
            <4>2. misses'[e] = IF newTracker[e] = 0 THEN 0 ELSE misses[e]
                BY <2>3
            <4> QED BY <2>3, <4>1, <4>2
        <3>2. ASSUME NEW e \in told PROVE misses'[e] = misses[e]
            <4>1. e \in Event /\ newTracker[e] = None /\ None # 0
                BY <1>9, <2>1, ConstantsAssumption DEF SaveTracker, MissesInv, TypeOK
            <4> QED BY <2>3, <4>1
        <3> QED BY <1>9, <2>1, <3>1, <3>2 DEF SaveTracker, MissesInv
    <2> QED BY <1>9, <2>2, <2>3 DEF SaveTracker
<1>10. CASE SaveFeedCounts
    BY <1>10, FaultKinds DEF SaveFeedCounts, MissesInv
<1>11. CASE Restart
    BY <1>11, FaultKinds DEF Restart, MissesInv
<1>12. CASE UNCHANGED vars
    BY <1>12 DEF MissesInv
<1> QED BY <1>1, <1>2, <1>3, <1>4, <1>6, <1>7, <1>8, <1>9, <1>10, <1>11, <1>12 DEF Next, Runner

\* Whatever the venues, SQS and Redis do and whenever the process restarts, an event is told
\* stale only after MissThreshold different fetches that answered without it, as long as no
\* fetch cycle failed.
THEOREM ToldAfterMisses == Spec => []StaleAfterMisses
<1>1. Init => MissesInv
    BY ConstantsAssumption DEF Init, MissesInv, NoTracker
<1>2. MissesInv => StaleAfterMisses
    BY DEF MissesInv, StaleAfterMisses
<1> QED BY <1>1, <1>2, TypeCorrect, NextMissesInv, PTL DEF Spec

-----------------------------------------------------------------------------
(* TrackedUntilTold is about the one step that writes the tracker, and     *)
(* needs what holds of the tracker it writes since the cycle made it.      *)

KeptOrTold ==
    pc = "tracker" =>
        \A e \in Event : tracker[e] # None /\ newTracker[e] = None => e \in told \/ unread

\* An event a cycle counted has a count again, unless the cycle tells it stale.
LEMMA CycleKeeps ==
    ASSUME NEW t \in Tracker, NEW k, NEW listed, NEW ok, CycleOn(t, k, listed, ok),
           NEW e \in Event, t[e] # None, newTracker'[e] = None
    PROVE  e \in told'
<1>1. PICK out \in Capped(AllStale(t, k, listed, ok)) :
          told' = out /\ newTracker' = NewTracker(t, k, listed, ok, out)
    BY DEF CycleOn
<1>2. newTracker'[e] = IF ExchangeOf[e] \in Failed(k, listed, ok) THEN t[e] ELSE MissCount(e, t, listed, out)
    BY <1>1 DEF NewTracker
<1>3. MissCount(e, t, listed, out) = None
    BY <1>2
<1>4. SUFFICES ASSUME e \notin out PROVE FALSE
    BY <1>1
<1>5. t[e] \in 0..MissThreshold
    BY DEF Tracker
<1>6. MissCount(e, t, listed, out) \in Int
    BY <1>4, <1>5, ConstantsAssumption DEF MissCount
<1> QED BY <1>3, <1>6, ConstantsAssumption

\* Between the cycle and its save nothing touches the tracker or what was told.
LEMMA NextKeptOrTold == TypeOK /\ KeptOrTold /\ [Next]_vars => KeptOrTold'
<1> SUFFICES ASSUME TypeOK, KeptOrTold, [Next]_vars PROVE KeptOrTold'
    OBVIOUS
<1> USE DEF snapshot, redis, locals, history, vars
<1>1. tracker \in Tracker
    BY DEF TypeOK, Tracker
<1>2. CASE StaleCycle
    <2>1. PICK listed \in SUBSET Event, ok \in SUBSET Exchange : CycleOn(tracker, feedCounts, listed, ok)
        BY <1>2 DEF StaleCycle, TypeOK
    <2>2. tracker' = tracker
        BY <2>1 DEF CycleOn
    <2> QED BY <1>1, <2>1, <2>2, CycleKeeps DEF KeptOrTold
<1>3. CASE StaleCycleUnread
    <2> SUFFICES ASSUME ~unread' PROVE KeptOrTold'
        BY DEF KeptOrTold
    <2>1. CycleOn(tracker, NoCounts, active, successful)
        BY <1>3 DEF StaleCycleUnread
    <2>2. tracker' = tracker
        BY <2>1 DEF CycleOn
    <2> QED BY <1>1, <2>1, <2>2, CycleKeeps DEF KeptOrTold
<1>4. CASE \E e \in Event : VenueChanges(e)
    BY <1>4 DEF VenueChanges, KeptOrTold
<1>5. CASE Hour \/ Fetch \/ FetchFails \/ StaleSendFails
    BY <1>5 DEF Hour, Fetch, FetchFails, StaleSendFails, KeptOrTold
<1>6. CASE SaveTracker \/ SaveFeedCounts \/ Restart
    BY <1>6 DEF SaveTracker, SaveFeedCounts, Restart, KeptOrTold
<1>7. CASE UNCHANGED vars
    BY <1>7 DEF KeptOrTold
<1> QED BY <1>2, <1>3, <1>4, <1>5, <1>6, <1>7 DEF Next, Runner

\* Only the save of a cycle's tracker takes an event out of it.
LEMMA NextTracks ==
    KeptOrTold /\ [Next]_vars => \A e \in Event : tracker[e] # None /\ tracker'[e] = None => e \in told \/ unread
<1> SUFFICES ASSUME KeptOrTold, [Next]_vars, NEW e \in Event, tracker[e] # None, tracker'[e] = None
             PROVE  e \in told \/ unread
    OBVIOUS
<1> USE DEF snapshot, redis, locals, history, vars
<1>1. CASE SaveTracker
    BY <1>1 DEF SaveTracker, KeptOrTold
<1>2. CASE UNCHANGED tracker
    BY <1>2
<1>3. CASE StaleCycle \/ StaleCycleUnread
    BY <1>2, <1>3 DEF StaleCycle, StaleCycleUnread, CycleOn
<1>4. CASE (\E x \in Event : VenueChanges(x)) \/ Hour \/ Fetch \/ FetchFails \/ StaleSendFails
    BY <1>2, <1>4 DEF VenueChanges, Hour, Fetch, FetchFails, StaleSendFails
<1>5. CASE SaveFeedCounts \/ Restart
    BY <1>2, <1>5 DEF SaveFeedCounts, Restart
<1> QED BY <1>1, <1>2, <1>3, <1>4, <1>5 DEF Next, Runner

\* An event being counted leaves the tracker only when it is told stale, whatever cap, failed send,
\* failed exchange, lost save or restart comes in between, unless the tracker could not be read.
THEOREM ToldBeforeForgotten == Spec => TrackedUntilTold
<1>1. Init => KeptOrTold
    BY DEF Init, KeptOrTold
<1>2. KeptOrTold /\ [Next]_vars =>
          [\A e \in Event : tracker[e] # None /\ tracker'[e] = None => e \in told \/ unread]_vars
    BY NextTracks
<1> QED BY <1>1, <1>2, TypeCorrect, NextKeptOrTold, PTL DEF Spec, TrackedUntilTold
=============================================================================
