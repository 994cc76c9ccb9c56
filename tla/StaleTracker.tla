---------------------------- MODULE StaleTracker ----------------------------
(***************************************************************************)
(* Stale cleanup in FetchRunner: _run_stale with update_stale_tracker.     *)
(* Every stale interval the events the last fetch saw are compared with    *)
(* the tracker in Redis; an event missing MissThreshold times is told      *)
(* stale to the normalize worker and leaves the tracker.                   *)
(*                                                                         *)
(* The loop of run() appears as the flags due (a stale interval has passed *)
(* since the last stale cycle) and attempted (a fetch cycle ran since,     *)
(* since fetch_interval is shorter and comes first in the loop).           *)
(***************************************************************************)
EXTENDS Integers, FiniteSets

CONSTANTS
    Exchange,       \* the exchanges that have an adapter and a registry record
    Event,          \* native events
    ExchangeOf,     \* [Event -> Exchange]
    None,           \* an absent dict key
    MissThreshold,  \* stale_miss_threshold
    MaxMessages,    \* stale_max_sqs_messages
    RatioNum, RatioDen, \* stale_min_feed_ratio, as a fraction
    Faults,         \* "fetch", "venue", "empty", "partial", "send", "load", "save", "restart"
    MaxFaults,      \* bound: faults in a behaviour
    MaxChanges      \* bound: changes of the venues' feeds in a behaviour

ASSUME ConstantsAssumption ==
    /\ ExchangeOf \in [Event -> Exchange]
    /\ None \notin Int
    /\ MissThreshold \in Nat \ {0}
    /\ MaxMessages \in Nat /\ RatioNum \in Nat /\ RatioDen \in Nat \ {0}
    /\ MaxFaults \in Nat /\ MaxChanges \in Nat
    /\ IsFiniteSet(Event)

VARIABLES
    feed,        \* the events the venues list now
    haveEvents,  \* _active_events is not None
    active,      \* its active_by_exchange, over all exchanges
    successful,  \* its successful_ids
    due,         \* a stale interval has passed, or the process just started
    attempted,   \* a fetch cycle ran since the last stale cycle
    tracker,     \* fetch:stale_tracker in Redis: each event's miss_count
    feedCounts,  \* fetch:stale_feed_counts in Redis
    pc,          \* "idle", or which of the cycle's two saves comes next
    newTracker, newFeedCounts,  \* what update_stale_tracker returned
    told,        \* history: stale messages SQS accepted in the last stale cycle
    misses,      \* history: fetches that answered without an event since the tracker last
                 \* recorded it at 0
    counted,     \* history: a stale cycle already used _active_events
    unread,      \* history: the last stale cycle could not read the tracker
    faults,      \* history: how many faults so far, and of which kinds
    changes      \* history: venue changes so far

snapshot == <<haveEvents, active, successful, counted>>
redis    == <<tracker, feedCounts>>
locals   == <<pc, newTracker, newFeedCounts>>
history  == <<told, misses, unread>>
vars == <<feed, snapshot, due, attempted, redis, locals, history, faults, changes>>

-----------------------------------------------------------------------------
EventsOf(x) == {e \in Event : ExchangeOf[e] = x}
NoTracker   == [e \in Event |-> None]
NoCounts    == [x \in Exchange |-> None]

FaultLog == [count : 0..MaxFaults, kinds : SUBSET Faults]

Fault(kind) ==
    /\ kind \in Faults
    /\ faults.count < MaxFaults
    /\ faults' = [count |-> faults.count + 1, kinds |-> faults.kinds \cup {kind}]

(* What one pass over the adapters can read: all that is listed, or with   *)
(* one exchange failing, answering with nothing, or with part of its feed. *)
Reads(listed, ok) ==
    \/ listed = feed /\ ok = Exchange /\ UNCHANGED faults
    \/ \E x \in Exchange :
          \/ Fault("venue") /\ ok = Exchange \ {x} /\ listed = feed \ EventsOf(x)
          \/ Fault("empty") /\ ok = Exchange /\ listed = feed \ EventsOf(x)
          \/ /\ Fault("partial")
             /\ ok = Exchange
             /\ \E lost \in SUBSET (feed \cap EventsOf(x)) : lost # {} /\ listed = feed \ lost

-----------------------------------------------------------------------------
(* update_stale_tracker on a tracker t, feed counts k, the events listed   *)
(* and the exchanges ok whose fetch succeeded.                             *)

Seen(x, listed) == Cardinality(listed \cap EventsOf(x))

\* Mutant: an empty answer counts as a feed.
GapUnlessEmpty(x, k, listed) ==
    k[x] # None /\ Seen(x, listed) * RatioDen < k[x] * RatioNum

\* An exchange that answered with nothing, or too little to be believed.
Gap(x, k, listed) ==
    \/ Seen(x, listed) = 0
    \/ k[x] # None /\ Seen(x, listed) * RatioDen < k[x] * RatioNum

Failed(k, listed, ok) == {x \in Exchange : x \notin ok \/ Gap(x, k, listed)}

FeedCounts(k, listed, ok) ==
    LET failed == Failed(k, listed, ok)
    IN  [x \in Exchange |-> IF x \in failed THEN k[x] ELSE Seen(x, listed)]

\* Mutant: only an event reaching the threshold in this very cycle is stale.
JustStale(t, k, listed, ok) ==
    {e \in Event \ listed :
        ExchangeOf[e] \notin Failed(k, listed, ok) /\ t[e] # None /\ t[e] + 1 = MissThreshold}

\* all_stale: the events whose misses reach the threshold.
AllStale(t, k, listed, ok) ==
    LET failed == Failed(k, listed, ok)
    IN  {e \in Event \ listed : ExchangeOf[e] \notin failed /\ t[e] # None /\ t[e] + 1 >= MissThreshold}

\* The stale messages that go out: all of them, or as many as the cap allows.
Capped(stale) ==
    IF Cardinality(stale) <= MaxMessages THEN {stale}
    ELSE {S \in SUBSET stale : Cardinality(S) = MaxMessages}

\* Mutants of MissCount: the events over the cap are forgotten, the ones told are not.
OverCapForgotten(e, t, listed, out) ==
    CASE e \in listed -> 0
      [] e \notin listed /\ t[e] = None -> None
      [] OTHER -> IF t[e] + 1 < MissThreshold THEN t[e] + 1 ELSE None
KeptWhenTold(e, t, listed, out) ==
    CASE e \in listed -> 0
      [] e \notin listed /\ t[e] = None -> None
      [] OTHER -> t[e] + 1

\* The miss count of an event on an exchange that counts, the told ones in out.
MissCount(e, t, listed, out) ==
    CASE e \in listed -> 0
      [] e \notin listed /\ (e \in out \/ t[e] = None) -> None
      [] OTHER -> IF t[e] + 1 < MissThreshold THEN t[e] + 1 ELSE MissThreshold

NewTracker(t, k, listed, ok, out) ==
    LET failed == Failed(k, listed, ok)
    IN  [e \in Event |-> IF ExchangeOf[e] \in failed THEN t[e] ELSE MissCount(e, t, listed, out)]

-----------------------------------------------------------------------------
Init ==
    /\ feed \in SUBSET Event
    /\ haveEvents = FALSE /\ active = {} /\ successful = {} /\ counted = FALSE
    /\ due = TRUE /\ attempted = FALSE
    /\ tracker = NoTracker /\ feedCounts = NoCounts
    /\ pc = "idle" /\ newTracker = NoTracker /\ newFeedCounts = NoCounts
    /\ told = {} /\ unread = FALSE
    /\ misses = [e \in Event |-> 0]
    /\ faults = [count |-> 0, kinds |-> {}] /\ changes = 0

\* A venue lists an event, or stops listing it.
VenueChanges(e) ==
    /\ changes < MaxChanges
    /\ feed' = IF e \in feed THEN feed \ {e} ELSE feed \cup {e}
    /\ changes' = changes + 1
    /\ UNCHANGED <<snapshot, due, attempted, redis, locals, history, faults>>

\* A stale interval passes.
Hour ==
    /\ ~due
    /\ pc = "idle"
    /\ due' = TRUE
    /\ UNCHANGED <<feed, snapshot, attempted, redis, locals, history, faults, changes>>

\* A fetch cycle keeps in memory what it saw.
Fetch ==
    /\ pc = "idle"
    /\ Reads(active', successful')
    /\ haveEvents' = TRUE
    /\ counted' = FALSE
    /\ attempted' = TRUE
    /\ UNCHANGED <<feed, due, redis, locals, history, changes>>

\* A fetch cycle that raises, or is switched off by fetch_enabled, leaves the old events.
FetchFails ==
    /\ pc = "idle"
    /\ Fault("fetch")
    /\ haveEvents' \in {haveEvents, TRUE}
    /\ attempted' = TRUE
    /\ UNCHANGED <<feed, active, successful, counted, due, redis, locals, history, changes>>

\* History of a cycle that read listed from the exchanges ok: an event's misses count the
\* fetches, not the cycles, that missed it. Saving the tracker resets them.
Record(k, listed, ok) ==
    LET missed(e) == /\ e \notin listed /\ ~counted
                     /\ ExchangeOf[e] \in ok /\ Seen(ExchangeOf[e], listed) > 0
    IN  /\ misses' = [e \in Event |-> IF missed(e) /\ misses[e] < MissThreshold
                                     THEN misses[e] + 1 ELSE misses[e]]
        /\ counted' = haveEvents

\* The stale cycle up to its saves, on the tracker t and the counts k it read: update, send.
CycleOn(t, k, listed, ok) ==
    /\ due' = FALSE
    /\ attempted' = FALSE
    /\ Record(k, listed, ok)
    /\ \E out \in Capped(AllStale(t, k, listed, ok)) :
          /\ told' = out
          /\ newTracker' = NewTracker(t, k, listed, ok, out)
    /\ newFeedCounts' = FeedCounts(k, listed, ok)
    /\ pc' = "tracker"
    /\ UNCHANGED <<feed, haveEvents, active, successful, redis, changes>>

\* It works on the events in memory, or else on a pass over the adapters of its own.
StaleCycle ==
    /\ pc = "idle" /\ due /\ attempted
    /\ unread' = FALSE
    /\ \/ haveEvents /\ CycleOn(tracker, feedCounts, active, successful) /\ UNCHANGED faults
       \/ /\ ~haveEvents
          /\ \E listed \in SUBSET Event, ok \in SUBSET Exchange :
                Reads(listed, ok) /\ CycleOn(tracker, feedCounts, listed, ok)

\* The tracker or the counts cannot be read: the cycle starts from empty ones.
StaleCycleUnread ==
    /\ pc = "idle" /\ due /\ attempted /\ haveEvents
    /\ Fault("load")
    /\ \/ unread' = TRUE /\ CycleOn(NoTracker, feedCounts, active, successful)
       \/ unread' = FALSE /\ CycleOn(tracker, NoCounts, active, successful)

\* SQS takes only some of the messages: the cycle raises and saves nothing.
StaleSendFails ==
    /\ pc = "idle" /\ due /\ attempted /\ haveEvents
    /\ Fault("send")
    /\ due' = FALSE
    /\ attempted' = FALSE
    /\ Record(feedCounts, active, successful)
    /\ \E out \in Capped(AllStale(tracker, feedCounts, active, successful)) :
          \E accepted \in SUBSET out : accepted # out /\ told' = accepted
    /\ unread' = FALSE
    /\ UNCHANGED <<feed, haveEvents, active, successful, redis, locals, changes>>

\* Saving to Redis: a failure is logged and the cycle goes on.
SaveTracker ==
    /\ pc = "tracker"
    /\ \/ /\ tracker' = newTracker
          /\ misses' = [e \in Event |-> IF newTracker[e] = 0 THEN 0 ELSE misses[e]]
          /\ UNCHANGED faults
       \/ UNCHANGED <<tracker, misses>> /\ Fault("save")
    /\ pc' = "counts"
    /\ UNCHANGED <<feed, snapshot, due, attempted, feedCounts, newTracker, newFeedCounts,
                   told, unread, changes>>

SaveFeedCounts ==
    /\ pc = "counts"
    /\ \/ feedCounts' = newFeedCounts /\ UNCHANGED faults
       \/ UNCHANGED feedCounts /\ Fault("save")
    /\ pc' = "idle"
    /\ newTracker' = NoTracker /\ newFeedCounts' = NoCounts
    /\ UNCHANGED <<feed, snapshot, due, attempted, tracker, history, changes>>

\* The process dies and starts again: every cycle is due, and it remembers no events.
Restart ==
    /\ Fault("restart")
    /\ haveEvents' = FALSE /\ active' = {} /\ successful' = {} /\ counted' = FALSE
    /\ due' = TRUE /\ attempted' = FALSE
    /\ pc' = "idle" /\ newTracker' = NoTracker /\ newFeedCounts' = NoCounts
    /\ UNCHANGED <<feed, redis, history, changes>>

Runner == Fetch \/ StaleCycle \/ SaveTracker \/ SaveFeedCounts

Next ==
    \/ \E e \in Event : VenueChanges(e)
    \/ Hour
    \/ Runner
    \/ FetchFails
    \/ StaleCycleUnread
    \/ StaleSendFails
    \/ Restart

Spec == Init /\ [][Next]_vars

\* Hours pass, a fetch is tried each interval, and the loop comes to a stale cycle that is due: none
\* of these keeps another from its turn.
FairSpec == Spec /\ WF_vars(Hour \/ (~attempted /\ Fetch) \/ StaleCycle \/ SaveTracker \/ SaveFeedCounts)

-----------------------------------------------------------------------------
(* Properties *)

TypeOK ==
    /\ feed \subseteq Event /\ active \subseteq Event /\ told \subseteq Event
    /\ successful \subseteq Exchange
    /\ {haveEvents, due, attempted, counted, unread} \subseteq BOOLEAN
    /\ {tracker, newTracker} \subseteq [Event -> (0..MissThreshold) \cup {None}]
    /\ {feedCounts, newFeedCounts} \subseteq [Exchange -> Nat \cup {None}]
    /\ misses \in [Event -> 0..MissThreshold]
    /\ pc \in {"idle", "tracker", "counts"}
    /\ faults \in FaultLog /\ changes \in 0..MaxChanges

\* An event is told stale only after MissThreshold different fetches that answered without
\* it since the tracker last recorded a sighting: neither a failed exchange, an empty
\* answer, a lost save, a send that is repeated nor a restart makes up a miss.  A fetch
\* cycle that fails does: the stale cycle then counts the fetch before it again.
StaleAfterMisses ==
    "fetch" \notin faults.kinds => \A e \in told : misses[e] >= MissThreshold

\* An event being counted only leaves the tracker when it is told stale: not when its
\* message is over the cap, its send fails or its exchange is down (unless Redis could
\* not be read, which starts the tracker over).
TrackedUntilTold ==
    [][\A e \in Event : tracker[e] # None /\ tracker'[e] = None => e \in told \/ unread]_vars

\* A tracked event that stays gone is told stale in the end, as long as its venue's feed is not
\* taken for a gap for ever and the tracker was never lost.
GoneGetsTold ==
    \A e \in Event :
        tracker[e] # None ~>
            \/ e \in told \/ e \in feed
            \/ Gap(ExchangeOf[e], feedCounts, feed)
            \/ "load" \in faults.kinds
=============================================================================
