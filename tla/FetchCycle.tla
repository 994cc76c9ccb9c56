----------------------------- MODULE FetchCycle -----------------------------
(***************************************************************************)
(* FetchRunner._run_fetch with diff_contracts and GameCore: one fetch      *)
(* cycle reads every exchange's feed page by page, puts each new or        *)
(* changed event group on the contracts queue, and saves to Redis the hash *)
(* of every contract it has sent.                                          *)
(*                                                                         *)
(* A contract's hash is a member of Version, and None stands for "no such  *)
(* key" in a dict and for "not listed" on the venue.  A page is the        *)
(* function from contracts to versions of the groups it carries; adapters  *)
(* yield an event's contracts together, so a group is never split.         *)
(***************************************************************************)
EXTENDS Naturals, FiniteSets

CONSTANTS
    Exchange,      \* the exchanges that have an adapter and a registry record
    Event,         \* native events, each listed by one exchange
    Contract,      \* (exchange_id, exchange_security_id) keys
    Version,       \* values of contract_hash
    None,          \* an absent dict key, a contract the venue does not list
    Game,          \* games a venue lists as several events
    NoGame,        \* the game_id of an event that belongs to no game
    EventOf,       \* [Contract -> Event]
    ExchangeOf,    \* [Event -> Exchange]
    GameOf,        \* [Event -> Game \cup {NoGame}]
    Core,          \* events of a game's core markets (game_core)
    MaxMessages,   \* fetch_max_sqs_messages
    Faults,        \* which faults may occur: "venue", "send", "load", "save", "crash"
    MaxFaults,     \* bound: faults in a behaviour
    MaxChanges     \* bound: changes of the venues' feeds in a behaviour

ASSUME ConstantsAssumption ==
    /\ EventOf \in [Contract -> Event]
    /\ ExchangeOf \in [Event -> Exchange]
    /\ GameOf \in [Event -> Game \cup {NoGame}]
    /\ NoGame \notin Game
    /\ Core \subseteq Event
    /\ None \notin Version
    /\ MaxMessages \in Nat /\ MaxFaults \in Nat /\ MaxChanges \in Nat
    /\ IsFiniteSet(Event)

VARIABLES
    feed,       \* what each contract's venue lists now
    loud,       \* events whose volume reaches their threshold now
    known,      \* fetch:known_contracts in Redis
    pc,         \* where the runner is: "idle", "cycle" or "paging"
    loaded,     \* known_contracts, as this cycle read it
    merged,     \* merged_hashes
    pending,    \* exchanges this cycle has not come to
    exchange,   \* the exchange being paged
    unread,     \* its events whose page is still to come
    hashes,     \* exchange_hashes
    admitted,   \* GameCore.admitted
    held,       \* GameCore.held, as a page
    sent,       \* total_sent
    leftFeed,   \* left_feed_by_exchange, over all exchanges
    seen,       \* history: contracts read in this cycle
    gated,      \* history: events the volume gate dropped from the exchanges read so far
    delivered,  \* history: <<contract, version>> pairs SQS accepted
    faults,     \* history: how many faults so far, and of which kinds
    changes     \* history: venue changes so far

venueVars   == <<feed, loud, changes>>
pageVars    == <<exchange, unread, hashes, admitted, held>>
cycleVars   == <<loaded, merged, pending, sent, leftFeed, seen, gated>>
vars == <<venueVars, known, pc, pageVars, cycleVars, delivered, faults>>

-----------------------------------------------------------------------------
Hashes   == [Contract -> Version \cup {None}]
NoHashes == [c \in Contract |-> None]

EventsOf(x) == {e \in Event : ExchangeOf[e] = x}

\* The contracts of a page, and one event's group in it (contracts_by_native).
Listed(page)   == {c \in Contract : page[c] # None}
Group(page, e) == {c \in Listed(page) : EventOf[c] = e}
Groups(page)   == {EventOf[c] : c \in Listed(page)}

\* dict.update: the keys of new win over those of old.
Update(old, new) == [c \in Contract |-> IF new[c] # None THEN new[c] ELSE old[c]]

-----------------------------------------------------------------------------
(* diff_contracts, one operator per thing it decides about a page.  gate   *)
(* is FALSE for the groups GameCore releases (min_event_volume=None).      *)

AlreadySent(page, e) == \E c \in Group(page, e) : loaded[c] # None

Quiet(page, gate) ==
    {e \in Groups(page) : gate /\ ~AlreadySent(page, e) /\ e \notin loud}

\* The game ids let in once this page is read.
AdmittedAfter(page, gate) ==
    admitted \cup ({GameOf[e] : e \in Groups(page) \ Quiet(page, gate)} \ {NoGame})

\* A quiet core market passes with its game, or is held for it.
LetIn(page, gate) ==
    {e \in Quiet(page, gate) : e \in Core /\ GameOf[e] \in AdmittedAfter(page, gate)}
Held(page, gate) ==
    {e \in Quiet(page, gate) : e \in Core /\ GameOf[e] \notin AdmittedAfter(page, gate) \cup {NoGame}}
Passing(page, gate) == (Groups(page) \ Quiet(page, gate)) \cup LetIn(page, gate)

\* Mutant: only new contracts make a message, not changed ones.
NewOnly(page, gate) ==
    {e \in Passing(page, gate) : \E c \in Group(page, e) : loaded[c] = None}

NewOrChanged(page, gate) ==
    {e \in Passing(page, gate) : \E c \in Group(page, e) : loaded[c] # page[c]}

\* The groups that go out: all of them, or as many as the cycle may still send.
Capped(groups, remaining) ==
    IF Cardinality(groups) <= remaining THEN {groups}
    ELSE {S \in SUBSET groups : Cardinality(S) = remaining}

\* Mutants: a capped group's new hashes are kept, or none of its hashes is.
UpdatedThoughCapped(page, gate, out) ==
    [c \in Contract |->
        IF c \in Listed(page) /\ EventOf[c] \in Passing(page, gate) THEN page[c] ELSE None]
UpdatedOnlySent(page, gate, out) ==
    [c \in Contract |->
        IF c \in Listed(page) /\ EventOf[c] \in out THEN page[c] ELSE None]

\* The hash each passing contract keeps: new if its group goes out, else the known one.
UpdatedHashes(page, gate, out) ==
    [c \in Contract |->
        IF c \in Listed(page) /\ EventOf[c] \in Passing(page, gate)
        THEN IF EventOf[c] \in out THEN page[c] ELSE loaded[c]
        ELSE None]

-----------------------------------------------------------------------------
(* sqs_send_batch: SQS accepts every message, or some and the call raises. *)

Deliver(page, out) ==
    delivered' = delivered \cup {<<c, page[c]>> : c \in {d \in Listed(page) : EventOf[d] \in out}}

FaultLog == [count : 0..MaxFaults, kinds : SUBSET Faults]

Fault(kind) ==
    /\ kind \in Faults
    /\ faults.count < MaxFaults
    /\ faults' = [count |-> faults.count + 1, kinds |-> faults.kinds \cup {kind}]

\* The locals of the adapter loop go out of scope.
LeaveExchange ==
    /\ pc' = "cycle"
    /\ exchange' = None
    /\ hashes' = NoHashes
    /\ unread' = {}
    /\ admitted' = {}
    /\ held' = NoHashes
    /\ gated' = gated \ EventsOf(exchange)

\* Mutant: the hashes of a failed exchange replace all its old ones.
CommitPartialExchange ==
    /\ merged' = [c \in Contract |->
                     IF ExchangeOf[EventOf[c]] = exchange THEN hashes[c] ELSE merged[c]]
    /\ LeaveExchange

\* The except clause of the adapter loop: what was committed page by page is kept.
DropExchange ==
    /\ merged' = Update(merged, hashes)
    /\ LeaveExchange

-----------------------------------------------------------------------------
Init ==
    /\ feed \in Hashes
    /\ loud \in SUBSET Event
    /\ known = NoHashes
    /\ pc = "idle"
    /\ loaded = NoHashes /\ merged = NoHashes /\ hashes = NoHashes
    /\ pending = {} /\ exchange = None /\ unread = {}
    /\ admitted = {} /\ held = NoHashes
    /\ sent = 0
    /\ leftFeed = {} /\ seen = {} /\ gated = {}
    /\ delivered = {}
    /\ faults = [count |-> 0, kinds |-> {}] /\ changes = 0

\* A venue lists, changes or stops listing a contract.
VenueChanges(c, v) ==
    /\ changes < MaxChanges
    /\ feed[c] # v
    /\ feed' = [feed EXCEPT ![c] = v]
    /\ changes' = changes + 1
    /\ UNCHANGED <<loud, known, pc, pageVars, cycleVars, delivered, faults>>

\* An event's 24h volume crosses its threshold.
VolumeCrosses(e) ==
    /\ changes < MaxChanges
    /\ loud' = IF e \in loud THEN loud \ {e} ELSE loud \cup {e}
    /\ changes' = changes + 1
    /\ UNCHANGED <<feed, known, pc, pageVars, cycleVars, delivered, faults>>

\* The cycle starts from the saved hashes, or from none when Redis cannot be read.
StartCycle ==
    /\ pc = "idle"
    /\ \/ loaded' = known /\ UNCHANGED faults
       \/ loaded' = NoHashes /\ Fault("load")
    /\ merged' = loaded'
    /\ pending' = Exchange
    /\ pc' = "cycle"
    /\ sent' = 0
    /\ leftFeed' = {} /\ seen' = {} /\ gated' = {}
    /\ UNCHANGED <<venueVars, known, pageVars, delivered>>

\* The next adapter of the loop, in any order.
StartExchange(x) ==
    /\ pc = "cycle"
    /\ x \in pending
    /\ pending' = pending \ {x}
    /\ exchange' = x
    /\ unread' = EventsOf(x)
    /\ hashes' = NoHashes
    /\ admitted' = {} /\ held' = NoHashes
    /\ pc' = "paging"
    /\ UNCHANGED <<venueVars, known, loaded, merged, sent, leftFeed, seen, gated,
                   delivered, faults>>

\* One page, its groups sent and then committed to exchange_hashes.
ReadPage(events) ==
    LET page == [c \in Contract |-> IF EventOf[c] \in events THEN feed[c] ELSE None] IN
    /\ pc = "paging"
    /\ events # {} /\ events \subseteq unread
    /\ unread' = unread \ events
    /\ seen' = seen \cup Listed(page)
    /\ admitted' = AdmittedAfter(page, TRUE)
    /\ held' = [c \in Contract |->
                  IF c \in Listed(page) /\ EventOf[c] \in Held(page, TRUE) THEN page[c] ELSE held[c]]
    /\ gated' = gated \cup (Groups(page) \ Passing(page, TRUE))
    /\ \E out \in Capped(NewOrChanged(page, TRUE), MaxMessages - sent) :
          /\ Deliver(page, out)
          /\ sent' = sent + Cardinality(out)
          /\ hashes' = Update(hashes, UpdatedHashes(page, TRUE, out))
    /\ UNCHANGED <<venueVars, known, pc, loaded, merged, pending, exchange, leftFeed, faults>>

\* A page whose send fails part way: some groups are on the queue, none is committed.
SendFails(events) ==
    LET page == [c \in Contract |-> IF EventOf[c] \in events THEN feed[c] ELSE None] IN
    /\ pc = "paging"
    /\ events # {} /\ events \subseteq unread
    /\ Fault("send")
    /\ seen' = seen \cup Listed(page)
    /\ \E out \in Capped(NewOrChanged(page, TRUE), MaxMessages - sent) :
          \E accepted \in SUBSET out : accepted # out /\ Deliver(page, accepted)
    /\ DropExchange
    /\ UNCHANGED <<venueVars, known, loaded, pending, sent, leftFeed>>

\* The adapter raises on an API error instead of yielding the next page.
VenueFails ==
    /\ pc = "paging"
    /\ Fault("venue")
    /\ DropExchange
    /\ UNCHANGED <<venueVars, known, loaded, pending, sent, leftFeed, seen, delivered>>

\* Mutant: held core markets are never released.
NothingReleased == NoHashes

Released ==
    [c \in Contract |-> IF GameOf[EventOf[c]] \in admitted THEN held[c] ELSE None]

\* After the last page the held core markets of the games let in are sent, and the
\* exchange's hashes replace its old ones; the known contracts without one left the feed.
FinishExchange ==
    /\ pc = "paging"
    /\ unread = {}
    /\ \E out \in Capped(NewOrChanged(Released, FALSE), MaxMessages - sent) :
          LET final == Update(hashes, UpdatedHashes(Released, FALSE, out))
              own   == {c \in Contract : ExchangeOf[EventOf[c]] = exchange}
          IN  /\ Deliver(Released, out)
              /\ sent' = sent + Cardinality(out)
              /\ leftFeed' = leftFeed \cup {c \in own : loaded[c] # None /\ final[c] = None}
              /\ merged' = [c \in Contract |-> IF c \in own THEN final[c] ELSE merged[c]]
    /\ gated' = gated \ Groups(Released)
    /\ pc' = "cycle"
    /\ exchange' = None
    /\ hashes' = NoHashes
    /\ admitted' = {} /\ held' = NoHashes
    /\ UNCHANGED <<venueVars, known, loaded, pending, unread, seen, faults>>

ReleaseSendFails ==
    /\ pc = "paging"
    /\ unread = {}
    /\ Fault("send")
    /\ \E out \in Capped(NewOrChanged(Released, FALSE), MaxMessages - sent) :
          \E accepted \in SUBSET out : accepted # out /\ Deliver(Released, accepted)
    /\ DropExchange
    /\ UNCHANGED <<venueVars, known, loaded, pending, sent, leftFeed, seen>>

\* The merged hashes are saved; a failed save is logged and the cycle ends all the same.
FinishCycle ==
    /\ pc = "cycle"
    /\ pending = {}
    /\ \/ known' = merged /\ UNCHANGED faults
       \/ UNCHANGED known /\ Fault("save")
    /\ pc' = "idle"
    /\ UNCHANGED <<venueVars, pageVars, cycleVars, delivered>>

\* The process dies in mid-cycle: only Redis and the queue survive.
Crash ==
    /\ pc # "idle"
    /\ Fault("crash")
    /\ pc' = "idle"
    /\ loaded' = NoHashes /\ merged' = NoHashes /\ hashes' = NoHashes
    /\ pending' = {} /\ exchange' = None /\ unread' = {}
    /\ admitted' = {} /\ held' = NoHashes
    /\ sent' = 0
    /\ leftFeed' = {} /\ seen' = {} /\ gated' = {}
    /\ UNCHANGED <<venueVars, known, delivered>>

Runner ==
    \/ StartCycle
    \/ \E x \in Exchange : StartExchange(x)
    \/ \E events \in SUBSET Event : ReadPage(events)
    \/ FinishExchange
    \/ FinishCycle

Next ==
    \/ \E c \in Contract, v \in Version \cup {None} : VenueChanges(c, v)
    \/ \E e \in Event : VolumeCrosses(e)
    \/ Runner
    \/ \E events \in SUBSET Event : SendFails(events)
    \/ VenueFails
    \/ ReleaseSendFails
    \/ Crash

Spec == Init /\ [][Next]_vars

\* The runner's loop never stops of itself: run() catches what a cycle raises.
FairSpec == Spec /\ WF_vars(Runner)

-----------------------------------------------------------------------------
(* Properties *)

TypeOK ==
    /\ feed \in Hashes /\ known \in Hashes /\ loaded \in Hashes
    /\ merged \in Hashes /\ hashes \in Hashes /\ held \in Hashes
    /\ loud \subseteq Event /\ unread \subseteq Event /\ gated \subseteq Event
    /\ pc \in {"idle", "cycle", "paging"}
    /\ pending \subseteq Exchange
    /\ exchange \in Exchange \cup {None}
    /\ admitted \subseteq Game
    /\ leftFeed \subseteq Contract /\ seen \subseteq Contract
    /\ delivered \subseteq Contract \X Version
    /\ sent \in Nat
    /\ faults \in FaultLog /\ changes \in 0..MaxChanges

\* No hash is ever kept for a version of a contract that was not first put on the
\* contracts queue: not in Redis, nor in the dicts that get there at the end of a cycle.
\* Whatever page, send, load or save fails, and wherever the process dies, a change the
\* normalize worker has not been sent still differs from the saved hash (diff_contracts'
\* updated_hashes, and the order of send and update in _run_fetch).
OnlySent(dict) == \A c \in Contract : dict[c] # None => <<c, dict[c]>> \in delivered
KnownWasSent ==
    OnlySent(known) /\ OnlySent(loaded) /\ OnlySent(merged) /\ OnlySent(hashes)

\* What check_closures is given as having left the feed was on none of the pages this
\* cycle read: neither the volume gate, nor the message cap, nor an exchange that failed
\* makes a listed contract look gone.
LeftFeedIsGone == leftFeed \cap seen = {}

\* Why it holds, as an inductive invariant.  Contracts read belong to exchanges already
\* started, contracts that left the feed to exchanges already finished, and a contract of
\* the exchange being paged that was known and read has its hash again.
ExchangeIs(c) == ExchangeOf[EventOf[c]]
ReadOnce ==
    /\ pc = "paging" => exchange \notin pending /\ unread \subseteq EventsOf(exchange)
    /\ \A c \in seen \cup leftFeed : ExchangeIs(c) \notin pending
KnownReadAgain ==
    pc = "paging" =>
        /\ \A c \in seen : ExchangeIs(c) = exchange /\ loaded[c] # None => hashes[c] # None
        /\ \A c \in leftFeed : ExchangeIs(c) # exchange
LeftFeedInv == LeftFeedIsGone /\ ReadOnce /\ KnownReadAgain

\* A contract the cycle knew of keeps a hash until it is found to have left its feed.
MergedKeeps == \A c \in Contract : loaded[c] # None /\ merged[c] = None => c \in leftFeed

\* The fetch cycle keeps its hashes as Outbox says: every hash it saves, in whatever order its
\* exchanges fail, was sent first, and one is dropped only for a contract the closure check is told
\* about, or when the cycle could not read the saved hashes to begin with.
Log == INSTANCE Outbox WITH
           saved <- known, excused <- {c \in Contract : c \in leftFeed \/ loaded[c] = None}
KeepsOutbox == Log!Spec

\* Once an exchange is read to the end, none of a game's core markets was gated out while
\* another event of that game on the exchange passed (GameCore's promise).
GameTogether ==
    pc # "paging" =>
        \A e \in gated \cap Core, c \in seen :
            LET d == EventOf[c] IN
            GameOf[d] = GameOf[e] /\ GameOf[d] # NoGame /\ ExchangeOf[d] = ExchangeOf[e]
                => d \in gated

\* When feeds and faults come to rest, the saved hashes follow the feed: every contract
\* of an event above its threshold ends up sent as the venue lists it, whatever the cap,
\* and no other contract is left with an outdated hash.
EventuallyCurrent ==
    \A c \in Contract :
        <>[](known[c] = feed[c] \/ (EventOf[c] \notin loud /\ known[c] = None))
=============================================================================
