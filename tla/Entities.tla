------------------------------ MODULE Entities ------------------------------
(***************************************************************************)
(* How the NormalizeWorker makes events, securities, listings, event       *)
(* contracts and sources of the contract messages it takes in batches, and *)
(* announces the new securities: each request of create_entities is a step *)
(* of its own, after any of which the batch can fail, the process die, or  *)
(* the queue deliver a message again, late or out of order.                *)
(*                                                                         *)
(* A market is a listing key; markets are numbers, in the order the venue  *)
(* lists them.  An event's id is the event itself, a security's id a       *)
(* number.  A name is a market's symbol, outcome label, listing name and   *)
(* source at once.  Bulk requests carry one row each, so that a batch can  *)
(* stop between any two rows.  Turning off the securities whose listings   *)
(* a reconciliation closed is modelled in Lifecycle, with closing and      *)
(* reopening by others; specs and fee keys of listings decide nothing here.*)
(***************************************************************************)
EXTENDS Naturals, FiniteSets, Functions

CONSTANTS
    None,
    Markets,         \* keys of listings, numbered
    Events,          \* native events of the venue
    Names,
    NamesOf,         \* [market -> names its venue gives it]
    EventsOf,        \* [market -> events its adapter maps it to]
    Shared,          \* markets that share a security made before identity was one per listing
    MaxReceives,     \* the queue's maxReceiveCount
    MaxBatch,        \* messages of one batch
    MaxMessages,     \* bound: messages the fetch worker sends
    MaxFailures,     \* bound: batches cut off, messages delivered again after they were processed
    MaxSecurities    \* bound: securities created

ASSUME EntitiesAssumption ==
    /\ Markets \subseteq Nat /\ Shared \subseteq Markets
    /\ None \notin Names /\ None \notin [security : 1..MaxSecurities, name : Names, active : BOOLEAN]
    /\ NamesOf \in [Markets -> SUBSET Names] /\ EventsOf \in [Markets -> SUBSET Events]
    /\ MaxReceives \in Nat \ {0} /\ MaxBatch \in Nat \ {0} /\ MaxSecurities \in Nat \ {0} /\ MaxFailures \in Nat

VARIABLES
    venue,           \* [market -> its contract at the venue: event and name, or None]
    queue,           \* messages of the contracts queue
    dead,            \* messages of its dead-letter queue
    events,          \* events of the registry
    symbol,          \* [security -> its symbol, or None before it is created]
    listing,         \* [market -> its listing: security, name and whether active, or None]
    links,           \* [security -> its event contracts]
    source,          \* [security -> its contract source: market and name, or None]
    announced,       \* securities sent to the relationships worker
    step,            \* what the worker does next
    batch,           \* messages it has received
    contracts,       \* [market -> contract], the batch's unique contracts
    known,           \* events of the batch that existed when it was read
    secOf,           \* [market -> security]: security_id_by_key
    fresh,           \* securities made or taken over for new listings
    clashed,         \* a batch failed because a new security's symbol was taken (history)
    sent, failures

registry == <<events, symbol, listing, links, source>>
worker   == <<step, batch, contracts, known, secOf, fresh>>
queues   == <<queue, dead, announced>>
counts   == <<clashed, sent, failures>>
vars     == <<venue, queue, dead, events, symbol, listing, links, source, announced,
              step, batch, contracts, known, secOf, fresh, clashed, sent, failures>>

Ids == 1..MaxSecurities

Empty == [m \in {} |-> None]

First(S) == CHOOSE m \in S : \A n \in S : m <= n

-----------------------------------------------------------------------------
(* What the registry is asked *)

Listed == {m \in Markets : listing[m] # None}

Held(s) == {m \in Listed : listing[m].security = s}

OpenListings(s) == {m \in Held(s) : listing[m].active}

Created == {s \in Ids : symbol[s] # None}

\* Securities of this symbol that have no listing.
Orphans(name) == {s \in Created : symbol[s] = name /\ Held(s) = {}}

Several == {s \in Created : Cardinality(OpenListings(s)) > 1}

LinkedTo(s) == {l.event : l \in links[s]}

-----------------------------------------------------------------------------
(* What a batch asks for *)

BatchEvents == {contracts[m].event : m \in DOMAIN contracts} \cup {msg.event : msg \in batch}

Unlisted == DOMAIN contracts \ Listed

\* Mutant of TakesOver: each contract of the symbol takes it.
AnyTakesOver(m) == m \in Unlisted

\* The contract whose turn it is to take over a security left without a listing: the first of its symbol.
TakesOver(m) == \A n \in Unlisted : contracts[n].name = contracts[m].name => m <= n

Pending == DOMAIN contracts \ DOMAIN secOf

Wanted == {secOf[m] : m \in DOMAIN contracts}

\* The contract a security's link is made from: the first of those that share it.
Speaker(s) == First({m \in DOMAIN contracts : secOf[m] = s})

\* Mutant of Unlinked: only securities new in this attempt are linked.
UnlinkedFresh == {s \in Wanted \cap fresh : links[s] = {}}

\* An event contract is made for a security that has none; one of another event is left alone.
Unlinked == {s \in Wanted : links[s] = {}}

\* The name all contracts of a security agree on, unless it is several markets.
WantedNames(s) == {contracts[m].name : m \in {n \in DOMAIN contracts : secOf[n] = s}}

Changed(s) ==
    /\ s \in Wanted \ Several
    /\ Cardinality(WantedNames(s)) = 1
    /\ symbol[s] \notin WantedNames(s)

NewSymbol(s) == CHOOSE name \in WantedNames(s) : TRUE

\* Mutant of Renamed: only renames of this batch are compared.
RenamedUnlessTwice ==
    {s \in Wanted : Changed(s) /\ \A t \in Wanted \ {s} : Changed(t) => NewSymbol(t) # NewSymbol(s)}

\* A rename onto a symbol another security holds or is renamed to is skipped.
Renamed ==
    {s \in Wanted :
        /\ Changed(s)
        /\ \A t \in Created \ {s} : symbol[t] # NewSymbol(s)
        /\ \A t \in Wanted \ {s} : Changed(t) => NewSymbol(t) # NewSymbol(s)}

\* One source for a security of one market; none, and the stored one removed, for a security that may be several.
SourceFor(s) ==
    IF s \notin Several /\ Cardinality({m \in DOMAIN contracts : secOf[m] = s}) = 1
    THEN [market |-> Speaker(s), name |-> contracts[Speaker(s)].name] ELSE None

\* Active listings of the events that existed before, which the batch does not carry.
Stale == {m \in Listed \ DOMAIN contracts : listing[m].active /\ LinkedTo(listing[m].security) \cap known # {}}

-----------------------------------------------------------------------------
(* The fetch worker and the queue *)

\* The event's contracts change at the venue, and a message with all of them is sent.
Fetched ==
    /\ sent < MaxMessages
    /\ \E e \in Events : \E group \in (SUBSET {m \in Markets : e \in EventsOf[m]}) \ {{}} :
       \E names \in [group -> Names] :
        /\ \A m \in group : names[m] \in NamesOf[m]
        /\ venue' = [m \in Markets |->
                        IF m \in group THEN [event |-> e, name |-> names[m]]
                        ELSE IF venue[m] # None /\ venue[m].event = e THEN None ELSE venue[m]]
        /\ queue' = queue \cup {[event |-> e, names |-> names, receives |-> 0]}
    /\ sent' = sent + 1
    /\ UNCHANGED <<registry, worker, dead, announced, clashed, failures>>

\* The contracts of messages of these ages: of several with one key, the one received last stays.
UniqueContracts(messages, age) ==
    [m \in UNION {DOMAIN msg.names : msg \in messages} |->
        LET carriers == {msg \in messages : m \in DOMAIN msg.names}
            last     == CHOOSE msg \in carriers : \A other \in carriers : age[msg] <= age[other]
        IN  [event |-> last.event, name |-> last.names[m]]]

Collect ==
    /\ step = "idle"
    /\ \E received \in (SUBSET queue) \ {{}} :
        /\ Cardinality(received) <= MaxBatch
        /\ batch' = {[msg EXCEPT !.receives = @ + 1] : msg \in received}
        /\ \E age \in Injection(batch', 1..MaxBatch) : contracts' = UniqueContracts(batch', age)
        /\ queue' = (queue \ received) \cup batch'
        /\ known' = {msg.event : msg \in received} \cap events
    /\ step' = "events"
    /\ UNCHANGED <<venue, registry, dead, announced, secOf, fresh, counts>>

\* A message received as often as the queue allows goes to the dead-letter queue instead of being received again.
Abandon ==
    LET spent == {msg \in batch : msg.receives >= MaxReceives}
    IN  /\ queue' = queue \ spent
        /\ dead' = dead \cup spent
        /\ step' = "idle"
        /\ batch' = {} /\ contracts' = Empty /\ known' = {} /\ secOf' = Empty /\ fresh' = {}

-----------------------------------------------------------------------------
(* create_entities *)

CreateEvent ==
    /\ step = "events"
    /\ \E e \in BatchEvents \ events : events' = events \cup {e}
    /\ UNCHANGED <<venue, symbol, listing, links, source, worker, queues, counts>>

\* Existing listings are read, and the securities left over by an earlier attempt taken over.
ReadListings ==
    /\ step = "events" /\ BatchEvents \subseteq events
    /\ LET taken == {m \in Unlisted : TakesOver(m) /\ Orphans(contracts[m].name) # {}}
       IN  /\ secOf' = [m \in (DOMAIN contracts \cap Listed) \cup taken |->
                            IF m \in taken THEN First(Orphans(contracts[m].name)) ELSE listing[m].security]
           /\ fresh' = {First(Orphans(contracts[m].name)) : m \in taken}
    /\ step' = "securities"
    /\ UNCHANGED <<venue, registry, queues, batch, contracts, known, counts>>

CreateSecurity ==
    /\ step = "securities" /\ Pending # {}
    /\ LET m == First(Pending)
           s == First(Ids \ Created)
       IN  /\ \A t \in Created : symbol[t] # contracts[m].name
           /\ Ids # Created
           /\ symbol' = [symbol EXCEPT ![s] = contracts[m].name]
           /\ secOf' = [n \in DOMAIN secOf \cup {m} |-> IF n = m THEN s ELSE secOf[n]]
           /\ fresh' = fresh \cup {s}
    /\ UNCHANGED <<venue, events, listing, links, source, queues, step, batch, contracts, known, counts>>

\* The symbol is taken: the registry refuses the row and the batch fails.
SymbolClash ==
    /\ step = "securities" /\ Pending # {}
    /\ \E t \in Created : symbol[t] = contracts[First(Pending)].name
    /\ clashed' = TRUE
    /\ Abandon
    /\ UNCHANGED <<venue, registry, announced, sent, failures>>

SecuritiesDone ==
    /\ step = "securities" /\ Pending = {}
    /\ step' = "listings"
    /\ UNCHANGED <<venue, registry, queues, batch, contracts, known, secOf, fresh, counts>>

CreateListing ==
    /\ step = "listings" /\ Unlisted # {}
    /\ LET m == First(Unlisted)
       IN  listing' = [listing EXCEPT ![m] = [security |-> secOf[m], name |-> contracts[m].name, active |-> TRUE]]
    /\ UNCHANGED <<venue, events, symbol, links, source, worker, queues, counts>>

ListingsDone ==
    /\ step = "listings" /\ Unlisted = {}
    /\ step' = "links"
    /\ UNCHANGED <<venue, registry, queues, batch, contracts, known, secOf, fresh, counts>>

CreateEventContract ==
    /\ step = "links" /\ Unlinked # {}
    /\ LET s == First(Unlinked)
       IN  links' = [links EXCEPT ![s] = @ \cup
                        {[event |-> contracts[Speaker(s)].event, label |-> contracts[Speaker(s)].name]}]
    /\ UNCHANGED <<venue, events, symbol, listing, source, worker, queues, counts>>

\* Labels follow the venue, for a link to the event the contract is of.
RenameLabels ==
    /\ step = "links" /\ Unlinked = {}
    /\ links' = [s \in Ids |->
                    IF s \notin Wanted THEN links[s]
                    ELSE {IF l.event = contracts[Speaker(s)].event THEN [l EXCEPT !.label = contracts[Speaker(s)].name] ELSE l :
                            l \in links[s]}]
    /\ step' = "symbols"
    /\ UNCHANGED <<venue, events, symbol, listing, source, queues, batch, contracts, known, secOf, fresh, counts>>

SymbolsAfter == [s \in Ids |-> IF s \in Renamed THEN NewSymbol(s) ELSE symbol[s]]

\* One patch for all symbols, which the registry refuses if two securities would share one.
SymbolsDistinct == \A s, t \in Created : s # t => SymbolsAfter[s] # SymbolsAfter[t]

RenameSecurities ==
    /\ step = "symbols"
    /\ IF SymbolsDistinct
       THEN /\ symbol' = SymbolsAfter
            /\ step' = "names"
            /\ UNCHANGED <<queue, dead, batch, contracts, known, secOf, fresh>>
       ELSE Abandon /\ UNCHANGED symbol
    /\ UNCHANGED <<venue, events, listing, links, source, announced, counts>>

RenameListings ==
    /\ step = "names"
    /\ listing' = [m \in Markets |->
                    IF m \in DOMAIN contracts THEN [listing[m] EXCEPT !.name = contracts[m].name] ELSE listing[m]]
    /\ step' = "sources"
    /\ UNCHANGED <<venue, events, symbol, links, source, queues, batch, contracts, known, secOf, fresh, counts>>

SyncSources ==
    /\ step = "sources"
    /\ source' = [s \in Ids |-> IF s \in Wanted THEN SourceFor(s) ELSE source[s]]
    /\ step' = "reconcile"
    /\ UNCHANGED <<venue, events, symbol, listing, links, queues, batch, contracts, known, secOf, fresh, counts>>

Reconcile ==
    /\ step = "reconcile"
    /\ listing' = [m \in Markets |-> IF m \in Stale THEN [listing[m] EXCEPT !.active = FALSE] ELSE listing[m]]
    /\ step' = "announce"
    /\ UNCHANGED <<venue, events, symbol, links, source, queues, batch, contracts, known, secOf, fresh, counts>>

-----------------------------------------------------------------------------
(* The rest of a batch, and what can go wrong *)

Announce ==
    /\ step = "announce"
    /\ announced' = announced \cup fresh
    /\ step' = "delete"
    /\ UNCHANGED <<venue, registry, queue, dead, batch, contracts, known, secOf, fresh, counts>>

\* Those whose deletion fails are delivered again, unless they are spent.
Delete ==
    /\ step = "delete"
    /\ \E left \in SUBSET batch :
        LET spent == {msg \in left : msg.receives >= MaxReceives}
        IN  /\ left # {} => failures < MaxFailures
            /\ failures' = IF left = {} THEN failures ELSE failures + 1
            /\ queue' = queue \ ((batch \ left) \cup spent)
            /\ dead' = dead \cup spent
    /\ step' = "idle"
    /\ batch' = {} /\ contracts' = Empty /\ known' = {} /\ secOf' = Empty /\ fresh' = {}
    /\ UNCHANGED <<venue, registry, announced, clashed, sent>>

\* A request fails or the process dies; the announcements of a failed send may have gone out.
Fails ==
    /\ step # "idle"
    /\ failures < MaxFailures
    /\ failures' = failures + 1
    /\ \E out \in SUBSET (IF step = "announce" THEN fresh ELSE {}) : announced' = announced \cup out
    /\ Abandon
    /\ UNCHANGED <<venue, registry, clashed, sent>>

-----------------------------------------------------------------------------

\* At first nothing is known, or a security holds the listings of several markets, with a source of one of them.
Init ==
    /\ venue = [m \in Markets |-> None]
    /\ queue = {} /\ dead = {} /\ announced = {}
    /\ step = "idle" /\ batch = {} /\ contracts = Empty /\ known = {} /\ secOf = Empty /\ fresh = {}
    /\ clashed = FALSE /\ sent = 0 /\ failures = 0
    /\ \/ /\ events = {}
          /\ symbol = [s \in Ids |-> None] /\ listing = [m \in Markets |-> None]
          /\ links = [s \in Ids |-> {}] /\ source = [s \in Ids |-> None]
       \/ \E m \in Shared : \E e \in EventsOf[m] : \E name \in NamesOf[m] :
          /\ events = {e}
          /\ symbol = [s \in Ids |-> IF s = 1 THEN name ELSE None]
          /\ listing = [n \in Markets |-> IF n \in Shared THEN [security |-> 1, name |-> name, active |-> TRUE] ELSE None]
          /\ links = [s \in Ids |-> IF s = 1 THEN {[event |-> e, label |-> name]} ELSE {}]
          /\ source = [s \in Ids |-> IF s = 1 THEN [market |-> m, name |-> name] ELSE None]

CreateEntities ==
    \/ CreateEvent \/ ReadListings
    \/ CreateSecurity \/ SymbolClash \/ SecuritiesDone
    \/ CreateListing \/ ListingsDone
    \/ CreateEventContract \/ RenameLabels
    \/ RenameSecurities \/ RenameListings
    \/ SyncSources \/ Reconcile

Worker == Collect \/ CreateEntities \/ Announce \/ Delete

Next == Fetched \/ Worker \/ Fails

Spec == Init /\ [][Next]_vars

\* The worker runs on; the queue delivers every message in the end.
FairSpec ==
    /\ Spec
    /\ WF_vars(Worker)
    /\ \A e \in Events : SF_vars(Collect /\ \E msg \in batch' : msg.event = e)

-----------------------------------------------------------------------------
(* Properties *)

\* Two markets never come to share a security, not by their names, not by a retry that takes over what a failed batch
\* left: a new listing is of a security that has none (_create_securities).
OneMarketEach ==
    [][\A m \in Markets : listing[m] = None /\ listing'[m] # None =>
            \A n \in Listed : listing[n].security # listing'[m].security]_vars

\* A listing whose security has no event contract was left by a batch that failed, and a message that completes it is
\* still in the queue, unless one was given up: a retry goes on where the last attempt stopped (create_entities).
HalfMadeIsRetried ==
    \A m \in Listed :
        links[listing[m].security] = {} => \E msg \in queue \cup dead : m \in DOMAIN msg.names

\* With fewer failures than receives, a message is only given up because a new security's symbol is taken: a rename
\* never fails a batch (_symbol_renames).
NotGivenUp == dead # {} => clashed

\* A market that a message carries gets its listing and its event contract in the end, whatever batch fails, unless
\* symbols clash.
QueuedGetsListed ==
    \A m \in Markets :
        (\E msg \in queue : m \in DOMAIN msg.names) ~> (clashed \/ (m \in Listed /\ links[listing[m].security] # {}))
=============================================================================
