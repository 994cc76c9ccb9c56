-------------------------- MODULE Entities_proofs --------------------------
(***************************************************************************)
(* Proofs about Entities, for every set of markets, events and names, and  *)
(* every batch size: that two markets never come to share a security, that *)
(* what a failed batch left half made is retried, and that a message is    *)
(* given up only for a symbol that is taken.                               *)
(***************************************************************************)
EXTENDS Entities, WellFoundedInduction, TLAPS

-----------------------------------------------------------------------------
(* Type correctness.                                                       *)

Steps == {"idle", "events", "securities", "listings", "links", "symbols", "names", "sources", "reconcile",
          "announce", "delete"}

MessageTyped(msg) ==
    /\ msg = [event |-> msg.event, names |-> msg.names, receives |-> msg.receives]
    /\ DOMAIN msg.names \subseteq Markets
    /\ \A m \in DOMAIN msg.names : msg.names[m] \in Names
    /\ msg.receives \in Nat

RegistryTyped ==
    /\ symbol \in [Ids -> Names \cup {None}]
    /\ listing \in [Markets -> [security : Ids, name : Names, active : BOOLEAN] \cup {None}]
    /\ \A m \in Listed : listing[m].security \in Created
    /\ links = [s \in Ids |-> links[s]]

BatchTyped ==
    /\ step \in Steps
    /\ \A msg \in queue \cup batch : MessageTyped(msg)
    /\ DOMAIN contracts = UNION {DOMAIN msg.names : msg \in batch}
    /\ \A m \in DOMAIN contracts : contracts[m].name \in Names
    /\ secOf = [m \in DOMAIN secOf |-> secOf[m]] /\ DOMAIN secOf \subseteq DOMAIN contracts
    /\ \A m \in DOMAIN secOf : secOf[m] \in Created
    /\ step = "idle" => batch = {}
    /\ step \notin {"idle", "events"} => DOMAIN contracts \cap Listed \subseteq DOMAIN secOf
    /\ step \notin {"idle", "events", "securities"} => DOMAIN secOf = DOMAIN contracts
    /\ step \notin {"idle", "events", "securities", "listings"} => DOMAIN contracts \subseteq Listed

\* A market of the batch that has a listing has the listing's security.
SecuritiesOfListings == \A m \in DOMAIN secOf \cap Listed : listing[m].security = secOf[m]

TypeOK == RegistryTyped /\ BatchTyped /\ SecuritiesOfListings

\* A set of numbers that is not empty has a first.
LEMMA FirstOf ==
    ASSUME NEW S \in SUBSET Nat, S # {}
    PROVE  First(S) \in S /\ \A n \in S : First(S) <= n
<1> DEFINE below == {ss \in Nat \X Nat : ss[1] < ss[2]}
<1>1. IsWellFoundedOn(below, Nat)
    BY NatLessThanWellFounded DEF OpToRel
<1>2. PICK m \in S : \A n \in S : <<n, m>> \notin below
    <2> HIDE DEF below
    <2> QED BY <1>1, WFMin
<1>3. ASSUME NEW n \in S PROVE m <= n
    <2>1. n \in Nat /\ m \in Nat
        OBVIOUS
    <2>2. n < m => <<n, m>> \in below
        BY <2>1
    <2> HIDE DEF below
    <2>3. ~(n < m)
        BY <1>2, <2>2
    <2> QED BY <2>1, <2>3
<1> QED BY <1>3 DEF First

\* The contract of a market is the one of a message that carries it.
LEMMA UniqueOf ==
    ASSUME NEW messages, NEW n \in Nat, NEW age \in Injection(messages, 1..n),
           NEW carrier \in messages, NEW m \in DOMAIN carrier.names
    PROVE  \E msg \in messages : /\ m \in DOMAIN msg.names
                                 /\ UniqueContracts(messages, age)[m] = [event |-> msg.event, name |-> msg.names[m]]
<1> DEFINE carriers == {msg \in messages : m \in DOMAIN msg.names}
           ages     == {age[msg] : msg \in carriers}
<1>1. age \in [messages -> 1..n]
    BY DEF Injection, IsInjective
<1>2. ages \in SUBSET Nat /\ ages # {}
    BY <1>1
<1>3. PICK msg \in carriers : age[msg] = First(ages)
    BY <1>2, FirstOf
<1>4. ASSUME NEW other \in carriers PROVE age[msg] <= age[other]
    <2>1. age[other] \in ages
        BY <1>4
    <2>2. \A a \in ages : First(ages) <= a
        <3> HIDE DEF ages
        <3> QED BY <1>2, FirstOf
    <2> QED BY <1>3, <2>1, <2>2
<1>5. LET last == CHOOSE x \in carriers : \A other \in carriers : age[x] <= age[other]
      IN  last \in carriers /\ UniqueContracts(messages, age)[m] = [event |-> last.event, name |-> last.names[m]]
    BY <1>4 DEF UniqueContracts
<1> QED BY <1>5

\* Securities are numbers.
LEMMA IdsAreNumbers == Ids \subseteq Nat /\ Created \subseteq Ids /\ Markets \subseteq Nat
BY EntitiesAssumption DEF Ids, Created

\* A batch that ends, however it does, leaves nothing at hand.
LEMMA BatchEnds ==
    ASSUME TypeOK, queue' \subseteq queue,
           step' = "idle", batch' = {}, contracts' = Empty, secOf' = Empty
    PROVE  BatchTyped' /\ SecuritiesOfListings'
<1>1. DOMAIN contracts' = {} /\ DOMAIN secOf' = {} /\ secOf' = [m \in DOMAIN secOf' |-> secOf'[m]]
    BY DEF Empty
<1>2. UNION {DOMAIN msg.names : msg \in batch'} = {}
    OBVIOUS
<1>3. \A msg \in queue' \cup batch' : MessageTyped(msg)
    BY DEF TypeOK, BatchTyped
<1>4. \A msg : MessageTyped(msg)' = MessageTyped(msg)
    BY DEF MessageTyped
<1> QED BY <1>1, <1>2, <1>3, <1>4 DEF BatchTyped, Steps, SecuritiesOfListings

\* What a batch has at hand stays typed while it only goes on.
LEMMA BatchGoesOn ==
    ASSUME TypeOK, UNCHANGED <<queue, batch, contracts>>, step' \in Steps \ {"idle"},
           Created \subseteq Created', Listed \subseteq Listed',
           secOf' = [m \in DOMAIN secOf' |-> secOf'[m]], DOMAIN secOf' \subseteq DOMAIN contracts,
           \A m \in DOMAIN secOf' : secOf'[m] \in Created',
           step' # "events" => DOMAIN contracts \cap Listed' \subseteq DOMAIN secOf',
           step' \notin {"events", "securities"} => DOMAIN secOf' = DOMAIN contracts,
           step' \notin {"events", "securities", "listings"} => DOMAIN contracts \subseteq Listed'
    PROVE  BatchTyped'
BY DEF TypeOK, BatchTyped, MessageTyped

\* The fetch worker's message is typed.
LEMMA FetchedTypeOK == TypeOK /\ Fetched => TypeOK'
<1> SUFFICES ASSUME TypeOK, Fetched PROVE TypeOK'
    OBVIOUS
<1>1. PICK e \in Events : \E group \in (SUBSET {m \in Markets : e \in EventsOf[m]}) \ {{}} :
       \E names \in [group -> Names] : queue' = queue \cup {[event |-> e, names |-> names, receives |-> 0]}
    BY DEF Fetched
<1>2. PICK group \in SUBSET Markets : \E names \in [group -> Names] :
          queue' = queue \cup {[event |-> e, names |-> names, receives |-> 0]}
    BY <1>1
<1>3. PICK names \in [group -> Names] : queue' = queue \cup {[event |-> e, names |-> names, receives |-> 0]}
    BY <1>2
<1>4. MessageTyped([event |-> e, names |-> names, receives |-> 0])
    BY DEF MessageTyped
<1>5. UNCHANGED <<symbol, listing, links, step, batch, contracts, secOf>>
    BY DEF Fetched, registry, worker
<1>6. RegistryTyped' /\ SecuritiesOfListings'
    BY <1>5 DEF TypeOK, RegistryTyped, SecuritiesOfListings, Listed, Created
<1>7. BatchTyped'
    BY <1>3, <1>4, <1>5 DEF TypeOK, BatchTyped, MessageTyped, Listed, Created
<1> QED BY <1>6, <1>7 DEF TypeOK

\* What is received, and what is unique in it.
LEMMA CollectFrame ==
    ASSUME TypeOK, Collect
    PROVE  /\ step = "idle" /\ step' = "events" /\ UNCHANGED <<registry, dead, announced, secOf, fresh, counts>>
           /\ \E received \in SUBSET queue :
                 /\ batch' = {[msg EXCEPT !.receives = @ + 1] : msg \in received}
                 /\ queue' = (queue \ received) \cup batch'
           /\ DOMAIN contracts' = UNION {DOMAIN msg.names : msg \in batch'}
           /\ \A m \in DOMAIN contracts' : \E msg \in batch' :
                 m \in DOMAIN msg.names /\ contracts'[m] = [event |-> msg.event, name |-> msg.names[m]]
<1>1. PICK received \in (SUBSET queue) \ {{}} :
        /\ batch' = {[msg EXCEPT !.receives = @ + 1] : msg \in received}
        /\ \E age \in Injection(batch', 1..MaxBatch) : contracts' = UniqueContracts(batch', age)
        /\ queue' = (queue \ received) \cup batch'
    BY DEF Collect
<1>2. PICK age \in Injection(batch', 1..MaxBatch) : contracts' = UniqueContracts(batch', age)
    BY <1>1
<1>3. DOMAIN contracts' = UNION {DOMAIN msg.names : msg \in batch'}
    BY <1>2 DEF UniqueContracts
<1>4. ASSUME NEW m \in DOMAIN contracts'
      PROVE  \E msg \in batch' : m \in DOMAIN msg.names /\ contracts'[m] = [event |-> msg.event, name |-> msg.names[m]]
    <2>1. PICK messages : messages = batch'
        OBVIOUS
    <2>2. PICK n \in Nat : n = MaxBatch
        BY EntitiesAssumption
    <2>3. age \in Injection(messages, 1..n) /\ \E carrier \in messages : m \in DOMAIN carrier.names
        BY <1>3, <1>4, <2>1, <2>2
    <2>4. \E msg \in messages : /\ m \in DOMAIN msg.names
                                 /\ UniqueContracts(messages, age)[m] = [event |-> msg.event, name |-> msg.names[m]]
        BY <2>3, UniqueOf
    <2> QED BY <1>2, <2>1, <2>4
<1>5. step = "idle" /\ step' = "events" /\ UNCHANGED <<registry, dead, announced, secOf, fresh, counts>>
    BY DEF Collect
<1> QED BY <1>1, <1>3, <1>4, <1>5

\* A message that is received is still typed.
LEMMA ReceivedTyped ==
    ASSUME NEW msg, MessageTyped(msg), NEW again, again = [msg EXCEPT !.receives = @ + 1]
    PROVE  /\ MessageTyped(again) /\ again.receives = msg.receives + 1
           /\ again.names = msg.names /\ again.event = msg.event
BY DEF MessageTyped

\* Received messages are typed, and so are their contracts.
LEMMA CollectTypeOK == TypeOK /\ Collect => TypeOK'
<1> SUFFICES ASSUME TypeOK, Collect PROVE TypeOK'
    OBVIOUS
<1>1. UNCHANGED <<symbol, listing, links, secOf>> /\ step = "idle" /\ step' = "events"
    BY CollectFrame DEF registry
<1>2. RegistryTyped' /\ SecuritiesOfListings'
    BY <1>1 DEF TypeOK, RegistryTyped, SecuritiesOfListings, Listed, Created
<1>3. PICK received \in SUBSET queue :
          /\ batch' = {[msg EXCEPT !.receives = @ + 1] : msg \in received}
          /\ queue' = (queue \ received) \cup batch'
    BY CollectFrame
<1>4. \A msg \in queue : MessageTyped(msg)
    BY DEF TypeOK, BatchTyped
<1>5. ASSUME NEW again \in batch' PROVE MessageTyped(again)
    BY <1>3, <1>4, <1>5, ReceivedTyped
<1>6. \A msg \in queue' \cup batch' : MessageTyped(msg)
    BY <1>3, <1>4, <1>5
<1>7. \A m \in DOMAIN contracts' : contracts'[m].name \in Names
    BY <1>5, CollectFrame DEF MessageTyped
<1>8. DOMAIN contracts = {} /\ DOMAIN secOf = {}
    <2>1. DOMAIN contracts = UNION {DOMAIN msg.names : msg \in batch} /\ batch = {} /\ DOMAIN secOf \subseteq DOMAIN contracts
        BY <1>1 DEF TypeOK, BatchTyped
    <2>2. DOMAIN contracts = {}
        BY <2>1
    <2> QED BY <2>1, <2>2
<1>9. secOf' = [m \in DOMAIN secOf' |-> secOf'[m]] /\ DOMAIN secOf' = {}
    BY <1>1, <1>8 DEF TypeOK, BatchTyped
<1>10. BatchTyped'
    BY <1>1, <1>6, <1>7, <1>9, CollectFrame DEF BatchTyped, Steps, MessageTyped
<1> QED BY <1>2, <1>10 DEF TypeOK

\* The securities left over by an earlier attempt are securities, with no listing.
LEMMA OrphanTaken ==
    ASSUME TypeOK, NEW name, Orphans(name) # {}
    PROVE  LET s == First(Orphans(name)) IN s \in Created /\ symbol[s] = name /\ Held(s) = {}
<1>1. Orphans(name) \in SUBSET Nat
    BY IdsAreNumbers DEF Orphans
<1>2. First(Orphans(name)) \in Orphans(name)
    BY <1>1, FirstOf
<1> QED BY <1>2 DEF Orphans

\* What ReadListings finds and takes over.
LEMMA ReadListingsFrame ==
    ASSUME TypeOK, ReadListings
    PROVE  /\ step = "events" /\ step' = "securities"
           /\ UNCHANGED <<registry, queues, batch, contracts, known, counts>>
           /\ \E taken \in SUBSET Unlisted :
                 /\ secOf' = [m \in (DOMAIN contracts \cap Listed) \cup taken |->
                                 IF m \in taken THEN First(Orphans(contracts[m].name)) ELSE listing[m].security]
                 /\ fresh' = {First(Orphans(contracts[m].name)) : m \in taken}
                 /\ \A m \in taken : TakesOver(m) /\ Orphans(contracts[m].name) # {}
<1>1. PICK taken : taken = {m \in Unlisted : TakesOver(m) /\ Orphans(contracts[m].name) # {}}
    OBVIOUS
<1>2. /\ secOf' = [m \in (DOMAIN contracts \cap Listed) \cup taken |->
                       IF m \in taken THEN First(Orphans(contracts[m].name)) ELSE listing[m].security]
      /\ fresh' = {First(Orphans(contracts[m].name)) : m \in taken}
    BY <1>1 DEF ReadListings
<1>3. taken \in SUBSET Unlisted /\ \A m \in taken : TakesOver(m) /\ Orphans(contracts[m].name) # {}
    BY <1>1
<1>4. step = "events" /\ step' = "securities" /\ UNCHANGED <<registry, queues, batch, contracts, known, counts>>
    BY DEF ReadListings
<1> QED BY <1>2, <1>3, <1>4

\* The security created, for which market.
LEMMA CreateSecurityFrame ==
    ASSUME TypeOK, CreateSecurity
    PROVE  /\ step = "securities"
           /\ UNCHANGED <<listing, links, queues, step, batch, contracts, known, counts>>
           /\ \E m \in Pending, s \in Ids \ Created :
                 /\ \A t \in Created : symbol[t] # contracts[m].name
                 /\ symbol' = [symbol EXCEPT ![s] = contracts[m].name]
                 /\ secOf' = [n \in DOMAIN secOf \cup {m} |-> IF n = m THEN s ELSE secOf[n]]
                 /\ Created' = Created \cup {s}
<1>1. /\ step = "securities" /\ Pending # {} /\ Ids # Created
      /\ UNCHANGED <<listing, links, queues, step, batch, contracts, known, counts>>
    BY DEF CreateSecurity
<1>2. PICK m, s : m = First(Pending) /\ s = First(Ids \ Created)
    OBVIOUS
<1>3. /\ \A t \in Created : symbol[t] # contracts[m].name
      /\ symbol' = [symbol EXCEPT ![s] = contracts[m].name]
      /\ secOf' = [n \in DOMAIN secOf \cup {m} |-> IF n = m THEN s ELSE secOf[n]]
    BY <1>2 DEF CreateSecurity
<1>4. DOMAIN contracts \subseteq Markets
    BY DEF TypeOK, BatchTyped, MessageTyped
<1>5. Pending \in SUBSET Nat /\ Ids \ Created \in SUBSET Nat /\ Ids \ Created # {}
    BY <1>1, <1>4, IdsAreNumbers DEF Pending
<1>6. m \in Pending /\ s \in Ids \ Created
    BY <1>1, <1>2, <1>5, FirstOf
<1>7. contracts[m].name \in Names
    BY <1>6 DEF TypeOK, BatchTyped, Pending
<1>8. Created' = Created \cup {s}
    BY <1>3, <1>6, <1>7, EntitiesAssumption DEF Created, TypeOK, RegistryTyped
<1> QED BY <1>1, <1>3, <1>6, <1>8

\* The listing created.
LEMMA CreateListingFrame ==
    ASSUME TypeOK, CreateListing
    PROVE  /\ step = "listings" /\ UNCHANGED <<events, symbol, links, source, worker, queues, counts>>
           /\ \E m \in Unlisted :
                 /\ m \in Markets /\ m \in DOMAIN secOf /\ secOf[m] \in Created
                 /\ listing' = [listing EXCEPT ![m] =
                                   [security |-> secOf[m], name |-> contracts[m].name, active |-> TRUE]]
                 /\ Listed' = Listed \cup {m}
<1>1. /\ step = "listings" /\ Unlisted # {} /\ UNCHANGED <<events, symbol, links, source, worker, queues, counts>>
    BY DEF CreateListing
<1>2. PICK m : m = First(Unlisted)
    OBVIOUS
<1>3. listing' = [listing EXCEPT ![m] = [security |-> secOf[m], name |-> contracts[m].name, active |-> TRUE]]
    BY <1>2 DEF CreateListing
<1>4. Unlisted \subseteq Markets
    BY DEF TypeOK, BatchTyped, MessageTyped, Unlisted
<1>5. m \in Unlisted
    BY <1>1, <1>2, <1>4, FirstOf, IdsAreNumbers
<1>6. m \in DOMAIN secOf /\ secOf[m] \in Created /\ m \notin Listed
    BY <1>1, <1>5 DEF TypeOK, BatchTyped, Unlisted
<1>7. Listed' = Listed \cup {m}
    <2>1. contracts[m].name \in Names /\ m \in Markets /\ secOf[m] \in Ids
        BY <1>4, <1>5, <1>6, IdsAreNumbers DEF TypeOK, BatchTyped, Unlisted
    <2>2. [security |-> secOf[m], name |-> contracts[m].name, active |-> TRUE]
              \in [security : Ids, name : Names, active : BOOLEAN]
        BY <2>1
    <2>3. listing'[m] # None
        BY <1>3, <2>1, <2>2, EntitiesAssumption DEF TypeOK, RegistryTyped, Ids
    <2> QED BY <1>3, <2>1, <2>3 DEF TypeOK, RegistryTyped, Listed
<1> QED BY <1>1, <1>3, <1>4, <1>5, <1>6, <1>7

\* No step of a batch but CreateSecurity makes securities, and a rename loses none.
LEMMA RenameFrame ==
    ASSUME TypeOK, step = "symbols"
    PROVE  /\ \A s \in Renamed : NewSymbol(s) \in Names /\ s \in Created
           /\ SymbolsAfter \in [Ids -> Names \cup {None}]
           /\ \A s \in Ids : s \in Created <=> SymbolsAfter[s] # None
<1>1. ASSUME NEW s \in Renamed PROVE NewSymbol(s) \in Names /\ s \in Created
    <2>1. s \in Wanted /\ DOMAIN secOf = DOMAIN contracts
        BY DEF Renamed, TypeOK, BatchTyped
    <2>2. PICK m \in DOMAIN contracts : secOf[m] = s
        BY <2>1 DEF Wanted
    <2>3. s \in Created
        BY <2>1, <2>2 DEF TypeOK, BatchTyped
    <2>4. contracts[m].name \in WantedNames(s) /\ WantedNames(s) \subseteq Names
        BY <2>2 DEF WantedNames, TypeOK, BatchTyped
    <2> QED BY <2>3, <2>4 DEF NewSymbol
<1>2. SymbolsAfter \in [Ids -> Names \cup {None}]
    BY <1>1 DEF SymbolsAfter, TypeOK, RegistryTyped
<1>3. ASSUME NEW s \in Ids PROVE s \in Created <=> SymbolsAfter[s] # None
    BY <1>1, EntitiesAssumption DEF SymbolsAfter, Created
<1> QED BY <1>1, <1>2, <1>3

\* Every request of a batch keeps the type.
LEMMA CreateTypeOK == TypeOK /\ CreateEntities => TypeOK'
<1> SUFFICES ASSUME TypeOK, CreateEntities PROVE TypeOK'
    OBVIOUS
<1> USE DEF registry, worker, queues
<1>1. CASE CreateEvent
    BY <1>1 DEF CreateEvent, TypeOK, RegistryTyped, BatchTyped, MessageTyped, SecuritiesOfListings, Listed, Created
<1>2. CASE ReadListings
    <2>1. PICK taken \in SUBSET Unlisted :
             /\ secOf' = [m \in (DOMAIN contracts \cap Listed) \cup taken |->
                             IF m \in taken THEN First(Orphans(contracts[m].name)) ELSE listing[m].security]
             /\ \A m \in taken : Orphans(contracts[m].name) # {}
        BY <1>2, ReadListingsFrame
    <2>2. UNCHANGED <<symbol, listing, links, queue, batch, contracts>> /\ step' = "securities"
        BY <1>2, ReadListingsFrame
    <2>3. /\ secOf' = [m \in DOMAIN secOf' |-> secOf'[m]] /\ DOMAIN secOf' \subseteq DOMAIN contracts
          /\ \A m \in DOMAIN secOf' \cap Listed : secOf'[m] = listing[m].security
          /\ DOMAIN contracts \cap Listed \subseteq DOMAIN secOf'
        BY <2>1 DEF Unlisted
    <2>4. ASSUME NEW m \in DOMAIN secOf' PROVE secOf'[m] \in Created
        <3>1. CASE m \in taken
            BY <2>1, <3>1, OrphanTaken
        <3>2. CASE m \notin taken
            BY <2>1, <3>2, <2>4 DEF TypeOK, RegistryTyped
        <3> QED BY <3>1, <3>2
    <2>5. Listed' = Listed /\ Created' = Created
        BY <2>2 DEF Listed, Created
    <2>6. BatchTyped'
        BY <2>2, <2>3, <2>4, <2>5, BatchGoesOn DEF Steps
    <2> QED BY <2>2, <2>3, <2>5, <2>6 DEF TypeOK, RegistryTyped, SecuritiesOfListings
<1>3. CASE CreateSecurity
    <2>1. PICK m \in Pending, s \in Ids \ Created :
             /\ symbol' = [symbol EXCEPT ![s] = contracts[m].name]
             /\ secOf' = [n \in DOMAIN secOf \cup {m} |-> IF n = m THEN s ELSE secOf[n]]
             /\ Created' = Created \cup {s}
        BY <1>3, CreateSecurityFrame
    <2>2. UNCHANGED <<listing, links, queue, batch, contracts, step>> /\ step = "securities"
        BY <1>3, CreateSecurityFrame
    <2>3. m \in DOMAIN contracts /\ contracts[m].name \in Names
        BY DEF TypeOK, BatchTyped, Pending
    <2>4. Listed' = Listed
        BY <2>2 DEF Listed
    <2>5. symbol' \in [Ids -> Names \cup {None}]
        BY <2>1, <2>3 DEF TypeOK, RegistryTyped
    <2>6. RegistryTyped'
        BY <2>1, <2>2, <2>4, <2>5 DEF TypeOK, RegistryTyped
    <2>7. /\ secOf' = [n \in DOMAIN secOf' |-> secOf'[n]] /\ DOMAIN secOf' \subseteq DOMAIN contracts
          /\ \A n \in DOMAIN secOf' : secOf'[n] \in Created'
          /\ DOMAIN contracts \cap Listed \subseteq DOMAIN secOf'
        BY <2>1, <2>2, <2>3 DEF TypeOK, BatchTyped
    <2>8. BatchTyped'
        <3>1. Created \subseteq Created' /\ step' = "securities" /\ step' \in Steps \ {"idle"}
            BY <2>1, <2>2 DEF Steps
        <3> QED BY <2>2, <2>4, <2>7, <3>1, BatchGoesOn
    <2>9. m \notin Listed
        BY <2>2 DEF TypeOK, BatchTyped, Pending
    <2>10. SecuritiesOfListings'
        BY <2>1, <2>2, <2>4, <2>9 DEF TypeOK, SecuritiesOfListings
    <2> QED BY <2>6, <2>8, <2>10 DEF TypeOK
<1>4. ASSUME Abandon, UNCHANGED <<symbol, listing, links>> PROVE TypeOK'
    <2>1. queue' \subseteq queue /\ step' = "idle" /\ batch' = {} /\ contracts' = Empty /\ secOf' = Empty
        BY <1>4 DEF Abandon
    <2>2. BatchTyped' /\ SecuritiesOfListings'
        BY <2>1, BatchEnds
    <2>3. RegistryTyped'
        BY <1>4 DEF TypeOK, RegistryTyped, Listed, Created
    <2> QED BY <2>2, <2>3 DEF TypeOK
<1>5. CASE SymbolClash
    BY <1>4, <1>5 DEF SymbolClash
<1>6. CASE SecuritiesDone \/ ListingsDone \/ SyncSources
    <2>1. UNCHANGED <<symbol, listing, links, queue, batch, contracts, secOf>>
        BY <1>6 DEF SecuritiesDone, ListingsDone, SyncSources
    <2>2. /\ step' \in Steps \ {"idle", "events", "securities"}
          /\ step = "securities" => Pending = {}
          /\ step = "listings" => Unlisted = {}
          /\ step \in {"securities", "listings", "sources"}
          /\ step = "securities" => step' = "listings"
        BY <1>6 DEF SecuritiesDone, ListingsDone, SyncSources, Steps
    <2>3. Listed' = Listed /\ Created' = Created
        BY <2>1 DEF Listed, Created
    <2>4. /\ DOMAIN secOf = DOMAIN contracts
          /\ step' # "listings" => DOMAIN contracts \subseteq Listed
          /\ secOf = [m \in DOMAIN secOf |-> secOf[m]] /\ \A m \in DOMAIN secOf : secOf[m] \in Created
        BY <2>2 DEF TypeOK, BatchTyped, Pending, Unlisted
    <2>5. BatchTyped'
        BY <2>1, <2>2, <2>3, <2>4, BatchGoesOn
    <2> QED BY <2>1, <2>3, <2>5 DEF TypeOK, RegistryTyped, SecuritiesOfListings
<1>7. CASE CreateListing
    <2>1. PICK m \in Unlisted :
             /\ m \in Markets /\ m \in DOMAIN secOf /\ secOf[m] \in Created
             /\ listing' = [listing EXCEPT ![m] = [security |-> secOf[m], name |-> contracts[m].name, active |-> TRUE]]
             /\ Listed' = Listed \cup {m}
        BY <1>7, CreateListingFrame
    <2>2. UNCHANGED <<symbol, links, queue, batch, contracts, secOf, step>> /\ step = "listings"
        BY <1>7, CreateListingFrame
    <2>3. Created' = Created
        BY <2>2 DEF Created
    <2>4. RegistryTyped'
        <3>1. contracts[m].name \in Names /\ secOf[m] \in Ids
            BY <2>1, IdsAreNumbers DEF Unlisted, TypeOK, BatchTyped
        <3>2. listing' \in [Markets -> [security : Ids, name : Names, active : BOOLEAN] \cup {None}]
            BY <2>1, <3>1 DEF TypeOK, RegistryTyped
        <3>3. \A n \in Listed' : listing'[n].security \in Created'
            BY <2>1, <2>3 DEF TypeOK, RegistryTyped
        <3> QED BY <2>2, <3>2, <3>3 DEF TypeOK, RegistryTyped
    <2>5. SecuritiesOfListings'
        BY <2>1, <2>2 DEF TypeOK, RegistryTyped, SecuritiesOfListings
    <2>6. BatchTyped'
        BY <2>1, <2>2, <2>3, BatchGoesOn DEF TypeOK, BatchTyped
    <2> QED BY <2>4, <2>5, <2>6 DEF TypeOK
<1>8. ASSUME step \in Steps \ {"idle", "events", "securities", "listings"},
             step' \in Steps \ {"idle", "events", "securities", "listings"},
             UNCHANGED <<queue, batch, contracts, secOf>>, RegistryTyped',
             Created' = Created, Listed' = Listed,
             \A m \in Listed : listing'[m].security = listing[m].security
      PROVE  TypeOK'
    <2>1. BatchTyped'
        BY <1>8, BatchGoesOn DEF TypeOK, BatchTyped
    <2> QED BY <1>8, <2>1 DEF TypeOK, SecuritiesOfListings
<1>9. CASE CreateEventContract \/ RenameLabels
    <2>1. /\ step = "links" /\ step' \in {"links", "symbols"}
          /\ UNCHANGED <<queue, batch, contracts, secOf, symbol, listing>>
          /\ links' = [s \in Ids |-> links'[s]]
        BY <1>9 DEF CreateEventContract, RenameLabels, TypeOK, RegistryTyped
    <2>2. Created' = Created /\ Listed' = Listed
        BY <2>1 DEF Listed, Created
    <2>3. RegistryTyped'
        BY <2>1, <2>2 DEF TypeOK, RegistryTyped
    <2> QED BY <1>8, <2>1, <2>2, <2>3 DEF Steps
<1>10. CASE RenameSecurities
    <2>1. CASE SymbolsDistinct
        <3>1. /\ symbol' = SymbolsAfter /\ step' = "names" /\ step = "symbols"
              /\ UNCHANGED <<queue, batch, contracts, secOf, links, listing>>
            BY <1>10, <2>1 DEF RenameSecurities
        <3>2. Created' = Created
            BY <3>1, RenameFrame DEF Created
        <3>3. RegistryTyped'
            BY <3>1, <3>2, RenameFrame DEF TypeOK, RegistryTyped, Listed
        <3>4. Listed' = Listed
            BY <3>1 DEF Listed
        <3> QED BY <1>8, <3>1, <3>2, <3>3, <3>4 DEF Steps
    <2>2. CASE ~SymbolsDistinct
        BY <1>4, <1>10, <2>2 DEF RenameSecurities
    <2> QED BY <2>1, <2>2
<1>11. ASSUME NEW S, S \subseteq Listed, step \in {"names", "reconcile"}, step' \in {"sources", "announce"},
              UNCHANGED <<queue, batch, contracts, secOf, symbol, links>>,
              listing' = [m \in Markets |-> listing'[m]],
              \A m \in Markets \ S : listing'[m] = listing[m],
              \A m \in S : \E name \in Names, active \in BOOLEAN :
                  listing'[m] = [security |-> listing[m].security, name |-> name, active |-> active]
       PROVE  TypeOK'
    <2>1. Created' = Created
        BY <1>11 DEF Created
    <2>2. ASSUME NEW m \in S
          PROVE  /\ listing'[m] \in [security : Ids, name : Names, active : BOOLEAN]
                 /\ listing'[m].security = listing[m].security
        <3>1. listing[m] \in [security : Ids, name : Names, active : BOOLEAN]
            BY <1>11 DEF TypeOK, RegistryTyped, Listed
        <3>2. PICK name \in Names, active \in BOOLEAN :
                  listing'[m] = [security |-> listing[m].security, name |-> name, active |-> active]
            BY <1>11, <2>2
        <3> QED BY <3>1, <3>2
    <2>3. ASSUME NEW m \in S PROVE listing'[m] # None
        BY <2>2, EntitiesAssumption DEF Ids
    <2>4. Listed' = Listed
        BY <1>11, <2>3 DEF Listed
    <2>5. \A m \in Listed : listing'[m].security = listing[m].security
        BY <1>11, <2>2 DEF Listed
    <2>6. listing' \in [Markets -> [security : Ids, name : Names, active : BOOLEAN] \cup {None}]
        <3>1. ASSUME NEW m \in Markets
              PROVE  listing'[m] \in [security : Ids, name : Names, active : BOOLEAN] \cup {None}
            BY <1>11, <2>2 DEF TypeOK, RegistryTyped
        <3> QED BY <1>11, <3>1
    <2>7. RegistryTyped'
        BY <1>11, <2>1, <2>4, <2>5, <2>6 DEF TypeOK, RegistryTyped
    <2> QED BY <1>8, <1>11, <2>1, <2>4, <2>5, <2>7 DEF Steps
<1>12. CASE RenameListings
    <2>1. DOMAIN contracts \subseteq Listed /\ \A m \in DOMAIN contracts : contracts[m].name \in Names
        BY <1>12 DEF RenameListings, TypeOK, BatchTyped
    <2>2. listing' = [m \in Markets |->
              IF m \in DOMAIN contracts THEN [listing[m] EXCEPT !.name = contracts[m].name] ELSE listing[m]]
        BY <1>12 DEF RenameListings
    <2>3. ASSUME NEW m \in DOMAIN contracts
          PROVE  \E name \in Names, active \in BOOLEAN :
                     listing'[m] = [security |-> listing[m].security, name |-> name, active |-> active]
        <3>1. listing[m] \in [security : Ids, name : Names, active : BOOLEAN] /\ m \in Markets
            BY <2>1 DEF TypeOK, RegistryTyped, Listed
        <3>2. listing'[m] = [security |-> listing[m].security, name |-> contracts[m].name, active |-> listing[m].active]
            BY <2>2, <3>1
        <3> QED BY <2>1, <3>1, <3>2
    <2>4. \A m \in Markets \ DOMAIN contracts : listing'[m] = listing[m]
        BY <2>2
    <2>5. listing' = [m \in Markets |-> listing'[m]]
        BY <2>2
    <2>6. /\ step = "names" /\ step' = "sources"
          /\ UNCHANGED <<queue, batch, contracts, secOf, symbol, links>>
        BY <1>12 DEF RenameListings
    <2> QED BY <1>11, <2>1, <2>3, <2>4, <2>5, <2>6
<1>13. CASE Reconcile
    <2>1. Stale \subseteq Listed
        BY DEF Stale
    <2>2. listing' = [m \in Markets |-> IF m \in Stale THEN [listing[m] EXCEPT !.active = FALSE] ELSE listing[m]]
        BY <1>13 DEF Reconcile
    <2>3. ASSUME NEW m \in Stale
          PROVE  \E name \in Names, active \in BOOLEAN :
                     listing'[m] = [security |-> listing[m].security, name |-> name, active |-> active]
        <3>1. listing[m] \in [security : Ids, name : Names, active : BOOLEAN] /\ m \in Markets
            BY <2>1 DEF TypeOK, RegistryTyped, Listed
        <3>2. listing'[m] = [security |-> listing[m].security, name |-> listing[m].name, active |-> FALSE]
            BY <2>2, <3>1
        <3> QED BY <3>1, <3>2
    <2>4. \A m \in Markets \ Stale : listing'[m] = listing[m]
        BY <2>2
    <2>5. listing' = [m \in Markets |-> listing'[m]]
        BY <2>2
    <2>6. /\ step = "reconcile" /\ step' = "announce"
          /\ UNCHANGED <<queue, batch, contracts, secOf, symbol, links>>
        BY <1>13 DEF Reconcile
    <2> HIDE DEF Stale
    <2> QED BY <1>11, <2>1, <2>3, <2>4, <2>5, <2>6
<1> QED BY <1>1, <1>2, <1>3, <1>5, <1>6, <1>7, <1>9, <1>10, <1>12, <1>13 DEF CreateEntities

\* Init is typed, whichever of the two it is.
LEMMA InitTypeOK == Init => TypeOK
<1> SUFFICES ASSUME Init PROVE TypeOK
    OBVIOUS
<1>1. /\ queue = {} /\ batch = {} /\ step = "idle" /\ DOMAIN contracts = {} /\ DOMAIN secOf = {}
      /\ secOf = [m \in DOMAIN secOf |-> secOf[m]]
    BY DEF Init, Empty
<1>2. UNION {DOMAIN msg.names : msg \in batch} = {}
    BY <1>1
<1>3. BatchTyped /\ SecuritiesOfListings
    <2>1. queue \cup batch = {}
        BY <1>1
    <2> QED BY <1>1, <1>2, <2>1 DEF BatchTyped, Steps, SecuritiesOfListings
<1>4. ASSUME symbol = [s \in Ids |-> None], listing = [m \in Markets |-> None], links = [s \in Ids |-> {}]
      PROVE  RegistryTyped
    BY <1>4 DEF RegistryTyped, Listed
<1>5. ASSUME NEW m \in Shared, NEW e \in EventsOf[m], NEW name \in NamesOf[m],
             symbol = [s \in Ids |-> IF s = 1 THEN name ELSE None],
             listing = [n \in Markets |-> IF n \in Shared THEN [security |-> 1, name |-> name, active |-> TRUE] ELSE None],
             links = [s \in Ids |-> IF s = 1 THEN {[event |-> e, label |-> name]} ELSE {}]
      PROVE  RegistryTyped
    <2>1. name \in Names /\ 1 \in Ids /\ name # None
        BY <1>5, EntitiesAssumption DEF Ids
    <2>2. 1 \in Created
        BY <1>5, <2>1 DEF Created
    <2>3. \A n \in Listed : listing[n].security = 1
        BY <1>5 DEF Listed
    <2>4. [security |-> 1, name |-> name, active |-> TRUE] \in [security : Ids, name : Names, active : BOOLEAN]
        BY <2>1
    <2>5. listing \in [Markets -> [security : Ids, name : Names, active : BOOLEAN] \cup {None}]
        BY <1>5, <2>4
    <2> QED BY <1>5, <2>1, <2>2, <2>3, <2>5 DEF RegistryTyped
<1> QED BY <1>3, <1>4, <1>5 DEF Init, TypeOK

\* Every step keeps the type.
LEMMA NextTypeOK == TypeOK /\ [Next]_vars => TypeOK'
<1> SUFFICES ASSUME TypeOK, [Next]_vars PROVE TypeOK'
    OBVIOUS
<1>1. CASE Fetched
    BY <1>1, FetchedTypeOK
<1>2. CASE Collect
    BY <1>2, CollectTypeOK
<1>3. CASE CreateEntities
    BY <1>3, CreateTypeOK
<1>4. CASE Announce
    <2>1. /\ UNCHANGED <<symbol, listing, links, queue, batch, contracts, secOf>>
          /\ step = "announce" /\ step' = "delete"
        BY <1>4 DEF Announce, registry
    <2>2. Listed' = Listed /\ Created' = Created
        BY <2>1 DEF Listed, Created
    <2>3. BatchTyped'
        BY <2>1, <2>2, BatchGoesOn DEF TypeOK, BatchTyped, Steps
    <2> QED BY <2>1, <2>2, <2>3 DEF TypeOK, RegistryTyped, SecuritiesOfListings
<1>5. ASSUME queue' \subseteq queue, step' = "idle", batch' = {}, contracts' = Empty, secOf' = Empty,
             UNCHANGED <<symbol, listing, links>>
      PROVE  TypeOK'
    <2>1. BatchTyped' /\ SecuritiesOfListings'
        BY <1>5, BatchEnds
    <2>2. RegistryTyped'
        BY <1>5 DEF TypeOK, RegistryTyped, Listed, Created
    <2> QED BY <2>1, <2>2 DEF TypeOK
<1>6. CASE Delete
    <2>1. queue' \subseteq queue
        BY <1>6 DEF Delete
    <2> QED BY <1>5, <1>6, <2>1 DEF Delete, registry
<1>7. CASE Fails
    <2>1. queue' \subseteq queue /\ step' = "idle" /\ batch' = {} /\ contracts' = Empty /\ secOf' = Empty
        BY <1>7 DEF Fails, Abandon
    <2> QED BY <1>5, <1>7, <2>1 DEF Fails, registry
<1>8. CASE UNCHANGED vars
    BY <1>8 DEF vars, TypeOK, RegistryTyped, BatchTyped, MessageTyped, SecuritiesOfListings, Listed, Created
<1> QED BY <1>1, <1>2, <1>3, <1>4, <1>6, <1>7, <1>8 DEF Next, Worker

\* Every batch that is under way has its contracts, its securities and, once they are made, its listings, each of the
\* security the batch goes on with.
THEOREM TypeCorrect == Spec => []TypeOK
<1>1. Init => TypeOK
    BY InitTypeOK
<1>2. TypeOK /\ [Next]_vars => TypeOK'
    BY NextTypeOK
<1> QED BY <1>1, <1>2, PTL DEF Spec

-----------------------------------------------------------------------------
(* Two markets never come to share a security: the securities a batch goes *)
(* on with for its new listings have no listing yet, and no two are one.   *)

NewAreFree ==
    step \in {"securities", "listings"} =>
        \A m \in DOMAIN secOf \ Listed :
            /\ Held(secOf[m]) = {}
            /\ \A n \in DOMAIN secOf \ Listed : n # m => secOf[n] # secOf[m]

\* Two contracts that take over a security each are of different symbols, and so are the securities.
LEMMA TakenApart ==
    ASSUME TypeOK, NEW m \in Unlisted, NEW n \in Unlisted, m # n, TakesOver(m), TakesOver(n),
           Orphans(contracts[m].name) # {}, Orphans(contracts[n].name) # {}
    PROVE  First(Orphans(contracts[m].name)) # First(Orphans(contracts[n].name))
<1>1. m \in Nat /\ n \in Nat
    BY IdsAreNumbers DEF TypeOK, BatchTyped, MessageTyped, Unlisted
<1>2. contracts[m].name # contracts[n].name
    BY <1>1 DEF TakesOver
<1>3. /\ symbol[First(Orphans(contracts[m].name))] = contracts[m].name
      /\ symbol[First(Orphans(contracts[n].name))] = contracts[n].name
    BY OrphanTaken
<1> QED BY <1>2, <1>3

\* What a batch has for its new listings stays free while nothing it is about changes.
LEMMA FreeStay ==
    ASSUME NewAreFree, UNCHANGED <<listing, secOf>>, step' = step \/ (step = "securities" /\ step' = "listings")
    PROVE  NewAreFree'
<1>1. Listed' = Listed /\ \A s : Held(s)' = Held(s)
    BY DEF Listed, Held
<1> QED BY <1>1 DEF NewAreFree

\* Every step leaves the securities for new listings free.
LEMMA NextFree == TypeOK /\ NewAreFree /\ [Next]_vars => NewAreFree'
<1> SUFFICES ASSUME TypeOK, NewAreFree, [Next]_vars PROVE NewAreFree'
    OBVIOUS
<1> USE DEF registry, worker, queues
<1>1. ASSUME step' \notin {"securities", "listings"} PROVE NewAreFree'
    BY <1>1 DEF NewAreFree
<1>2. CASE Fetched \/ CreateEvent \/ SecuritiesDone \/ UNCHANGED vars
    BY <1>2, FreeStay DEF Fetched, CreateEvent, SecuritiesDone, vars
<1>3. CASE ReadListings
    <2>1. PICK taken \in SUBSET Unlisted :
             /\ secOf' = [m \in (DOMAIN contracts \cap Listed) \cup taken |->
                             IF m \in taken THEN First(Orphans(contracts[m].name)) ELSE listing[m].security]
             /\ \A m \in taken : TakesOver(m) /\ Orphans(contracts[m].name) # {}
        BY <1>3, ReadListingsFrame
    <2>2. Listed' = Listed /\ \A s : Held(s)' = Held(s)
        BY <1>3 DEF ReadListings, Listed, Held
    <2>3. \A m \in DOMAIN secOf' \ Listed : m \in taken /\ secOf'[m] = First(Orphans(contracts[m].name))
        BY <2>1
    <2>4. ASSUME NEW m \in DOMAIN secOf' \ Listed
          PROVE  /\ Held(secOf'[m]) = {}
                 /\ \A n \in DOMAIN secOf' \ Listed : n # m => secOf'[n] # secOf'[m]
        <3>1. Held(secOf'[m]) = {}
            BY <2>1, <2>3, <2>4, OrphanTaken
        <3> QED BY <2>1, <2>3, <2>4, <3>1, TakenApart
    <2> QED BY <2>2, <2>4 DEF NewAreFree
<1>4. CASE CreateSecurity
    <2>1. PICK m \in Pending, s \in Ids \ Created :
             secOf' = [n \in DOMAIN secOf \cup {m} |-> IF n = m THEN s ELSE secOf[n]]
        BY <1>4, CreateSecurityFrame
    <2>2. Listed' = Listed /\ \A t : Held(t)' = Held(t)
        BY <1>4 DEF CreateSecurity, Listed, Held
    <2>3. Held(s) = {}
        BY DEF Held, TypeOK, RegistryTyped
    <2>4. \A n \in DOMAIN secOf : secOf[n] # s
        BY DEF TypeOK, BatchTyped
    <2>5. m \notin DOMAIN secOf /\ step = "securities"
        BY <1>4 DEF Pending, CreateSecurity
    <2> QED BY <2>1, <2>2, <2>3, <2>4, <2>5 DEF NewAreFree
<1>5. CASE CreateListing
    <2>1. PICK m \in Unlisted :
             /\ m \in Markets /\ m \in DOMAIN secOf
             /\ listing' = [listing EXCEPT ![m] = [security |-> secOf[m], name |-> contracts[m].name, active |-> TRUE]]
             /\ Listed' = Listed \cup {m}
        BY <1>5, CreateListingFrame
    <2>2. UNCHANGED <<secOf, step>> /\ step = "listings"
        BY <1>5 DEF CreateListing
    <2>3. m \notin Listed
        BY DEF Unlisted
    <2>4. listing'[m].security = secOf[m] /\ \A n \in Listed : listing'[n] = listing[n]
        BY <2>1, <2>3 DEF TypeOK, RegistryTyped, Listed
    <2>5. ASSUME NEW n \in DOMAIN secOf \ Listed'
          PROVE  Held(secOf[n])' = {}
        <3>1. n # m /\ n \in DOMAIN secOf \ Listed
            BY <2>1
        <3>2. Held(secOf[n]) = {} /\ secOf[m] # secOf[n]
            BY <2>1, <2>2, <2>3, <3>1 DEF NewAreFree
        <3>3. \A o \in Listed : listing[o].security # secOf[n]
            BY <3>2 DEF Held
        <3> QED BY <2>1, <2>2, <2>4, <3>2, <3>3 DEF Held
    <2> QED BY <2>1, <2>2, <2>5 DEF NewAreFree
<1>6. CASE SymbolClash \/ Delete \/ Fails
    BY <1>1, <1>6 DEF SymbolClash, Delete, Fails, Abandon
<1>7. CASE Collect \/ ListingsDone \/ CreateEventContract \/ RenameLabels \/ RenameSecurities \/ RenameListings
           \/ SyncSources \/ Reconcile \/ Announce
    BY <1>1, <1>7 DEF Collect, ListingsDone, CreateEventContract, RenameLabels, RenameSecurities, RenameListings,
                      SyncSources, Reconcile, Announce, Abandon
<1> QED BY <1>2, <1>3, <1>4, <1>5, <1>6, <1>7 DEF Next, Worker, CreateEntities

\* A listing is only made by CreateListing.
LEMMA OnlyCreated ==
    ASSUME TypeOK, [Next]_vars, ~CreateListing, NEW m \in Markets, listing[m] = None
    PROVE  listing'[m] = None
<1>1. CASE RenameListings
    <2>1. m \notin DOMAIN contracts
        BY <1>1 DEF RenameListings, TypeOK, BatchTyped, Listed
    <2> QED BY <1>1, <2>1 DEF RenameListings
<1>2. CASE Reconcile
    <2>1. m \notin Stale
        BY DEF Stale, Listed
    <2> QED BY <1>2, <2>1 DEF Reconcile
<1>3. CASE ~RenameListings /\ ~Reconcile
    BY <1>3 DEF Next, Worker, CreateEntities, vars, registry, Fetched, Collect, CreateEvent, ReadListings,
        CreateSecurity, SymbolClash, SecuritiesDone, ListingsDone, CreateEventContract, RenameLabels,
        RenameSecurities, SyncSources, Announce, Delete, Fails
<1> QED BY <1>1, <1>2, <1>3

\* A new listing is of a security that has none, whatever batches failed before and whatever names changed since.
THEOREM NewListingAlone == Spec => OneMarketEach
<1>1. Init => TypeOK /\ NewAreFree
    BY InitTypeOK DEF Init, NewAreFree
<1>2. TypeOK /\ NewAreFree /\ [Next]_vars => (TypeOK /\ NewAreFree)'
    BY NextTypeOK, NextFree
<1>3. TypeOK /\ NewAreFree /\ [Next]_vars =>
          [\A m \in Markets : listing[m] = None /\ listing'[m] # None =>
              \A n \in Listed : listing[n].security # listing'[m].security]_vars
    <2> SUFFICES ASSUME TypeOK, NewAreFree, [Next]_vars, NEW m \in Markets, listing[m] = None, listing'[m] # None,
                        NEW n \in Listed
                 PROVE  listing[n].security # listing'[m].security
        OBVIOUS
    <2>1. CreateListing
        BY OnlyCreated
    <2>2. PICK o \in Unlisted :
             /\ o \in Markets /\ o \in DOMAIN secOf
             /\ listing' = [listing EXCEPT ![o] = [security |-> secOf[o], name |-> contracts[o].name, active |-> TRUE]]
        BY <2>1, CreateListingFrame
    <2>3. m = o
        BY <2>2
    <2>4. listing'[m].security = secOf[m]
        BY <2>2, <2>3 DEF TypeOK, RegistryTyped
    <2>5. m \in DOMAIN secOf \ Listed /\ step = "listings"
        BY <2>1, <2>2, <2>3 DEF CreateListing, Unlisted
    <2>6. Held(secOf[m]) = {}
        BY <2>5 DEF NewAreFree
    <2> QED BY <2>4, <2>6 DEF Held
<1> QED BY <1>1, <1>2, <1>3, PTL DEF Spec, OneMarketEach

-----------------------------------------------------------------------------
(* What a failed batch left half made is retried: the messages of a batch  *)
(* stay in the queue while it lasts, and when they are deleted all of      *)
(* their markets have their event contracts.                               *)

Carried(m) == \E msg \in queue \cup dead : m \in DOMAIN msg.names

LinksMade ==
    step \in {"symbols", "names", "sources", "reconcile", "announce", "delete"} =>
        \A m \in DOMAIN contracts : links[secOf[m]] # {}

RetryInv == batch \subseteq queue /\ LinksMade /\ HalfMadeIsRetried

\* A step that keeps the queue, the links and the securities of listings retries what was to be retried.
LEMMA RetryStays ==
    ASSUME RetryInv, UNCHANGED <<queue, dead, links>>, Listed' \subseteq Listed,
           \A m \in Listed' : listing'[m].security = listing[m].security
    PROVE  HalfMadeIsRetried'
BY DEF RetryInv, HalfMadeIsRetried

\* A batch cut off leaves its messages in the queue or gives them up.
LEMMA RetryAbandon ==
    ASSUME RetryInv, UNCHANGED <<links, listing>>, Abandon
    PROVE  RetryInv'
<1>1. batch' = {} /\ step' = "idle" /\ queue \subseteq queue' \cup dead' /\ dead \subseteq dead'
    BY DEF Abandon
<1> QED BY <1>1 DEF RetryInv, LinksMade, HalfMadeIsRetried, Listed

\* Messages that are received still carry what they carried.
LEMMA RetryCollect == TypeOK /\ RetryInv /\ Collect => RetryInv'
<1> SUFFICES ASSUME TypeOK, RetryInv, Collect PROVE RetryInv'
    OBVIOUS
<1>1. PICK received \in SUBSET queue :
          /\ batch' = {[msg EXCEPT !.receives = @ + 1] : msg \in received}
          /\ queue' = (queue \ received) \cup batch'
    BY CollectFrame
<1>2. UNCHANGED <<links, listing, dead>> /\ step' = "events"
    BY CollectFrame DEF registry
<1>3. ASSUME NEW msg \in queue PROVE \E again \in queue' : again.names = msg.names
    <2>1. CASE msg \in received
        <3>1. MessageTyped(msg)
            BY DEF TypeOK, BatchTyped
        <3>2. PICK again : again = [msg EXCEPT !.receives = @ + 1]
            OBVIOUS
        <3>3. again.names = msg.names
            BY <3>1, <3>2, ReceivedTyped
        <3> QED BY <1>1, <2>1, <3>2, <3>3
    <2>2. CASE msg \notin received
        BY <1>1, <2>2
    <2> QED BY <2>1, <2>2
<1>4. HalfMadeIsRetried'
    <2> SUFFICES ASSUME NEW m \in Listed, links[listing[m].security] = {}
                 PROVE  \E msg \in queue' \cup dead' : m \in DOMAIN msg.names
        BY <1>2 DEF HalfMadeIsRetried, Listed
    <2>1. PICK msg \in queue \cup dead : m \in DOMAIN msg.names
        BY DEF RetryInv, HalfMadeIsRetried
    <2> QED BY <1>2, <1>3, <2>1
<1> QED BY <1>1, <1>2, <1>4 DEF RetryInv, LinksMade

\* A listing is made of a market that a message of the batch carries.
LEMMA RetryListing == TypeOK /\ RetryInv /\ CreateListing => RetryInv'
<1> SUFFICES ASSUME TypeOK, RetryInv, CreateListing PROVE RetryInv'
    OBVIOUS
<1>1. PICK m \in Unlisted :
         /\ m \in Markets
         /\ listing' = [listing EXCEPT ![m] = [security |-> secOf[m], name |-> contracts[m].name, active |-> TRUE]]
         /\ Listed' = Listed \cup {m}
    BY CreateListingFrame
<1>2. UNCHANGED <<links, queue, dead, batch, step>> /\ step = "listings"
    BY DEF CreateListing, worker, queues
<1>3. PICK msg \in batch : m \in DOMAIN msg.names
    BY <1>1 DEF Unlisted, TypeOK, BatchTyped
<1>4. m \notin Listed
    BY <1>1 DEF Unlisted
<1>5. ASSUME NEW n \in Listed', links[listing'[n].security] = {} PROVE \E o \in queue' \cup dead' : n \in DOMAIN o.names
    <2>1. CASE n = m
        BY <1>2, <1>3, <2>1 DEF RetryInv
    <2>2. CASE n # m
        <3>1. n \in Listed /\ listing'[n] = listing[n]
            BY <1>1, <1>5, <2>2 DEF TypeOK, RegistryTyped
        <3> QED BY <1>2, <1>5, <3>1 DEF RetryInv, HalfMadeIsRetried
    <2> QED BY <2>1, <2>2
<1>6. HalfMadeIsRetried'
    BY <1>2, <1>5 DEF HalfMadeIsRetried
<1> QED BY <1>2, <1>6 DEF RetryInv, LinksMade

\* Links are only added or renamed, and when the batch goes on every security of it has one.
LEMMA RetryLinks == TypeOK /\ RetryInv /\ (CreateEventContract \/ RenameLabels) => RetryInv'
<1> SUFFICES ASSUME TypeOK, RetryInv, CreateEventContract \/ RenameLabels PROVE RetryInv'
    OBVIOUS
<1>1. UNCHANGED <<listing, queue, dead, batch, contracts, secOf>> /\ step = "links"
    BY DEF CreateEventContract, RenameLabels, worker, queues
<1>2. ASSUME NEW s \in Ids, links[s] # {} PROVE links'[s] # {}
    <2>1. CASE CreateEventContract
        <3>1. PICK x, l : links' = [links EXCEPT ![x] = @ \cup {l}]
            BY <2>1 DEF CreateEventContract
        <3> QED BY <1>2, <3>1 DEF TypeOK, RegistryTyped
    <2>2. CASE RenameLabels
        <3>1. CASE s \notin Wanted
            BY <1>2, <2>2, <3>1 DEF RenameLabels
        <3>2. CASE s \in Wanted
            <4>1. PICK l \in links[s] : TRUE
                BY <1>2
            <4>2. PICK k : k = IF l.event = contracts[Speaker(s)].event
                               THEN [l EXCEPT !.label = contracts[Speaker(s)].name] ELSE l
                OBVIOUS
            <4>3. links'[s] = {IF x.event = contracts[Speaker(s)].event
                               THEN [x EXCEPT !.label = contracts[Speaker(s)].name] ELSE x : x \in links[s]}
                BY <2>2, <3>2 DEF RenameLabels
            <4>4. k \in links'[s]
                BY <4>2, <4>3
            <4> QED BY <4>4
        <3> QED BY <3>1, <3>2
    <2> QED BY <2>1, <2>2
<1>3. Listed' = Listed /\ \A m \in Listed : listing[m].security \in Ids
    BY <1>1, IdsAreNumbers DEF Listed, TypeOK, RegistryTyped
<1>4. HalfMadeIsRetried'
    BY <1>1, <1>2, <1>3 DEF RetryInv, HalfMadeIsRetried
<1>5. LinksMade'
    <2>1. CASE CreateEventContract
        BY <2>1 DEF CreateEventContract, worker, LinksMade
    <2>2. CASE RenameLabels
        <3>1. ASSUME NEW m \in DOMAIN contracts PROVE links'[secOf[m]] # {}
            <4>1. secOf[m] \in Ids /\ secOf[m] \in Wanted
                BY <1>1, IdsAreNumbers DEF TypeOK, BatchTyped, Wanted
            <4>2. links[secOf[m]] # {}
                BY <2>2, <4>1 DEF RenameLabels, Unlinked
            <4> QED BY <1>2, <4>1, <4>2
        <3> QED BY <1>1, <3>1 DEF LinksMade
    <2> QED BY <2>1, <2>2
<1> QED BY <1>1, <1>4, <1>5 DEF RetryInv

\* The messages deleted carry nothing that is half made.
LEMMA RetryDelete == TypeOK /\ RetryInv /\ Delete => RetryInv'
<1> SUFFICES ASSUME TypeOK, RetryInv, Delete PROVE RetryInv'
    OBVIOUS
<1>1. step = "delete" /\ step' = "idle" /\ batch' = {} /\ UNCHANGED <<links, listing>>
    BY DEF Delete, registry
<1>2. queue \ batch \subseteq queue' /\ dead \subseteq dead'
    BY DEF Delete
<1>3. ASSUME NEW m \in Listed, links[listing[m].security] = {}, NEW msg \in batch PROVE m \notin DOMAIN msg.names
    <2> SUFFICES ASSUME m \in DOMAIN msg.names PROVE FALSE
        OBVIOUS
    <2>1. m \in DOMAIN contracts /\ DOMAIN secOf = DOMAIN contracts
        BY <1>1 DEF TypeOK, BatchTyped
    <2>2. listing[m].security = secOf[m]
        BY <2>1 DEF TypeOK, SecuritiesOfListings
    <2> QED BY <1>1, <1>3, <2>1, <2>2 DEF RetryInv, LinksMade
<1>4. Listed' = Listed
    BY <1>1 DEF Listed
<1>5. HalfMadeIsRetried'
    BY <1>1, <1>2, <1>3, <1>4 DEF RetryInv, HalfMadeIsRetried
<1> QED BY <1>1, <1>5 DEF RetryInv, LinksMade

\* A rename of listings and a reconciliation leave every listing its security.
LEMMA SecurityStays ==
    ASSUME TypeOK, RenameListings \/ Reconcile
    PROVE  Listed' \subseteq Listed /\ \A m \in Listed : listing'[m].security = listing[m].security
<1>1. ASSUME NEW m \in Listed PROVE listing'[m].security = listing[m].security
    <2>1. listing[m] \in [security : Ids, name : Names, active : BOOLEAN] /\ m \in Markets
        BY DEF TypeOK, RegistryTyped, Listed
    <2>2. \/ listing'[m] = listing[m]
          \/ listing'[m] = [listing[m] EXCEPT !.name = contracts[m].name]
          \/ listing'[m] = [listing[m] EXCEPT !.active = FALSE]
        BY <2>1 DEF RenameListings, Reconcile
    <2> QED BY <2>1, <2>2
<1>2. \A m \in Markets : listing[m] = None => listing'[m] = None
    BY DEF RenameListings, Reconcile, Listed, Stale, TypeOK, BatchTyped
<1> QED BY <1>1, <1>2 DEF Listed

\* Every step leaves in the queue what is half made.
LEMMA NextRetry == TypeOK /\ RetryInv /\ [Next]_vars => RetryInv'
<1> SUFFICES ASSUME TypeOK, RetryInv, [Next]_vars PROVE RetryInv'
    OBVIOUS
<1> USE DEF registry, worker, queues
<1>1. ASSUME UNCHANGED <<queue, dead, links, batch>>, Listed' \subseteq Listed,
             \A m \in Listed' : listing'[m].security = listing[m].security,
             \/ step' \notin {"symbols", "names", "sources", "reconcile", "announce", "delete"}
             \/ /\ step \in {"symbols", "names", "sources", "reconcile", "announce", "delete"}
                /\ UNCHANGED <<contracts, secOf>>
      PROVE  RetryInv'
    BY <1>1, RetryStays DEF RetryInv, LinksMade
<1>2. ASSUME UNCHANGED listing PROVE Listed' = Listed
    BY <1>2 DEF Listed
<1>3. CASE Fetched
    BY <1>2, <1>3 DEF Fetched, RetryInv, LinksMade, HalfMadeIsRetried
<1>4. CASE CreateEvent \/ ReadListings \/ CreateSecurity \/ SecuritiesDone \/ ListingsDone \/ SyncSources \/ Announce
           \/ UNCHANGED vars
    <2>1. UNCHANGED <<queue, dead, links, batch, listing>>
        BY <1>4 DEF CreateEvent, ReadListings, CreateSecurity, SecuritiesDone, ListingsDone, SyncSources, Announce, vars
    <2>2. \/ step' \notin {"symbols", "names", "sources", "reconcile", "announce", "delete"}
          \/ /\ step \in {"symbols", "names", "sources", "reconcile", "announce", "delete"}
             /\ UNCHANGED <<contracts, secOf>>
        BY <1>4 DEF CreateEvent, ReadListings, CreateSecurity, SecuritiesDone, ListingsDone, SyncSources, Announce, vars
    <2> QED BY <1>1, <1>2, <2>1, <2>2
<1>5. CASE RenameListings \/ Reconcile
    <2>1. /\ UNCHANGED <<queue, dead, links, batch, contracts, secOf>>
          /\ step \in {"symbols", "names", "sources", "reconcile", "announce", "delete"}
        BY <1>5 DEF RenameListings, Reconcile
    <2> QED BY <1>1, <1>5, <2>1, SecurityStays
<1>6. CASE RenameSecurities
    <2>1. CASE SymbolsDistinct
        <3>1. /\ UNCHANGED <<queue, dead, links, batch, contracts, secOf, listing>>
              /\ step \in {"symbols", "names", "sources", "reconcile", "announce", "delete"}
            BY <1>6, <2>1 DEF RenameSecurities
        <3> QED BY <1>1, <1>2, <3>1
    <2>2. CASE ~SymbolsDistinct
        BY <1>6, <2>2, RetryAbandon DEF RenameSecurities
    <2> QED BY <2>1, <2>2
<1>7. CASE SymbolClash \/ Fails
    BY <1>7, RetryAbandon DEF SymbolClash, Fails
<1>8. CASE Collect \/ CreateListing \/ CreateEventContract \/ RenameLabels \/ Delete
    BY <1>8, RetryCollect, RetryListing, RetryLinks, RetryDelete
<1> QED BY <1>3, <1>4, <1>5, <1>6, <1>7, <1>8 DEF Next, Worker, CreateEntities

\* The security several markets share at first has its event contract.
LEMMA InitLinked == Init => \A m \in Listed : links[listing[m].security] # {}
<1> SUFFICES ASSUME Init, NEW m \in Listed PROVE links[listing[m].security] # {}
    OBVIOUS
<1>1. m \in Markets /\ listing[m] # None
    BY DEF Listed
<1>2. PICK o \in Shared : \E e \in EventsOf[o] : \E name \in NamesOf[o] :
          /\ listing = [n \in Markets |-> IF n \in Shared THEN [security |-> 1, name |-> name, active |-> TRUE] ELSE None]
          /\ links = [s \in Ids |-> IF s = 1 THEN {[event |-> e, label |-> name]} ELSE {}]
    BY <1>1 DEF Init
<1>3. PICK e \in EventsOf[o] : \E name \in NamesOf[o] :
          /\ listing = [n \in Markets |-> IF n \in Shared THEN [security |-> 1, name |-> name, active |-> TRUE] ELSE None]
          /\ links = [s \in Ids |-> IF s = 1 THEN {[event |-> e, label |-> name]} ELSE {}]
    BY <1>2
<1>4. PICK name \in NamesOf[o] :
          /\ listing = [n \in Markets |-> IF n \in Shared THEN [security |-> 1, name |-> name, active |-> TRUE] ELSE None]
          /\ links = [s \in Ids |-> IF s = 1 THEN {[event |-> e, label |-> name]} ELSE {}]
    BY <1>3
<1>5. listing[m] = [security |-> 1, name |-> name, active |-> TRUE]
    BY <1>1, <1>4
<1>6. listing[m].security = 1
    BY <1>5
<1>7. 1 \in Ids
    BY EntitiesAssumption DEF Ids
<1> QED BY <1>4, <1>6, <1>7

\* A listing whose security has no event contract is carried by a message still in the queue or given up, whatever
\* batches were cut off, after whichever request.
THEOREM RetryCompletes == Spec => []HalfMadeIsRetried
<1>1. Init => TypeOK /\ RetryInv
    <2> SUFFICES ASSUME Init PROVE RetryInv
        BY InitTypeOK
    <2>1. batch = {} /\ queue = {} /\ step = "idle"
        BY DEF Init
    <2> QED BY <2>1, InitLinked DEF RetryInv, LinksMade, HalfMadeIsRetried
<1>2. TypeOK /\ RetryInv /\ [Next]_vars => (TypeOK /\ RetryInv)'
    BY NextTypeOK, NextRetry
<1>3. RetryInv => HalfMadeIsRetried
    BY DEF RetryInv
<1> QED BY <1>1, <1>2, <1>3, PTL DEF Spec

-----------------------------------------------------------------------------
(* A message is only given up for a symbol that is taken: it is received   *)
(* once more than batches failed, and no rename makes two symbols one.     *)

Patience ==
    /\ failures \in 0..MaxFailures
    /\ \A s, t \in Created : s # t => symbol[s] # symbol[t]
    /\ ~clashed => /\ dead = {}
                   /\ \A msg \in queue \ batch : msg.receives <= failures
                   /\ \A msg \in batch : msg.receives <= failures + 1

\* Symbols that are renamed meet no other symbol, kept or new.
LEMMA RenamesApart ==
    ASSUME TypeOK, Patience, step = "symbols"
    PROVE  SymbolsDistinct
<1> SUFFICES ASSUME NEW s \in Created, NEW t \in Created, s # t PROVE SymbolsAfter[s] # SymbolsAfter[t]
    BY DEF SymbolsDistinct
<1>1. s \in Ids /\ t \in Ids
    BY IdsAreNumbers
<1>2. CASE s \in Renamed /\ t \in Renamed
    BY <1>1, <1>2 DEF Renamed, SymbolsAfter
<1>3. CASE s \in Renamed /\ t \notin Renamed
    BY <1>1, <1>3 DEF Renamed, SymbolsAfter
<1>4. CASE s \notin Renamed /\ t \in Renamed
    BY <1>1, <1>4 DEF Renamed, SymbolsAfter
<1>5. CASE s \notin Renamed /\ t \notin Renamed
    BY <1>1, <1>5 DEF Patience, SymbolsAfter
<1> QED BY <1>2, <1>3, <1>4, <1>5

\* With fewer failures than receives, no message of the queue is spent before a symbol is taken.
LEMMA NextPatience ==
    ASSUME MaxFailures < MaxReceives, TypeOK, RetryInv, Patience, [Next]_vars
    PROVE  Patience'
<1> USE DEF registry, worker, queues, counts
<1>1. \A msg \in queue \cup batch : msg.receives \in Nat
    BY DEF TypeOK, BatchTyped, MessageTyped
<1>2. failures \in Nat /\ MaxFailures \in Nat /\ MaxReceives \in Nat
    BY EntitiesAssumption DEF Patience
<1>3. ASSUME UNCHANGED <<symbol, failures, clashed, dead>>, queue' \ batch' \subseteq queue \ batch, batch' \subseteq batch
      PROVE  Patience'
    BY <1>3 DEF Patience, Created
<1>4. CASE Fetched
    <2>1. UNCHANGED <<symbol, failures, clashed, dead, batch>>
        BY <1>4 DEF Fetched
    <2>2. \A msg \in queue' : msg \in queue \/ msg.receives = 0
        BY <1>4 DEF Fetched
    <2> QED BY <1>2, <2>1, <2>2 DEF Patience, Created
<1>5. CASE Collect
    <2>1. PICK received \in SUBSET queue :
              /\ batch' = {[msg EXCEPT !.receives = @ + 1] : msg \in received}
              /\ queue' = (queue \ received) \cup batch'
        BY <1>5, CollectFrame
    <2>2. UNCHANGED <<symbol, failures, clashed, dead>> /\ batch = {}
        BY <1>5, CollectFrame DEF TypeOK, BatchTyped
    <2>3. ASSUME ~clashed, NEW again \in batch' PROVE again.receives <= failures + 1
        <3>1. PICK msg \in received : again = [msg EXCEPT !.receives = @ + 1]
            BY <2>1, <2>3
        <3>2. MessageTyped(msg) /\ msg.receives <= failures
            BY <2>2, <2>3 DEF TypeOK, BatchTyped, Patience
        <3>3. again.receives = msg.receives + 1
            BY <3>1, <3>2, ReceivedTyped
        <3> QED BY <1>1, <1>2, <3>2, <3>3
    <2> QED BY <2>1, <2>2, <2>3 DEF Patience, Created
<1>6. CASE CreateSecurity
    <2>1. PICK m \in Pending, s \in Ids \ Created :
             /\ \A t \in Created : symbol[t] # contracts[m].name
             /\ symbol' = [symbol EXCEPT ![s] = contracts[m].name]
             /\ Created' = Created \cup {s}
        BY <1>6, CreateSecurityFrame
    <2>2. UNCHANGED <<queue, dead, batch, clashed, failures>>
        BY <1>6 DEF CreateSecurity
    <2>3. \A t, u \in Created' : t # u => symbol'[t] # symbol'[u]
        BY <2>1, IdsAreNumbers DEF Patience, TypeOK, RegistryTyped
    <2> QED BY <2>2, <2>3 DEF Patience
<1>7. CASE SymbolClash
    BY <1>7 DEF SymbolClash, Patience, Created
<1>8. CASE RenameSecurities
    <2>1. step = "symbols" /\ SymbolsDistinct
        BY <1>8, RenamesApart DEF RenameSecurities
    <2>2. symbol' = SymbolsAfter /\ UNCHANGED <<queue, dead, batch, clashed, failures>>
        BY <1>8, <2>1 DEF RenameSecurities
    <2>3. Created' = Created
        BY <2>1, <2>2, RenameFrame DEF Created
    <2> QED BY <2>1, <2>2, <2>3 DEF Patience, SymbolsDistinct
<1>9. CASE Delete
    <2>1. PICK left \in SUBSET batch :
              /\ left # {} => failures < MaxFailures
              /\ failures' = IF left = {} THEN failures ELSE failures + 1
              /\ queue' = queue \ ((batch \ left) \cup {msg \in left : msg.receives >= MaxReceives})
              /\ dead' = dead \cup {msg \in left : msg.receives >= MaxReceives}
        BY <1>9 DEF Delete
    <2>2. UNCHANGED <<symbol, clashed>> /\ batch' = {}
        BY <1>9 DEF Delete
    <2>3. failures' \in 0..MaxFailures /\ failures <= failures'
        BY <1>2, <2>1 DEF Patience
    <2>4. ASSUME ~clashed
          PROVE  dead' = {} /\ \A msg \in queue' \ batch' : msg.receives <= failures'
        <3>1. dead = {} /\ \A msg \in left : msg.receives <= failures'
            BY <1>2, <2>1, <2>4 DEF Patience
        <3>2. \A msg \in left : ~(msg.receives >= MaxReceives)
            BY <1>1, <1>2, <2>3, <3>1
        <3>3. \A msg \in queue' : msg \in queue \ batch \/ msg \in left
            BY <2>1
        <3>4. \A msg \in queue \ batch : msg.receives <= failures'
            BY <1>1, <1>2, <2>3, <2>4 DEF Patience
        <3> QED BY <2>1, <3>1, <3>2, <3>3, <3>4
    <2> QED BY <2>2, <2>3, <2>4 DEF Patience, Created
<1>10. CASE Fails
    <2>1. /\ failures < MaxFailures /\ failures' = failures + 1 /\ UNCHANGED <<symbol, clashed>> /\ batch' = {}
          /\ queue' = queue \ {msg \in batch : msg.receives >= MaxReceives}
          /\ dead' = dead \cup {msg \in batch : msg.receives >= MaxReceives}
        BY <1>10 DEF Fails, Abandon
    <2>2. ASSUME ~clashed PROVE dead' = {} /\ \A msg \in queue' : msg.receives <= failures'
        <3>1. dead = {} /\ \A msg \in queue : msg.receives <= failures'
            BY <1>1, <1>2, <2>1, <2>2 DEF Patience
        <3>2. \A msg \in batch : ~(msg.receives >= MaxReceives)
            BY <1>1, <1>2, <2>1, <2>2 DEF Patience
        <3> QED BY <2>1, <3>1, <3>2
    <2> QED BY <1>2, <2>1, <2>2 DEF Patience, Created
<1>11. CASE CreateEvent \/ ReadListings \/ SecuritiesDone \/ CreateListing \/ ListingsDone \/ CreateEventContract
            \/ RenameLabels \/ RenameListings \/ SyncSources \/ Reconcile \/ Announce \/ UNCHANGED vars
    BY <1>3, <1>11 DEF CreateEvent, ReadListings, SecuritiesDone, CreateListing, ListingsDone, CreateEventContract,
                       RenameLabels, RenameListings, SyncSources, Reconcile, Announce, vars
<1> QED BY <1>4, <1>5, <1>6, <1>7, <1>8, <1>9, <1>10, <1>11 DEF Next, Worker, CreateEntities

\* When batches fail less often than the queue delivers a message, only a symbol that is taken makes the queue give one
\* up.
THEOREM OnlyClashesGiveUp ==
    ASSUME MaxFailures < MaxReceives
    PROVE  Spec => []NotGivenUp
<1> DEFINE Inv == TypeOK /\ RetryInv /\ Patience
<1>1. Init => Inv
    <2> SUFFICES ASSUME Init PROVE RetryInv /\ Patience
        BY InitTypeOK
    <2>1. batch = {} /\ queue = {} /\ dead = {} /\ step = "idle" /\ failures = 0
        BY DEF Init
    <2>2. \A s, t \in Created : s = t
        BY DEF Init, Created
    <2> QED BY <2>1, <2>2, InitLinked, EntitiesAssumption DEF RetryInv, LinksMade, HalfMadeIsRetried, Patience
<1>2. Inv /\ [Next]_vars => Inv'
    BY NextTypeOK, NextRetry, NextPatience
<1>3. Inv => NotGivenUp
    BY DEF Patience, NotGivenUp
<1> QED BY <1>1, <1>2, <1>3, PTL DEF Spec

=============================================================================
