-------------------------- MODULE FetchCycle_proofs --------------------------
(***************************************************************************)
(* Proofs about FetchCycle, for every set of exchanges, events, contracts  *)
(* and versions, every message cap and every fault.                        *)
(***************************************************************************)
EXTENDS FetchCycle, FiniteSetTheorems, TLAPS

-----------------------------------------------------------------------------
(* What the operators on pages and hashes return.                          *)

\* Writing one dict over another gives a dict.
LEMMA UpdateType ==
    ASSUME NEW old \in Hashes, NEW new \in Hashes
    PROVE  Update(old, new) \in Hashes
BY DEF Update, Hashes

\* A dict.update of two dicts that hold sent hashes only holds sent hashes.
LEMMA UpdateSent ==
    ASSUME NEW old, NEW new, OnlySent(old), OnlySent(new)
    PROVE  OnlySent(Update(old, new))
BY DEF OnlySent, Update

\* Any group that goes out is one of the page's.
LEMMA CappedSubset ==
    ASSUME NEW page, NEW gate, NEW remaining,
           NEW out \in Capped(NewOrChanged(page, gate), remaining)
    PROVE  out \subseteq Groups(page)
BY DEF Capped, NewOrChanged, Passing, LetIn, Quiet

\* The groups that go out under the cap are events, finitely many.
LEMMA CappedFinite ==
    ASSUME NEW page, NEW gate, NEW remaining, page \in Hashes,
           NEW out \in Capped(NewOrChanged(page, gate), remaining)
    PROVE  out \subseteq Event /\ Cardinality(out) \in Nat
<1>1. Groups(page) \subseteq Event
    BY ConstantsAssumption DEF Groups, Listed
<1>2. out \subseteq Event
    BY <1>1, CappedSubset
<1>3. IsFiniteSet(out)
    BY <1>2, ConstantsAssumption, FS_Subset
<1> QED BY <1>2, <1>3, FS_CardinalityType

\* The hashes a page leaves are a dict.
LEMMA UpdatedHashesType ==
    ASSUME NEW page \in Hashes, NEW gate, NEW out, loaded \in Hashes
    PROVE  UpdatedHashes(page, gate, out) \in Hashes
BY DEF UpdatedHashes, Hashes

\* After its groups went out, each hash a page leaves behind was sent: a group in out by
\* this send, any other passing contract by the one that made its hash known.
LEMMA UpdatedHashesSent ==
    ASSUME NEW page \in Hashes, NEW gate, NEW out,
           OnlySent(loaded), Deliver(page, out)
    PROVE  \A c \in Contract : UpdatedHashes(page, gate, out)[c] # None
                => <<c, UpdatedHashes(page, gate, out)[c]>> \in delivered'
<1> TAKE c \in Contract
<1> HAVE UpdatedHashes(page, gate, out)[c] # None
<1>1. CASE c \in Listed(page) /\ EventOf[c] \in out
    BY <1>1 DEF UpdatedHashes, Deliver
<1>2. CASE ~(c \in Listed(page) /\ EventOf[c] \in out)
    BY <1>2 DEF UpdatedHashes, Deliver, OnlySent
<1> QED BY <1>1, <1>2

-----------------------------------------------------------------------------
(* Type correctness.                                                       *)

\* What is delivered is contracts with versions.
LEMMA DeliverType ==
    ASSUME NEW page \in Hashes, NEW out, TypeOK, Deliver(page, out)
    PROVE  delivered' \subseteq Contract \X Version
BY DEF Deliver, TypeOK, Hashes, Listed

\* A page lets in games only.
LEMMA AdmittedType ==
    ASSUME NEW page, NEW gate, TypeOK
    PROVE  AdmittedAfter(page, gate) \subseteq Game
BY ConstantsAssumption DEF AdmittedAfter, TypeOK, Groups, Listed

\* The count of faults stays in its bound.
LEMMA FaultType ==
    ASSUME NEW kind, TypeOK, Fault(kind)
    PROVE  faults' \in FaultLog
BY ConstantsAssumption DEF Fault, FaultLog, TypeOK

\* An exchange that failed leaves the state in its type.
LEMMA DropExchangeType ==
    ASSUME TypeOK, DropExchange
    PROVE  /\ merged' \in Hashes /\ hashes' \in Hashes /\ held' \in Hashes
           /\ unread' \subseteq Event /\ gated' \subseteq Event /\ admitted' \subseteq Game
           /\ pc' = "cycle" /\ exchange' = None
BY UpdateType DEF DropExchange, LeaveExchange, TypeOK, NoHashes, Hashes

\* The hashes of a page of the feed, and of the core markets that are released.
LEMMA PageType ==
    ASSUME NEW events, TypeOK
    PROVE  [c \in Contract |-> IF EventOf[c] \in events THEN feed[c] ELSE None] \in Hashes
BY DEF TypeOK, Hashes

\* What is released is held contracts.
LEMMA ReleasedType ==
    ASSUME TypeOK
    PROVE  Released \in Hashes
BY DEF TypeOK, Hashes, Released

\* Every step keeps the state in its type.
LEMMA NextTypeOK == TypeOK /\ [Next]_vars => TypeOK'
<1> SUFFICES ASSUME TypeOK, [Next]_vars PROVE TypeOK'
    OBVIOUS
<1> NoHashes \in Hashes
    BY DEF NoHashes, Hashes
<1>1. ASSUME NEW c \in Contract, NEW v \in Version \cup {None}, VenueChanges(c, v)
      PROVE  TypeOK'
    <2>1. feed' \in Hashes
        BY <1>1 DEF VenueChanges, TypeOK, Hashes
    <2>2. changes' \in 0..MaxChanges
        BY <1>1, ConstantsAssumption DEF VenueChanges, TypeOK
    <2> QED BY <1>1, <2>1, <2>2
        DEF VenueChanges, TypeOK, pageVars, cycleVars
<1>2. ASSUME NEW e \in Event, VolumeCrosses(e)
      PROVE  TypeOK'
    <2>1. changes' \in 0..MaxChanges
        BY <1>2, ConstantsAssumption DEF VolumeCrosses, TypeOK
    <2> QED BY <1>2, <2>1
        DEF VolumeCrosses, TypeOK, pageVars, cycleVars
<1>3. CASE StartCycle
    <2>1. loaded' \in Hashes /\ merged' \in Hashes
        BY <1>3 DEF StartCycle, TypeOK
    <2>2. faults' \in FaultLog
        BY <1>3, FaultType DEF StartCycle, TypeOK
    <2> QED BY <1>3, <2>1, <2>2
        DEF StartCycle, TypeOK, venueVars, pageVars
<1>4. ASSUME NEW x \in Exchange, StartExchange(x)
      PROVE  TypeOK'
    BY <1>4 DEF StartExchange, TypeOK, EventsOf, venueVars
<1>5. ASSUME NEW events \in SUBSET Event, ReadPage(events)
      PROVE  TypeOK'
    <2> DEFINE page == [c \in Contract |-> IF EventOf[c] \in events THEN feed[c] ELSE None]
    <2>1. page \in Hashes
        BY PageType
    <2>2. PICK out \in Capped(NewOrChanged(page, TRUE), MaxMessages - sent) :
              /\ Deliver(page, out)
              /\ sent' = sent + Cardinality(out)
              /\ hashes' = Update(hashes, UpdatedHashes(page, TRUE, out))
        BY <1>5 DEF ReadPage
    <2>3. out \subseteq Event /\ Cardinality(out) \in Nat
        BY <2>1, CappedFinite
    <2>4. hashes' \in Hashes
        BY <2>1, <2>2, UpdateType, UpdatedHashesType DEF TypeOK
    <2>5. delivered' \subseteq Contract \X Version
        BY <2>1, <2>2, <2>3, DeliverType
    <2>6. sent' \in Nat
        BY <2>2, <2>3 DEF TypeOK
    <2>7. admitted' \subseteq Game
        BY <1>5, AdmittedType DEF ReadPage
    <2>8. held' \in Hashes
        BY <1>5, <2>1 DEF ReadPage, TypeOK, Hashes
    <2>9. gated' \subseteq Event
        BY <1>5, ConstantsAssumption DEF ReadPage, TypeOK, Groups, Listed
    <2>10. seen' \subseteq Contract /\ unread' \subseteq Event
        BY <1>5 DEF ReadPage, TypeOK, Listed
    <2>11. UNCHANGED <<feed, loud, changes, known, pc, loaded, merged, pending, exchange, leftFeed, faults>>
        BY <1>5 DEF ReadPage, venueVars
    <2> QED BY <2>4, <2>5, <2>6, <2>7, <2>8, <2>9, <2>10, <2>11 DEF TypeOK
<1>6. ASSUME NEW events \in SUBSET Event, SendFails(events)
      PROVE  TypeOK'
    <2> DEFINE page == [c \in Contract |-> IF EventOf[c] \in events THEN feed[c] ELSE None]
    <2>1. page \in Hashes
        BY PageType
    <2>2. PICK out \in Capped(NewOrChanged(page, TRUE), MaxMessages - sent) :
              \E accepted \in SUBSET out : Deliver(page, accepted)
        BY <1>6 DEF SendFails
    <2>3. out \subseteq Event
        BY <2>1, CappedFinite
    <2>a. PICK accepted \in SUBSET out : Deliver(page, accepted)
        BY <2>2
    <2>4. Cardinality(accepted) \in Nat
        BY <2>3, ConstantsAssumption, FS_Subset, FS_CardinalityType
    <2>5. delivered' \subseteq Contract \X Version
        BY <2>1, <2>a, <2>4, DeliverType
    <2>6. faults' \in FaultLog
        BY <1>6, FaultType DEF SendFails
    <2>7. seen' \subseteq Contract
        BY <1>6 DEF SendFails, TypeOK, Listed
    <2>8. DropExchange
        BY <1>6 DEF SendFails
    <2>9. UNCHANGED <<feed, loud, changes, known, loaded, pending, sent, leftFeed>>
        BY <1>6 DEF SendFails, venueVars
    <2> QED BY <2>5, <2>6, <2>7, <2>8, <2>9, DropExchangeType DEF TypeOK
<1>7. CASE VenueFails
    <2>1. faults' \in FaultLog
        BY <1>7, FaultType DEF VenueFails
    <2>2. DropExchange
        BY <1>7 DEF VenueFails
    <2>3. UNCHANGED <<feed, loud, changes, known, loaded, pending, sent, leftFeed, seen,
                      delivered>>
        BY <1>7 DEF VenueFails, venueVars
    <2> QED BY <2>1, <2>2, <2>3, DropExchangeType DEF TypeOK
<1>8. CASE FinishExchange
    <2> DEFINE own == {c \in Contract : ExchangeOf[EventOf[c]] = exchange}
    <2>1. Released \in Hashes
        BY ReleasedType
    <2>2. PICK out \in Capped(NewOrChanged(Released, FALSE), MaxMessages - sent) :
              LET final == Update(hashes, UpdatedHashes(Released, FALSE, out))
              IN  /\ Deliver(Released, out)
                  /\ sent' = sent + Cardinality(out)
                  /\ leftFeed' = leftFeed \cup {c \in own : loaded[c] # None /\ final[c] = None}
                  /\ merged' = [c \in Contract |-> IF c \in own THEN final[c] ELSE merged[c]]
        BY <1>8 DEF FinishExchange
    <2>3. out \subseteq Event /\ Cardinality(out) \in Nat
        BY <2>1, CappedFinite
    <2>4. Update(hashes, UpdatedHashes(Released, FALSE, out)) \in Hashes
        BY <2>1, UpdateType, UpdatedHashesType DEF TypeOK
    <2>5. merged' \in Hashes
        BY <2>2, <2>4 DEF Hashes, TypeOK
    <2>6. delivered' \subseteq Contract \X Version
        BY <2>1, <2>2, <2>3, DeliverType
    <2>7. sent' \in Nat
        BY <2>2, <2>3 DEF TypeOK
    <2>8. leftFeed' \subseteq Contract
        BY <2>2 DEF TypeOK
    <2>9. /\ gated' \subseteq Event /\ pc' = "cycle" /\ exchange' = None /\ hashes' \in Hashes
          /\ admitted' \subseteq Game /\ held' \in Hashes
        BY <1>8 DEF FinishExchange, TypeOK
    <2>10. UNCHANGED <<feed, loud, changes, known, loaded, pending, unread, seen, faults>>
        BY <1>8 DEF FinishExchange, venueVars
    <2> QED BY <2>5, <2>6, <2>7, <2>8, <2>9, <2>10 DEF TypeOK
<1>9. CASE ReleaseSendFails
    <2>1. Released \in Hashes
        BY ReleasedType
    <2>2. PICK out \in Capped(NewOrChanged(Released, FALSE), MaxMessages - sent) :
              \E accepted \in SUBSET out : Deliver(Released, accepted)
        BY <1>9 DEF ReleaseSendFails
    <2>3. out \subseteq Event
        BY <2>1, CappedFinite
    <2>a. PICK accepted \in SUBSET out : Deliver(Released, accepted)
        BY <2>2
    <2>4. Cardinality(accepted) \in Nat
        BY <2>3, ConstantsAssumption, FS_Subset, FS_CardinalityType
    <2>5. delivered' \subseteq Contract \X Version
        BY <2>1, <2>a, <2>4, DeliverType
    <2>6. faults' \in FaultLog
        BY <1>9, FaultType DEF ReleaseSendFails
    <2>7. DropExchange
        BY <1>9 DEF ReleaseSendFails
    <2>8. UNCHANGED <<feed, loud, changes, known, loaded, pending, sent, leftFeed, seen>>
        BY <1>9 DEF ReleaseSendFails, venueVars
    <2> QED BY <2>5, <2>6, <2>7, <2>8, DropExchangeType DEF TypeOK
<1>10. CASE FinishCycle
    <2>1. known' \in Hashes
        BY <1>10 DEF FinishCycle, TypeOK
    <2>2. faults' \in FaultLog
        BY <1>10, FaultType DEF FinishCycle, TypeOK
    <2> QED BY <1>10, <2>1, <2>2
        DEF FinishCycle, TypeOK, venueVars, pageVars, cycleVars
<1>11. CASE Crash
    <2>1. faults' \in FaultLog
        BY <1>11, FaultType DEF Crash
    <2> QED BY <1>11, <2>1 DEF Crash, TypeOK, venueVars
<1>12. CASE UNCHANGED vars
    BY <1>12 DEF vars, TypeOK, venueVars, pageVars, cycleVars
<1> QED BY <1>1, <1>2, <1>3, <1>4, <1>5, <1>6, <1>7, <1>8, <1>9, <1>10, <1>11, <1>12
    DEF Next, Runner

\* The state of the fetch cycle always has its type.
THEOREM TypeCorrect == Spec => []TypeOK
<1>1. Init => TypeOK
    BY ConstantsAssumption DEF Init, TypeOK, FaultLog, NoHashes, Hashes
<1> QED BY <1>1, NextTypeOK, PTL DEF Spec

-----------------------------------------------------------------------------
(* Only sent hashes are kept.                                              *)

\* Every step keeps the dicts to hashes that were delivered.
LEMMA NextKnownWasSent == TypeOK /\ KnownWasSent /\ [Next]_vars => KnownWasSent'
<1> SUFFICES ASSUME TypeOK, KnownWasSent, [Next]_vars PROVE KnownWasSent'
    OBVIOUS
<1> USE DEF KnownWasSent
<1>1. ASSUME UNCHANGED <<known, loaded, merged, hashes, delivered>>
      PROVE  KnownWasSent'
    BY <1>1 DEF OnlySent
<1>2. CASE StartCycle
    BY <1>2 DEF StartCycle, OnlySent, NoHashes, pageVars
<1>3. ASSUME NEW x \in Exchange, StartExchange(x)
      PROVE  KnownWasSent'
    BY <1>3 DEF StartExchange, OnlySent, NoHashes
<1>4. ASSUME NEW events \in SUBSET Event, ReadPage(events)
      PROVE  KnownWasSent'
    <2> DEFINE page == [c \in Contract |-> IF EventOf[c] \in events THEN feed[c] ELSE None]
    <2>1. page \in Hashes
        BY PageType
    <2>2. PICK out \in Capped(NewOrChanged(page, TRUE), MaxMessages - sent) :
              /\ Deliver(page, out)
              /\ hashes' = Update(hashes, UpdatedHashes(page, TRUE, out))
        BY <1>4 DEF ReadPage
    <2>3. delivered \subseteq delivered'
        BY <2>2 DEF Deliver
    <2>4. UNCHANGED <<known, loaded, merged>>
        BY <1>4 DEF ReadPage
    <2>5. OnlySent(known)' /\ OnlySent(loaded)' /\ OnlySent(merged)'
        BY <2>3, <2>4 DEF OnlySent
    <2>6. \A c \in Contract : UpdatedHashes(page, TRUE, out)[c] # None
              => <<c, UpdatedHashes(page, TRUE, out)[c]>> \in delivered'
        BY <2>1, <2>2, UpdatedHashesSent
    <2>7. OnlySent(hashes)'
        BY <2>2, <2>3, <2>6 DEF OnlySent, Update
    <2> QED BY <2>5, <2>7
<1>5. ASSUME DropExchange, delivered \subseteq delivered', UNCHANGED <<known, loaded>>
      PROVE  KnownWasSent'
    <2>1. OnlySent(Update(merged, hashes))
        BY UpdateSent
    <2>2. OnlySent(known)' /\ OnlySent(loaded)' /\ OnlySent(merged)'
        BY <1>5, <2>1 DEF OnlySent, DropExchange
    <2>3. OnlySent(hashes)'
        BY <1>5 DEF DropExchange, LeaveExchange, OnlySent, NoHashes
    <2> QED BY <2>2, <2>3
<1>6. ASSUME NEW events \in SUBSET Event, SendFails(events)
      PROVE  KnownWasSent'
    BY <1>5, <1>6 DEF SendFails, Deliver
<1>7. CASE VenueFails
    BY <1>5, <1>7 DEF VenueFails
<1>8. CASE ReleaseSendFails
    BY <1>5, <1>8 DEF ReleaseSendFails, Deliver
<1>9. CASE FinishExchange
    <2> DEFINE own == {c \in Contract : ExchangeOf[EventOf[c]] = exchange}
    <2>1. Released \in Hashes
        BY ReleasedType
    <2>2. PICK out \in Capped(NewOrChanged(Released, FALSE), MaxMessages - sent) :
              LET final == Update(hashes, UpdatedHashes(Released, FALSE, out))
              IN  /\ Deliver(Released, out)
                  /\ merged' = [c \in Contract |-> IF c \in own THEN final[c] ELSE merged[c]]
        BY <1>9 DEF FinishExchange
    <2>3. delivered \subseteq delivered'
        BY <2>2 DEF Deliver
    <2>4. UNCHANGED <<known, loaded>> /\ hashes' = NoHashes
        BY <1>9 DEF FinishExchange
    <2>5. OnlySent(known)' /\ OnlySent(loaded)' /\ OnlySent(hashes)'
        BY <2>3, <2>4 DEF OnlySent, NoHashes
    <2>6. \A c \in Contract : UpdatedHashes(Released, FALSE, out)[c] # None
              => <<c, UpdatedHashes(Released, FALSE, out)[c]>> \in delivered'
        BY <2>1, <2>2, UpdatedHashesSent
    <2>7. OnlySent(merged)'
        BY <2>2, <2>3, <2>6 DEF OnlySent, Update
    <2> QED BY <2>5, <2>7
<1>10. CASE FinishCycle
    BY <1>10 DEF FinishCycle, OnlySent, pageVars, cycleVars
<1>11. CASE Crash
    BY <1>11 DEF Crash, OnlySent, NoHashes
<1>12. ASSUME NEW c \in Contract, NEW v \in Version \cup {None}, VenueChanges(c, v)
       PROVE  KnownWasSent'
    BY <1>1, <1>12 DEF VenueChanges, pageVars, cycleVars
<1>13. ASSUME NEW e \in Event, VolumeCrosses(e)
       PROVE  KnownWasSent'
    BY <1>1, <1>13 DEF VolumeCrosses, pageVars, cycleVars
<1>14. CASE UNCHANGED vars
    BY <1>1, <1>14 DEF vars, pageVars, cycleVars
<1> QED BY <1>2, <1>3, <1>4, <1>6, <1>7, <1>8, <1>9, <1>10, <1>11, <1>12, <1>13, <1>14
    DEF Next, Runner

\* Whatever fails, a version the normalize worker was not sent still differs from the hash
\* in Redis, so the next cycle sends it.
THEOREM OnlySentHashesKept == Spec => []KnownWasSent
<1>1. Init => KnownWasSent
    BY DEF Init, KnownWasSent, OnlySent, NoHashes
<1> QED BY <1>1, TypeCorrect, NextKnownWasSent, PTL DEF Spec

-----------------------------------------------------------------------------
(* What left the feed was not read.                                        *)

\* A known contract on a page is never dropped: its group was already sent, so it passes
\* the volume gate, and keeps either its new hash or its known one.
LEMMA KnownKeepsHash ==
    ASSUME NEW page, NEW gate, NEW out, NEW c \in Listed(page),
           loaded[c] # None
    PROVE  UpdatedHashes(page, gate, out)[c] # None
<1>1. c \in Contract /\ page[c] # None
    BY DEF Listed
<1>2. EventOf[c] \in Passing(page, gate)
    BY <1>1 DEF Passing, Quiet, AlreadySent, Group, Groups
<1> QED BY <1>1, <1>2 DEF UpdatedHashes

\* Every step keeps what was read apart from what left the feed.
LEMMA NextLeftFeedInv == TypeOK /\ LeftFeedInv /\ [Next]_vars => LeftFeedInv'
<1> SUFFICES ASSUME TypeOK, LeftFeedInv, [Next]_vars PROVE LeftFeedInv'
    OBVIOUS
<1> USE DEF LeftFeedInv, LeftFeedIsGone, ReadOnce, KnownReadAgain, ExchangeIs
<1>1. ASSUME UNCHANGED <<pc, exchange, pending, unread, seen, leftFeed, loaded, hashes>>
      PROVE  LeftFeedInv'
    BY <1>1 DEF EventsOf
<1>2. CASE StartCycle
    BY <1>2 DEF StartCycle
<1>3. ASSUME NEW x \in Exchange, StartExchange(x)
      PROVE  LeftFeedInv'
    BY <1>3 DEF StartExchange, EventsOf
\* What a page adds to seen is of the exchange being paged, which nothing has left yet.
<1>4. ASSUME NEW events \in SUBSET Event, pc = "paging", events \subseteq unread,
             NEW c \in Listed([d \in Contract |-> IF EventOf[d] \in events THEN feed[d] ELSE None])
      PROVE  c \in Contract /\ ExchangeIs(c) = exchange /\ c \notin leftFeed
    BY <1>4 DEF Listed, EventsOf
<1>5. ASSUME NEW events \in SUBSET Event, ReadPage(events)
      PROVE  LeftFeedInv'
    <2> DEFINE page == [c \in Contract |-> IF EventOf[c] \in events THEN feed[c] ELSE None]
    <2>1. PICK out : hashes' = Update(hashes, UpdatedHashes(page, TRUE, out))
        BY <1>5 DEF ReadPage
    <2>2. /\ pc = "paging" /\ events \subseteq unread
          /\ unread' = unread \ events /\ seen' = seen \cup Listed(page)
          /\ UNCHANGED <<pc, exchange, pending, leftFeed, loaded>>
        BY <1>5 DEF ReadPage
    <2>3. \A c \in Listed(page) : c \in Contract /\ ExchangeIs(c) = exchange /\ c \notin leftFeed
        BY <1>4, <2>2
    <2>4. \A c \in Listed(page) : loaded[c] # None => UpdatedHashes(page, TRUE, out)[c] # None
        BY KnownKeepsHash
    <2>5. \A c \in seen' : ExchangeIs(c) = exchange /\ loaded[c] # None => hashes'[c] # None
        BY <2>1, <2>2, <2>3, <2>4 DEF Update, TypeOK
    <2> QED BY <2>2, <2>3, <2>5 DEF EventsOf
<1>6. ASSUME NEW events \in SUBSET Event, SendFails(events)
      PROVE  LeftFeedInv'
    <2> DEFINE page == [c \in Contract |-> IF EventOf[c] \in events THEN feed[c] ELSE None]
    <2>1. /\ pc = "paging" /\ events \subseteq unread /\ seen' = seen \cup Listed(page)
          /\ pc' = "cycle" /\ UNCHANGED <<pending, leftFeed, loaded>>
        BY <1>6 DEF SendFails, DropExchange, LeaveExchange
    <2>2. \A c \in Listed(page) : c \in Contract /\ ExchangeIs(c) = exchange /\ c \notin leftFeed
        BY <1>4, <2>1
    <2> QED BY <2>1, <2>2
<1>7. CASE VenueFails
    BY <1>7 DEF VenueFails, DropExchange, LeaveExchange
<1>8. CASE ReleaseSendFails
    BY <1>8 DEF ReleaseSendFails, DropExchange, LeaveExchange
<1>9. CASE FinishExchange
    <2> DEFINE own == {c \in Contract : ExchangeOf[EventOf[c]] = exchange}
    <2>1. PICK out \in Capped(NewOrChanged(Released, FALSE), MaxMessages - sent) :
              LET final == Update(hashes, UpdatedHashes(Released, FALSE, out))
              IN  leftFeed' = leftFeed \cup {c \in own : loaded[c] # None /\ final[c] = None}
        BY <1>9 DEF FinishExchange
    <2>2. pc = "paging" /\ pc' = "cycle" /\ UNCHANGED <<pending, seen, loaded>>
        BY <1>9 DEF FinishExchange
    <2>3. \A c \in leftFeed' \ leftFeed :
              c \in Contract /\ ExchangeIs(c) = exchange /\ loaded[c] # None /\ hashes[c] = None
        BY <2>1 DEF Update
    <2>4. (leftFeed' \ leftFeed) \cap seen = {}
        BY <2>2, <2>3
    <2> QED BY <2>2, <2>3, <2>4
<1>10. CASE FinishCycle
    BY <1>10 DEF FinishCycle, pageVars, cycleVars
<1>11. CASE Crash
    BY <1>11 DEF Crash
<1>12. ASSUME NEW c \in Contract, NEW v \in Version \cup {None}, VenueChanges(c, v)
       PROVE  LeftFeedInv'
    BY <1>1, <1>12 DEF VenueChanges, pageVars, cycleVars
<1>13. ASSUME NEW e \in Event, VolumeCrosses(e)
       PROVE  LeftFeedInv'
    BY <1>1, <1>13 DEF VolumeCrosses, pageVars, cycleVars
<1>14. CASE UNCHANGED vars
    BY <1>1, <1>14 DEF vars, pageVars, cycleVars
<1> QED BY <1>2, <1>3, <1>5, <1>6, <1>7, <1>8, <1>9, <1>10, <1>11, <1>12, <1>13, <1>14
    DEF Next, Runner

\* No contract the cycle read is handed to the closure check as gone.
THEOREM ListedNeverLeft == Spec => []LeftFeedIsGone
<1>1. Init => LeftFeedInv
    BY DEF Init, LeftFeedInv, LeftFeedIsGone, ReadOnce, KnownReadAgain
<1>2. LeftFeedInv => LeftFeedIsGone
    BY DEF LeftFeedInv
<1> QED BY <1>1, <1>2, TypeCorrect, NextLeftFeedInv, PTL DEF Spec

-----------------------------------------------------------------------------
(* The fetch cycle implements Outbox.                                      *)

\* Every step keeps in the copy to be saved what did not leave the feed.
LEMMA NextMergedKeeps == MergedKeeps /\ [Next]_vars => MergedKeeps'
<1> SUFFICES ASSUME MergedKeeps, [Next]_vars PROVE MergedKeeps'
    OBVIOUS
<1> USE DEF MergedKeeps
<1>1. ASSUME UNCHANGED <<loaded, merged, leftFeed>>
      PROVE  MergedKeeps'
    BY <1>1
<1>2. CASE StartCycle
    BY <1>2 DEF StartCycle
<1>3. ASSUME NEW x \in Exchange, StartExchange(x)
      PROVE  MergedKeeps'
    BY <1>1, <1>3 DEF StartExchange
<1>4. ASSUME NEW events \in SUBSET Event, ReadPage(events)
      PROVE  MergedKeeps'
    BY <1>1, <1>4 DEF ReadPage
<1>5. ASSUME DropExchange, UNCHANGED <<loaded, leftFeed>>
      PROVE  MergedKeeps'
    BY <1>5 DEF DropExchange, Update
<1>6. ASSUME NEW events \in SUBSET Event, SendFails(events)
      PROVE  MergedKeeps'
    BY <1>5, <1>6 DEF SendFails
<1>7. CASE VenueFails
    BY <1>5, <1>7 DEF VenueFails
<1>8. CASE ReleaseSendFails
    BY <1>5, <1>8 DEF ReleaseSendFails
<1>9. CASE FinishExchange
    <2> DEFINE own == {c \in Contract : ExchangeOf[EventOf[c]] = exchange}
    <2>1. PICK out \in Capped(NewOrChanged(Released, FALSE), MaxMessages - sent) :
              LET final == Update(hashes, UpdatedHashes(Released, FALSE, out))
              IN  /\ leftFeed' = leftFeed \cup {c \in own : loaded[c] # None /\ final[c] = None}
                  /\ merged' = [c \in Contract |-> IF c \in own THEN final[c] ELSE merged[c]]
        BY <1>9 DEF FinishExchange
    <2>2. UNCHANGED loaded
        BY <1>9 DEF FinishExchange
    <2> QED BY <2>1, <2>2
<1>10. CASE FinishCycle
    BY <1>1, <1>10 DEF FinishCycle, cycleVars
<1>11. CASE Crash
    BY <1>11 DEF Crash, NoHashes
<1>12. ASSUME NEW c \in Contract, NEW v \in Version \cup {None}, VenueChanges(c, v)
       PROVE  MergedKeeps'
    BY <1>1, <1>12 DEF VenueChanges, cycleVars
<1>13. ASSUME NEW e \in Event, VolumeCrosses(e)
       PROVE  MergedKeeps'
    BY <1>1, <1>13 DEF VolumeCrosses, cycleVars
<1>14. CASE UNCHANGED vars
    BY <1>1, <1>14 DEF vars, cycleVars
<1> QED BY <1>2, <1>3, <1>4, <1>6, <1>7, <1>8, <1>9, <1>10, <1>11, <1>12, <1>13, <1>14
    DEF Next, Runner

\* Only the end of a cycle writes to Redis; whatever else a step does, it at most sends.
LEMMA NextSaves ==
    ASSUME TypeOK, [Next]_vars
    PROVE  \/ UNCHANGED known /\ delivered \subseteq delivered'
           \/ FinishCycle /\ known' = merged /\ UNCHANGED <<delivered, loaded, leftFeed>>
<1>1. ASSUME NEW events \in SUBSET Event, ReadPage(events) \/ SendFails(events)
      PROVE  UNCHANGED known /\ delivered \subseteq delivered'
    BY <1>1 DEF ReadPage, SendFails, Deliver
<1>2. CASE FinishExchange \/ ReleaseSendFails
    BY <1>2 DEF FinishExchange, ReleaseSendFails, Deliver
<1>3. CASE FinishCycle
    BY <1>3 DEF FinishCycle, cycleVars
<1>4. CASE StartCycle \/ VenueFails \/ Crash \/ UNCHANGED vars
    BY <1>4 DEF StartCycle, VenueFails, Crash, vars
<1>5. ASSUME NEW x \in Exchange, StartExchange(x)
      PROVE  UNCHANGED known /\ delivered \subseteq delivered'
    BY <1>5 DEF StartExchange
<1>6. ASSUME NEW c \in Contract, NEW v \in Version \cup {None}, VenueChanges(c, v)
      PROVE  UNCHANGED known /\ delivered \subseteq delivered'
    BY <1>6 DEF VenueChanges
<1>7. ASSUME NEW e \in Event, VolumeCrosses(e)
      PROVE  UNCHANGED known /\ delivered \subseteq delivered'
    BY <1>7 DEF VolumeCrosses
<1> QED BY <1>1, <1>2, <1>3, <1>4, <1>5, <1>6, <1>7 DEF Next, Runner

\* Every step of a cycle is one of Outbox, or none.
LEMMA StepImplements ==
    TypeOK /\ TypeOK' /\ KnownWasSent /\ MergedKeeps /\ [Next]_vars => [Log!Next]_(Log!vars)
<1> SUFFICES ASSUME TypeOK, TypeOK', KnownWasSent, MergedKeeps, [Next]_vars
             PROVE  Log!Next
    OBVIOUS
<1> DEFINE excused == {c \in Contract : c \in leftFeed \/ loaded[c] = None}
<1>1. CASE UNCHANGED known /\ delivered \subseteq delivered'
    <2>1. delivered' \subseteq Contract \X Version
        BY DEF TypeOK
    <2> QED BY <1>1, <2>1 DEF Log!Next, Log!Deliver
<1>2. CASE FinishCycle /\ known' = merged /\ UNCHANGED <<delivered, loaded, leftFeed>>
    <2>1. known' \in [Contract -> Version \cup {None}]
        BY DEF TypeOK, Hashes
    <2>2. UNCHANGED <<delivered, excused>>
        BY <1>2
    <2>3. ASSUME NEW c \in Contract
          PROVE  \/ <<c, known'[c]>> \in delivered
                 \/ known'[c] = None /\ c \in excused
        <3>1. CASE merged[c] # None
            BY <1>2, <3>1 DEF KnownWasSent, OnlySent
        <3>2. CASE merged[c] = None
            BY <1>2, <3>2 DEF MergedKeeps
        <3> QED BY <3>1, <3>2
    <2> QED BY <2>1, <2>2, <2>3 DEF Log!Next, Log!Save
<1> QED BY <1>1, <1>2, NextSaves

\* Whatever pages, exchanges, sends, loads and saves fail, and wherever the process dies, the cycle's
\* work on a copy of the hashes, committed exchange by exchange, is a log of what was sent.
THEOREM ImplementsOutbox == Spec => KeepsOutbox
<1>1. Init => Log!Init /\ KnownWasSent /\ MergedKeeps
    BY DEF Init, Log!Init, KnownWasSent, OnlySent, MergedKeeps, NoHashes
<1> QED BY <1>1, TypeCorrect, OnlySentHashesKept, NextMergedKeeps, StepImplements, PTL
        DEF Spec, KeepsOutbox, Log!Spec

-----------------------------------------------------------------------------
(* The core markets of a game go out together.                             *)
(*                                                                         *)
(* While an exchange is paged its gated core markets are not lost: each is *)
(* held for its game, and a game of which any event passed is let in, so   *)
(* that FinishExchange releases what is held of it.                        *)

GameEvent(e) == e \in Core /\ GameOf[e] # NoGame

\* What is gated or held is of the exchanges started, or of the one being paged.
GatedWereRead == \A e \in gated : ExchangeOf[e] \notin pending
HeldHere      == \A c \in Contract : held[c] # None => ExchangeIs(c) = exchange

GatedAreHeld ==
    pc = "paging" =>
        \A e \in gated : GameEvent(e) /\ ExchangeOf[e] = exchange =>
            \E c \in Contract : EventOf[c] = e /\ held[c] # None
PassedAreAdmitted ==
    pc = "paging" =>
        \A c \in seen : ExchangeIs(c) = exchange /\ GameOf[EventOf[c]] # NoGame =>
            EventOf[c] \in gated \/ GameOf[EventOf[c]] \in admitted

\* The exchanges that are over keep the promise, also while another is paged.
TogetherElsewhere ==
    \A e \in gated, c \in seen :
        /\ GameEvent(e) /\ GameOf[EventOf[c]] = GameOf[e] /\ ExchangeIs(c) = ExchangeOf[e]
        /\ pc = "paging" => ExchangeOf[e] # exchange
        => EventOf[c] \in gated

GameInv == GatedWereRead /\ HeldHere /\ GatedAreHeld /\ PassedAreAdmitted /\ TogetherElsewhere

\* A page lets in the game of each event that passes, and holds each of a game's core markets that
\* does not.
LEMMA PageGates ==
    ASSUME NEW page, NEW e \in Groups(page)
    PROVE  /\ e \in Passing(page, TRUE) /\ GameOf[e] # NoGame => GameOf[e] \in AdmittedAfter(page, TRUE)
           /\ e \notin Passing(page, TRUE) /\ GameEvent(e) => e \in Held(page, TRUE)
BY DEF Passing, LetIn, Held, Quiet, AdmittedAfter, GameEvent

\* A page's contracts and groups are of the exchange being paged.
LEMMA PageHere ==
    ASSUME NEW events, events \subseteq unread, unread \subseteq EventsOf(exchange), NEW c,
           c \in Listed([d \in Contract |-> IF EventOf[d] \in events THEN feed[d] ELSE None])
    PROVE  c \in Contract /\ EventOf[c] \in Event /\ ExchangeIs(c) = exchange
BY DEF Listed, EventsOf, ExchangeIs

\* The events of an exchange that fails are nobody's promise.
LEMMA DropKeepsGames ==
    ASSUME TypeOK, GameInv, pc = "paging", DropExchange, UNCHANGED pending,
           \A c \in seen' : c \in seen \/ ExchangeIs(c) = exchange
    PROVE  GameInv'
<1> /\ pc' = "cycle" /\ held' = NoHashes /\ gated' = gated \ EventsOf(exchange)
    BY DEF DropExchange, LeaveExchange
<1>1. GatedWereRead' /\ HeldHere' /\ GatedAreHeld' /\ PassedAreAdmitted'
    BY DEF GameInv, GatedWereRead, HeldHere, GatedAreHeld, PassedAreAdmitted, NoHashes
<1>2. ASSUME NEW e \in gated', NEW c \in seen', GameEvent(e), GameOf[EventOf[c]] = GameOf[e],
             ExchangeIs(c) = ExchangeOf[e]
      PROVE  EventOf[c] \in gated'
    <2>1. e \in gated /\ ExchangeOf[e] # exchange
        BY <1>2 DEF TypeOK, EventsOf
    <2> QED BY <1>2, <2>1 DEF GameInv, TogetherElsewhere, EventsOf, ExchangeIs
<1> QED BY <1>1, <1>2 DEF GameInv, TogetherElsewhere

\* The next page keeps the promise of the exchanges before, and prepares that of its own.
LEMMA PageKeepsGames ==
    ASSUME TypeOK, ReadOnce, GameInv, NEW events \in SUBSET Event, ReadPage(events)
    PROVE  GameInv'
<1> DEFINE page == [c \in Contract |-> IF EventOf[c] \in events THEN feed[c] ELSE None]
<1>1. /\ pc = "paging" /\ events \subseteq unread /\ unread \subseteq EventsOf(exchange)
      /\ exchange \notin pending /\ seen' = seen \cup Listed(page)
      /\ UNCHANGED <<pc, exchange, pending>>
    BY DEF ReadPage, ReadOnce
<1>2. /\ admitted' = AdmittedAfter(page, TRUE)
      /\ gated' = gated \cup (Groups(page) \ Passing(page, TRUE))
      /\ held' = [c \in Contract |->
                     IF c \in Listed(page) /\ EventOf[c] \in Held(page, TRUE) THEN page[c] ELSE held[c]]
    BY DEF ReadPage
<1> HIDE DEF page
<1>3. \A c \in Listed(page) : c \in Contract /\ page[c] # None /\ ExchangeIs(c) = exchange
    BY <1>1, PageHere DEF page, Listed
<1>4. \A e \in Groups(page) : ExchangeOf[e] = exchange /\ \E c \in Listed(page) : EventOf[c] = e
    BY <1>3 DEF Groups, ExchangeIs
<1>5. admitted \subseteq admitted'
    BY <1>2 DEF AdmittedAfter
<1>6. \A c \in Contract : held[c] # None => held'[c] # None
    BY <1>2, <1>3
<1>7. GatedWereRead'
    BY <1>1, <1>2, <1>4 DEF GameInv, GatedWereRead
<1>8. HeldHere'
    BY <1>1, <1>2, <1>3 DEF GameInv, HeldHere
<1>9. GatedAreHeld'
    <2> SUFFICES ASSUME NEW e \in gated', GameEvent(e), ExchangeOf[e] = exchange
                 PROVE  \E c \in Contract : EventOf[c] = e /\ held'[c] # None
        BY <1>1 DEF GatedAreHeld
    <2>1. CASE e \in gated
        BY <1>1, <1>6, <2>1 DEF GameInv, GatedAreHeld
    <2>2. CASE e \in Groups(page) \ Passing(page, TRUE)
        <3>1. e \in Held(page, TRUE)
            BY <2>2, PageGates
        <3>2. PICK c \in Listed(page) : EventOf[c] = e
            BY <1>4, <2>2
        <3> QED BY <1>2, <1>3, <3>1, <3>2
    <2> QED BY <1>2, <2>1, <2>2
<1>10. PassedAreAdmitted'
    <2> SUFFICES ASSUME NEW c \in seen', ExchangeIs(c) = exchange, GameOf[EventOf[c]] # NoGame,
                        EventOf[c] \notin gated'
                 PROVE  GameOf[EventOf[c]] \in admitted'
        BY <1>1 DEF PassedAreAdmitted, ExchangeIs
    <2>1. CASE c \in seen
        BY <1>1, <1>2, <1>5, <2>1 DEF GameInv, PassedAreAdmitted
    <2>2. CASE c \in Listed(page)
        <3>1. EventOf[c] \in Groups(page)
            BY <2>2 DEF Groups
        <3>2. EventOf[c] \in Passing(page, TRUE)
            BY <1>2, <3>1
        <3> QED BY <1>2, <3>1, <3>2, PageGates
    <2> QED BY <1>1, <2>1, <2>2
<1>11. TogetherElsewhere'
    BY <1>1, <1>2, <1>3, <1>4 DEF GameInv, TogetherElsewhere, ExchangeIs
<1> QED BY <1>7, <1>8, <1>9, <1>10, <1>11 DEF GameInv

\* The games let in are released, with all that is held of them; of the others nothing passed.
LEMMA FinishKeepsGames ==
    ASSUME TypeOK, GameInv, FinishExchange
    PROVE  GameInv'
<1>1. /\ pc = "paging" /\ pc' = "cycle" /\ held' = NoHashes /\ gated' = gated \ Groups(Released)
      /\ UNCHANGED <<pending, seen>>
    BY DEF FinishExchange
<1>2. GatedWereRead' /\ HeldHere' /\ GatedAreHeld' /\ PassedAreAdmitted'
    BY <1>1 DEF GameInv, GatedWereRead, HeldHere, GatedAreHeld, PassedAreAdmitted, NoHashes
<1>3. ASSUME NEW d \in Groups(Released) PROVE GameOf[d] \in admitted /\ ExchangeOf[d] = exchange
    BY DEF Groups, Listed, Released, GameInv, HeldHere, ExchangeIs
<1>4. ASSUME NEW e \in gated, GameEvent(e), ExchangeOf[e] = exchange, GameOf[e] \in admitted
      PROVE  e \in Groups(Released)
    <2>1. PICK c \in Contract : EventOf[c] = e /\ held[c] # None
        BY <1>1, <1>4 DEF GameInv, GatedAreHeld
    <2> QED BY <1>4, <2>1 DEF Groups, Listed, Released
<1>5. ASSUME NEW e \in gated', NEW c \in seen', GameEvent(e), GameOf[EventOf[c]] = GameOf[e],
             ExchangeIs(c) = ExchangeOf[e]
      PROVE  EventOf[c] \in gated'
    <2>1. CASE ExchangeOf[e] = exchange
        <3>1. GameOf[e] \notin admitted
            BY <1>1, <1>4, <1>5, <2>1
        <3>2. EventOf[c] \in gated
            BY <1>1, <1>5, <2>1, <3>1 DEF GameInv, PassedAreAdmitted, GameEvent
        <3> QED BY <1>1, <1>3, <1>5, <3>1, <3>2
    <2>2. CASE ExchangeOf[e] # exchange
        BY <1>1, <1>3, <1>5, <2>2 DEF GameInv, TogetherElsewhere, ExchangeIs
    <2> QED BY <2>1, <2>2
<1> QED BY <1>2, <1>5 DEF GameInv, TogetherElsewhere

\* Every step keeps the games of each exchange together, or held.
LEMMA NextGameInv == TypeOK /\ LeftFeedInv /\ GameInv /\ [Next]_vars => GameInv'
<1> SUFFICES ASSUME TypeOK, ReadOnce, GameInv, [Next]_vars PROVE GameInv'
    BY DEF LeftFeedInv
<1> USE DEF GameInv, GatedWereRead, HeldHere, GatedAreHeld, PassedAreAdmitted, TogetherElsewhere
<1>1. ASSUME UNCHANGED <<pc, exchange, pending, seen, gated, held, admitted>>
      PROVE  GameInv'
    BY <1>1 DEF ExchangeIs
<1>2. CASE StartCycle
    BY <1>2 DEF StartCycle, pageVars, ExchangeIs
<1>3. ASSUME NEW x \in Exchange, StartExchange(x)
      PROVE  GameInv'
    <2>1. x \in pending /\ exchange' = x /\ held' = NoHashes /\ pending' = pending \ {x}
          /\ pc = "cycle" /\ UNCHANGED <<seen, gated>>
        BY <1>3 DEF StartExchange
    <2>2. \A e \in gated : ExchangeOf[e] # x
        BY <2>1
    <2>3. \A c \in seen : ExchangeIs(c) # x
        BY <2>1 DEF ReadOnce
    <2> QED BY <2>1, <2>2, <2>3 DEF NoHashes, ExchangeIs
<1>4. ASSUME NEW events \in SUBSET Event, ReadPage(events)
      PROVE  GameInv'
    BY <1>4, PageKeepsGames
<1>5. ASSUME NEW events \in SUBSET Event, SendFails(events)
      PROVE  GameInv'
    <2> DEFINE page == [c \in Contract |-> IF EventOf[c] \in events THEN feed[c] ELSE None]
    <2>1. /\ pc = "paging" /\ events \subseteq unread /\ unread \subseteq EventsOf(exchange)
          /\ DropExchange /\ UNCHANGED pending /\ seen' = seen \cup Listed(page)
        BY <1>5 DEF SendFails, ReadOnce
    <2>2. \A c \in Listed(page) : ExchangeIs(c) = exchange
        BY <2>1, PageHere
    <2> QED BY <2>1, <2>2, DropKeepsGames
<1>6. CASE VenueFails \/ ReleaseSendFails
    BY <1>6, DropKeepsGames DEF VenueFails, ReleaseSendFails
<1>7. CASE FinishExchange
    BY <1>7, FinishKeepsGames
<1>8. CASE FinishCycle
    BY <1>8 DEF FinishCycle, pageVars, cycleVars, ExchangeIs
<1>9. CASE Crash
    BY <1>9 DEF Crash, NoHashes
<1>10. ASSUME NEW c \in Contract, NEW v \in Version \cup {None}, VenueChanges(c, v)
       PROVE  GameInv'
    BY <1>1, <1>10 DEF VenueChanges, pageVars, cycleVars
<1>11. ASSUME NEW e \in Event, VolumeCrosses(e)
       PROVE  GameInv'
    BY <1>1, <1>11 DEF VolumeCrosses, pageVars, cycleVars
<1>12. CASE UNCHANGED vars
    BY <1>1, <1>12 DEF vars, pageVars, cycleVars
<1> QED BY <1>2, <1>3, <1>4, <1>5, <1>6, <1>7, <1>8, <1>9, <1>10, <1>11, <1>12 DEF Next, Runner

\* However an exchange's feed is cut into pages, whichever of a game's events come first, and whatever
\* volume crosses its threshold between two pages, no core market of a game stays behind when another
\* event of that game on the exchange goes out.
THEOREM GamesGoOutTogether == Spec => []GameTogether
<1>1. Init => LeftFeedInv /\ GameInv
    BY DEF Init, LeftFeedInv, LeftFeedIsGone, ReadOnce, KnownReadAgain, NoHashes, GameInv, GatedWereRead,
           HeldHere, GatedAreHeld, PassedAreAdmitted, TogetherElsewhere
<1>2. TypeOK /\ GameInv => GameTogether
    BY DEF TypeOK, GameInv, TogetherElsewhere, GameTogether, GameEvent, ExchangeIs
<1> QED BY <1>1, <1>2, TypeCorrect, NextLeftFeedInv, NextGameInv, PTL DEF Spec
=============================================================================
