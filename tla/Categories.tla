----------------------------- MODULE Categories -----------------------------
(***************************************************************************)
(* Canonicalization: the category and tags of a batch of new events, from  *)
(* the exchange's own labels where they are enough and from the model's    *)
(* answers where they are not.  Events are asked about in chunks, an       *)
(* answer's items are matched to their events by position and by the key   *)
(* of the title they echo, and what a chunk leaves unanswered is asked     *)
(* again one event at a time.                                              *)
(*                                                                         *)
(* An event is [id, title, category, tags] with Unanswered for a category  *)
(* its label leaves open; a title stands for its key.  The model is        *)
(* external: the answer to a request has any item at any of its places,    *)
(* and none at all if the request failed; an item says [title, category,   *)
(* tags].                                                                  *)
(***************************************************************************)
EXTENDS Naturals, FiniteSets, SequencesExt

CONSTANTS
    Unanswered,    \* no answer, or none at a position
    MinStaticTags, \* MIN_STATIC_TAGS
    ChunkSize      \* canonicalize_batch_size

ASSUME ChunkAssumption == ChunkSize \in Nat \ {0}

NeedsModel(ev) == ev.category = Unanswered \/ Cardinality(ev.tags) < MinStaticTags

\* static_result
FromLabels(ev) == [category |-> IF ev.category = Unanswered THEN "OTHER" ELSE ev.category, tags |-> ev.tags]

\* _merge: labels win, the model fills in.
Merged(ev, item) ==
    [category |-> IF ev.category = Unanswered THEN item.category ELSE ev.category, tags |-> ev.tags \cup item.tags]

\* The positions in a batch of the events the model is asked about.
Asked(events, cache) == {i \in DOMAIN events : NeedsModel(events[i]) /\ events[i].id \notin DOMAIN cache}

\* They go out in order, in requests of ChunkSize events.
Request(asked, i) ==
    LET before == Cardinality({j \in asked : j < i})
    IN  [number |-> (before \div ChunkSize) + 1, place |-> (before % ChunkSize) + 1]

\* _match_chunk: an item at another event's place, or with another event's key, is a miss.
Matches(item, ev) == item # Unanswered /\ item.title = ev.title

ItemAt(answers, r) ==
    IF r.number \in DOMAIN answers /\ r.place \in DOMAIN answers[r.number]
    THEN answers[r.number][r.place] ELSE Unanswered

FirstRound(events, asked, answers) ==
    LET item(i) == ItemAt(answers, Request(asked, i))
    IN  {[ev |-> events[i], item |-> item(i)] : i \in {j \in asked : Matches(item(j), events[j])}}

\* What the requests for single events answer; retries gives each missed event's answer.
SecondRound(missed, retries) ==
    {[ev |-> ev, item |-> retries[ev.id]] : ev \in {e \in missed : Matches(retries[e.id], e)}}

\* Mutant: a batch that is given up caches nothing.
KeptOnSuccess(cache, answered, raised) == IF raised THEN cache ELSE answered

\* Every answer is kept, also of a batch that is given up.
Kept(cache, answered, raised) == answered

\* _llm_canonicalize and canonicalize_events: the batch is given up if an event has no answer.
Canonicalized(events, cache, answers, retries) ==
    LET asked    == Asked(events, cache)
        uncached == {events[i] : i \in asked}
        first    == FirstRound(events, asked, answers)
        found    == first \cup SecondRound(uncached \ {f.ev : f \in first}, retries)
        \* Items by event id, the cached ones and those just found.
        answered == [id \in DOMAIN cache \cup {f.ev.id : f \in found} |->
                        IF \E f \in found : f.ev.id = id THEN (CHOOSE f \in found : f.ev.id = id).item ELSE cache[id]]
        raised   == \E ev \in uncached : ev.id \notin DOMAIN answered
    IN  [cache   |-> Kept(cache, answered, raised),
         raised  |-> raised,
         results |-> IF raised THEN {}
                     ELSE {[ev |-> events[i], given |-> IF NeedsModel(events[i])
                                                        THEN Merged(events[i], answered[events[i].id])
                                                        ELSE FromLabels(events[i])] : i \in DOMAIN events}]
=============================================================================
