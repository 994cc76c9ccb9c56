---------------------------- MODULE Implication ----------------------------
(***************************************************************************)
(* What one proposition says about another on the same subject: the rules  *)
(* relationships are derived from, the groups contracts are split into     *)
(* before they are compared, the collisions that leave contracts out, the  *)
(* one spelling given to each key, and the check of a subject merge.       *)
(*                                                                         *)
(* A measure is [head, of]: `margin:goias` is the margin of goias.  Times  *)
(* are hours.  Numbers are quarters: integer measures take multiples of 4, *)
(* and thresholds may lie between two of them.  A field that is empty or   *)
(* not known is None; `undated` tells a window's end that is not known     *)
(* from one there is not.  `game` and `senate` are said by the subject.    *)
(***************************************************************************)
EXTENDS Integers, FiniteSets, Missing

CONSTANTS
    Infinity,          \* larger than any number compared
    Tolerance,         \* DEADLINE_TOLERANCE
    SettledTolerance,  \* SETTLED_SNAPSHOT_TOLERANCE
    ShortFor           \* <<short, long>>: keys where the first may be the second cut short

ASSUME ToleranceAssumption ==
    Tolerance \in Nat /\ SettledTolerance \in Nat /\ Infinity \in Nat

Abs(n) == IF n < 0 THEN -n ELSE n

-----------------------------------------------------------------------------
(* Value sets: the values of its measure for which a proposition pays out *)

Interval(low, lowIn, high, highIn) == [low |-> low, lowIn |-> lowIn, high |-> high, highIn |-> highIn]

Empty(i) == i.low > i.high \/ (i.low = i.high /\ ~(i.lowIn /\ i.highIn))

Point(v) == Interval(v, TRUE, v, TRUE)

\* _is_integer: counts of whole things, and margins in a unit that is counted.
DecidingUnits == {"goals", "maps", "sets"}
CountedHeads  == {"total_goals", "team_goals", "wins", "seats",
                  "passing_touchdowns", "rushing_touchdowns", "receiving_touchdowns"}

WholeNumbers(p) ==
    IF p.measure.head = "margin" THEN p.unit \in DecidingUnits \cup {"games"} ELSE p.measure.head \in CountedHeads

Ceil(v)  == IF v % 4 = 0 THEN v ELSE v + 4 - (v % 4)
Floor(v) == v - (v % 4)

\* The same whole numbers, with closed whole bounds.
Whole(i) ==
    Interval(IF i.low = -Infinity THEN i.low ELSE IF i.lowIn THEN Ceil(i.low) ELSE Floor(i.low) + 4, i.low # -Infinity,
             IF i.high = Infinity THEN i.high ELSE IF i.highIn THEN Floor(i.high) ELSE Ceil(i.high) - 4, i.high # Infinity)

Upward == {"GT", "GTE"}

BaseInterval(p) ==
    IF p.kind = "RANGE" THEN Interval(p.low, p.lowIn, p.high, p.highIn)
    ELSE IF p.comparator \in Upward THEN Interval(p.value, p.comparator = "GTE", Infinity, FALSE)
    ELSE Interval(-Infinity, FALSE, p.value, p.comparator = "LTE")

Complement(i) ==
    {part \in {Interval(-Infinity, FALSE, i.low, ~i.lowIn), Interval(i.high, ~i.highIn, Infinity, FALSE)} :
        ~Empty(part)}

ValueSet(p) ==
    LET parts == IF p.negated THEN Complement(BaseInterval(p)) ELSE {BaseInterval(p)}
    IN  IF WholeNumbers(p) THEN {w \in {Whole(i) : i \in parts} : ~Empty(w)} ELSE parts

\* Mutant of Inside: an open end is inside no end at the same value.
InsideOpenOnly(inner, outer) ==
    /\ inner.low > outer.low \/ (inner.low = outer.low /\ outer.lowIn)
    /\ inner.high < outer.high \/ (inner.high = outer.high /\ outer.highIn)

Inside(inner, outer) ==
    /\ inner.low > outer.low \/ (inner.low = outer.low /\ (outer.lowIn \/ ~inner.lowIn))
    /\ inner.high < outer.high \/ (inner.high = outer.high /\ (outer.highIn \/ ~inner.highIn))

Within(A, B) == \A x \in A : \E y \in B : Inside(x, y)

-----------------------------------------------------------------------------
(* Comparability *)

Valued == {"THRESHOLD", "RANGE"}

\* Every field the rules of its kind read is known, and when a value is read, if it is at a time.
Usable(p) ==
    /\ p.kind \in Valued => p.observation = "CUMULATIVE" \/ ~p.undated
    /\ CASE p.kind = "THRESHOLD" -> None \notin {p.measure, p.comparator, p.value, p.observation}
         [] p.kind = "RANGE"     -> None \notin {p.measure, p.low, p.high, p.observation}
         [] p.kind = "OCCURS_BY" -> None \notin {p.end, p.measure}
         [] p.kind = "WINNER"    -> None \notin {p.entity, p.measure}
         [] p.kind = "SCORE"     -> p.scores # None
         [] OTHER                -> FALSE

\* A measure that names its entity settles it when only one side repeats the entity.
SameEntity(a, b) ==
    \/ a.entity = b.entity
    \/ a.entity = None /\ a.measure.of = b.entity
    \/ b.entity = None /\ a.measure.of = a.entity

Rounds == {"first_round", "second_round", "third_round"}

\* No scope is the whole contest and matches any part of it, except one named round.
ScopeMatches(a, b) ==
    \/ a.scope = b.scope
    \/ None \in {a.scope, b.scope} /\ {a.scope, b.scope} \cap Rounds = {}

ContestHeads == {"margin", "seats", "vote_share"}
VoteUnits    == {"percent", "votes"}

\* Senate seats held and seats won are both read as `seats`.
ContestResult(p) ==
    /\ p.measure.head \in ContestHeads /\ p.observation \in {"AT_TIME", "CUMULATIVE"}
    /\ ~(p.measure.head = "seats" /\ p.senate)

\* A caveat where one-off contests give up at different deadlines; games have the void flag.
ContestDeadlineFlags(a, b) ==
    IF a.game \/ (a.end = None /\ b.end = None) THEN {}
    ELSE IF None \in {a.end, b.end} THEN {"DEADLINE_DIFFERS"}
    ELSE IF Abs(a.end - b.end) > Tolerance THEN {"DEADLINE_DIFFERS"} ELSE {}

StartsTogether(a, b) ==
    \/ a.start = b.start
    \/ None \notin {a.start, b.start} /\ Abs(a.start - b.start) <= Tolerance

Settled(a, b) == a.stability = "SETTLED" /\ b.stability = "SETTLED"

Different == [same |-> FALSE, flags |-> {}]
Same(flags) == [same |-> TRUE, flags |-> flags]

\* Mutant of SameReading: ends close together need no caveat.
SameReadingUnflagged(a, b) ==
    IF a.observation = b.observation /\ StartsTogether(a, b) /\ None \notin {a.end, b.end}
    THEN IF Abs(a.end - b.end) <= Tolerance THEN Same({}) ELSE Different
    ELSE Different

\* Whether two measurements of one measure are taken at the same time, and any caveat.
SameReading(a, b) ==
    IF ContestResult(a) /\ ContestResult(b) THEN Same(ContestDeadlineFlags(a, b))
    ELSE IF a.observation # b.observation THEN Different
    ELSE IF a.observation = "AT_TIME" /\ ~Settled(a, b) /\ a.start # b.start THEN Different
    ELSE IF ~StartsTogether(a, b) THEN Different
    ELSE IF a.observation = "CUMULATIVE" /\ None \in {a.end, b.end} THEN Same({})
    ELSE IF None \in {a.end, b.end} THEN (IF a.end = b.end THEN Same({}) ELSE Different)
    ELSE IF a.end = b.end THEN Same({})
    ELSE IF a.observation = "AT_TIME"
         THEN IF Settled(a, b) /\ Abs(a.end - b.end) <= SettledTolerance THEN Same({"OBSERVATION_TIME_DIFFERS"}) ELSE Different
    ELSE IF Abs(a.end - b.end) <= Tolerance THEN Same({"DEADLINE_TIMEZONE_DIFFERS"}) ELSE Different

-----------------------------------------------------------------------------
(* Rules: [forward, backward, flags], what a says of b and b of a, or None *)

Says(forward, backward, flags) == [forward |-> forward, backward |-> backward, flags |-> flags]

\* _same_units: one size, unless only one of them names a size or they count different things.
CountUnits == {"goals", "sets", "maps", "games"}
CountedIn(unit) == IF unit = "games" THEN "maps" ELSE unit
SameUnits(a, b) == {a.unit, b.unit} \subseteq CountUnits => CountedIn(a.unit) = CountedIn(b.unit)
Scale(p)  == IF p.unit = "thousands" THEN 2 ELSE 1
Scaled(p) == IF Scale(p) = 1 THEN p
             ELSE [p EXCEPT !.value = IF @ = None THEN @ ELSE @ * Scale(p),
                            !.low   = IF @ = None THEN @ ELSE @ * Scale(p),
                            !.high  = IF @ = None THEN @ ELSE @ * Scale(p)]
Sized(a, b) == Scale(a) = Scale(b) \/ None \notin {a.unit, b.unit}

\* Touches of a level compare only on the same side: the window's maximum, or its minimum.
OneSide(a, b) ==
    a.observation = "ANY_TIME" =>
        /\ a.kind = "THRESHOLD" /\ b.kind = "THRESHOLD"
        /\ (a.comparator \in Upward) = (b.comparator \in Upward)

Comparable(a, b) ==
    /\ a.measure = b.measure /\ SameEntity(a, b) /\ ScopeMatches(a, b)
    /\ ~(ContestResult(a) /\ a.scope # b.scope /\ {a.unit, b.unit} \cap VoteUnits # {})
    /\ SameUnits(a, b) /\ Sized(a, b)
    /\ OneSide(a, b)

Values(a, b) ==
    LET reading == SameReading(a, b)
        A == ValueSet(IF Scale(a) = Scale(b) THEN a ELSE Scaled(a))
        B == ValueSet(IF Scale(a) = Scale(b) THEN b ELSE Scaled(b))
    IN  IF Comparable(a, b) /\ reading.same THEN Says(Within(A, B), Within(B, A), reading.flags) ELSE None

\* Happening by an earlier deadline implies happening by a later one; not happening, the converse.
Deadlines(a, b, sameVenue) ==
    LET gap       == b.end - a.end
        tolerance == IF sameVenue THEN 0 ELSE Tolerance
        aFirst    == (gap > 0) # a.negated
    IN  IF \/ a.measure # b.measure \/ ~SameEntity(a, b) \/ ~ScopeMatches(a, b)
           \/ ~StartsTogether(a, b)
           \/ a.negated # b.negated
        THEN None
        ELSE IF Abs(gap) <= tolerance
        THEN Says(TRUE, TRUE, IF gap = 0 THEN {} ELSE {"DEADLINE_TIMEZONE_DIFFERS"})
        ELSE Says(aFirst, ~aFirst, {})

\* _winner_timing: "same", the one that holds at the window's end, or None.
WinnerTiming(a, b) ==
    IF a.observation = None /\ b.observation = None THEN [how |-> "same", flags |-> ContestDeadlineFlags(a, b)]
    ELSE IF None \in {a.observation, b.observation, a.end, b.end} THEN None
    ELSE IF Abs(a.end - b.end) > Tolerance THEN None
    ELSE LET flags == IF a.end = b.end THEN {} ELSE {"DEADLINE_TIMEZONE_DIFFERS"}
         IN  IF a.observation = b.observation THEN [how |-> "same", flags |-> flags]
             ELSE IF a.observation = "AT_TIME" /\ b.observation = "ANY_TIME" THEN [how |-> "a_at_end", flags |-> flags]
             ELSE IF a.observation = "ANY_TIME" /\ b.observation = "AT_TIME" THEN [how |-> "b_at_end", flags |-> flags]
             ELSE None

ExclusiveHeads == {"winner", "place", "holder"}

\* Different entities exclude each other when one event lists both, for what only one can win.
Exclude(a, b, rivals) == a.measure.head \in ExclusiveHeads /\ {a.entity, b.entity} \in rivals

Winners(a, b, rivals) ==
    LET timing == WinnerTiming(a, b)
    IN  IF a.measure # b.measure \/ ~ScopeMatches(a, b) \/ timing = None THEN None
        ELSE IF a.entity = b.entity
        THEN IF a.negated # b.negated THEN None
             ELSE IF timing.how = "same" THEN Says(TRUE, TRUE, timing.flags)
             ELSE LET aFirst == (timing.how = "a_at_end") # a.negated
                  IN  Says(aFirst, ~aFirst, timing.flags)
        ELSE IF timing.how # "same" \/ a.observation = "ANY_TIME" \/ ~Exclude(a, b, rivals) THEN None
        ELSE IF a.negated = b.negated THEN None
        ELSE Says(b.negated, a.negated, timing.flags)

Positive(i) == i.low > 0 \/ (i.low = 0 /\ ~i.lowIn)

\* The flags when a margin all above zero implies its side wins, or None.
MarginImpliesWinner(margin, winner) ==
    LET votes == margin.unit \in VoteUnits
        parts == ValueSet(margin)
    IN  IF /\ ~winner.negated /\ ~margin.negated /\ winner.measure.head = "winner"
           /\ margin.measure.head = "margin" /\ margin.measure.of = winner.entity
           /\ votes \/ margin.unit \in DecidingUnits
           /\ votes => margin.scope = winner.scope
           /\ ScopeMatches(margin, winner)
           /\ Cardinality(parts) = 1 /\ \A i \in parts : Positive(i)
        THEN IF votes /\ margin.scope = None THEN {"VOTE_SCOPE_ASSUMED"} ELSE {}
        ELSE None

\* One team scoring at least v means the game total is at least v.
TeamTotalImpliesTotal(team, total) ==
    /\ ~team.negated /\ ~total.negated
    /\ team.measure.head = "team_goals" /\ total.measure.head = "total_goals"
    /\ ScopeMatches(team, total) /\ team.observation = total.observation
    /\ \E x \in ValueSet(team), y \in ValueSet(total) : x.high = Infinity /\ y.high = Infinity /\ Inside(x, y)

FullGame == {None, "regulation", "match"}

\* What a final score makes another market's number, or None.
ScoreValue(score, other) ==
    LET sides == DOMAIN score.scores
        total == LET x == CHOOSE s \in sides : TRUE IN score.scores[x] + score.scores[CHOOSE s \in sides : s # x]
    IN  IF other.unit # None /\ other.unit # score.unit THEN None
        ELSE CASE other.measure.head = "total_goals" -> total
               [] other.measure.head = "team_goals" /\ other.measure.of \in sides -> score.scores[other.measure.of]
               [] other.measure.head = "margin" /\ other.measure.of \in sides /\ other.unit # None ->
                      2 * score.scores[other.measure.of] - total
               [] OTHER -> None

Leader(scores) ==
    LET ahead == {s \in DOMAIN scores : \E t \in DOMAIN scores : scores[s] > scores[t]}
    IN  IF ahead = {} THEN "tie" ELSE CHOOSE s \in ahead : TRUE

Scores(score, other) ==
    IF \/ score.negated
       \/ {score.scope, other.scope} \subseteq FullGame /\ ~ScopeMatches(score, other)
       \/ ~({score.scope, other.scope} \subseteq FullGame) /\ score.scope # other.scope
    THEN None
    ELSE CASE other.kind = "SCORE" ->
                  IF ~other.negated /\ score.unit = other.unit /\ score.scores = other.scores THEN Says(TRUE, TRUE, {}) ELSE None
           [] other.kind = "WINNER" /\ other.measure.head = "winner" ->
                  IF other.entity \notin DOMAIN score.scores \cup {"tie"} THEN None
                  ELSE Says((other.entity = Leader(score.scores)) # other.negated, FALSE, {})
           [] other.kind \in Valued ->
                  LET value == ScoreValue(score, other)
                  IN  IF value = None THEN None ELSE Says(Within({Point(value)}, ValueSet(other)), FALSE, {})
           [] OTHER -> None

Flipped(said) == IF said = None THEN None ELSE Says(said.backward, said.forward, said.flags)

Relate(a, b, rivals, sameVenue) ==
    CASE a.kind \in Valued /\ b.kind \in Valued ->
             IF Values(a, b) # None \/ a.kind = "RANGE" \/ b.kind = "RANGE" THEN Values(a, b)
             ELSE IF TeamTotalImpliesTotal(a, b) THEN Says(TRUE, FALSE, {})
             ELSE IF TeamTotalImpliesTotal(b, a) THEN Says(FALSE, TRUE, {}) ELSE None
      [] a.kind = "OCCURS_BY" /\ b.kind = "OCCURS_BY" -> Deadlines(a, b, sameVenue)
      [] a.kind = "WINNER" /\ b.kind = "WINNER" -> Winners(a, b, rivals)
      [] a.kind = "SCORE" -> Scores(a, b)
      [] b.kind = "SCORE" /\ a.kind # "SCORE" -> Flipped(Scores(b, a))
      [] a.kind \in Valued /\ b.kind = "WINNER" ->
             IF MarginImpliesWinner(a, b) = None THEN None ELSE Says(TRUE, FALSE, MarginImpliesWinner(a, b))
      [] a.kind = "WINNER" /\ b.kind \in Valued ->
             IF MarginImpliesWinner(b, a) = None THEN None ELSE Says(FALSE, TRUE, MarginImpliesWinner(b, a))
      [] OTHER -> None

-----------------------------------------------------------------------------
(* Contracts: [id, venue, proposition, event, source] *)

SourceFlags(a, b) ==
    IF None \notin {a.source, b.source} THEN (IF a.source = b.source THEN {} ELSE {"RESOLUTION_SOURCE_DIFFERS"})
    ELSE IF a.venue = b.venue THEN {} ELSE {"RESOLUTION_SOURCE_UNKNOWN"}

\* How a market settles a game that is not played: one venue's do by kind, the others' one way.
VoidRule(c) ==
    IF c.venue # "POLYMARKET_INTL" THEN c.venue
    ELSE IF c.proposition.kind \in {"WINNER", "SCORE"} THEN "draw" ELSE "even"

VoidFlags(a, b) == IF a.proposition.game /\ VoidRule(a) # VoidRule(b) THEN {"VOID_RULES_DIFFER"} ELSE {}

\* _relate_pair: a derived relationship, the antecedent first, or None.
RowOf(said, a, b) ==
    LET Row(x, y, same) == [a |-> x.id, b |-> y.id, same |-> same, flags |-> said.flags \cup SourceFlags(a, b) \cup VoidFlags(a, b)]
    IN  IF said = None THEN None
        ELSE IF said.forward THEN Row(a, b, said.backward)
        ELSE IF said.backward THEN Row(b, a, FALSE) ELSE None

RelatePair(a, b, rivals) == RowOf(Relate(a.proposition, b.proposition, rivals, a.venue = b.venue), a, b)

\* _candidate_groups: the groups a proposition is put in; runs of close ends are one group.
Groups(p) ==
    CASE p.kind = "WINNER"    -> {<<"winner">>}
      [] p.kind = "OCCURS_BY" -> {<<"deadline", p.measure>>}
      [] p.kind = "SCORE"     -> {<<"winner">>, <<"value", "CUMULATIVE">>}
      [] OTHER ->
          (IF p.measure.head = "margin" THEN {<<"winner">>} ELSE {}) \cup
          (IF p.observation = "CUMULATIVE" \/ ContestResult(p) THEN {<<"value", "CUMULATIVE">>}
           ELSE IF p.end = None THEN {<<"value", p.observation, None>>}
           ELSE IF p.observation = "AT_TIME" /\ p.stability # "SETTLED" THEN {<<"value", p.observation, p.start, p.end>>}
           ELSE {<<"run", p.observation, p.stability = "SETTLED">>})

RunTolerance(p) == IF p.observation = "AT_TIME" /\ p.stability = "SETTLED" THEN SettledTolerance ELSE Tolerance

\* Two contracts are compared when they share a group: of a run, when their ends are close.
\* (A run also joins ends that others between them link: it only compares more.)
Compared(p, q) == \E g \in Groups(p) \cap Groups(q) : g[1] = "run" => Abs(p.end - q.end) <= RunTolerance(p)

\* Entities one event lists as different outcomes.
Rivals(C) ==
    {{p[1].proposition.entity, p[2].proposition.entity} :
        p \in {q \in C \X C : /\ q[1].proposition.kind = "WINNER" /\ q[2].proposition.kind = "WINNER"
                             /\ q[1].event = q[2].event /\ q[1].event # None
                             /\ q[1].proposition.entity # q[2].proposition.entity}}

DerivePairs(C, leftOut) ==
    {RelatePair(p[1], p[2], Rivals(C)) :
        p \in {q \in (C \ leftOut) \X (C \ leftOut) : q[1].id < q[2].id /\ Compared(q[1].proposition, q[2].proposition)}}
        \ {None}

\* Two outcomes of one event that read alike: a misreading of one of them.
Collisions(C, rows) ==
    {c \in C : \E r \in rows : /\ r.same /\ c.id \in {r.a, r.b}
                               /\ \E d \in C : d.id \in {r.a, r.b} \ {c.id} /\ d.event = c.event /\ c.event # None}

\* derive_unit: what is left when colliding contracts are taken out, until none collide.  (Units
\* are derived one by one; no row crosses units, so a subject's rows are those of its units.)
SettledRows(C) ==
    LET leftOut[n \in 0..Cardinality(C)] ==
            IF n = 0 THEN {} ELSE leftOut[n - 1] \cup Collisions(C, DerivePairs(C, leftOut[n - 1]))
        out == leftOut[Cardinality(C)]
    IN  [rows |-> DerivePairs(C, out), out |-> out]

-----------------------------------------------------------------------------
(* Canonical readings: a measure is spelled one way, and a key that is short for one other of its subject is that one *)

MeasureAliases ==
    [regular_season_wins |-> "wins", passing_tds |-> "passing_touchdowns", rushing_tds |-> "rushing_touchdowns",
     receiving_tds |-> "receiving_touchdowns", fantasy_points_per_game |-> "fantasy_ppg", vote_percent |-> "vote_share"]

\* A map's winner, of a map its scope names (the first two stand for all).
MapWinners == {"map_winner", "map_1_winner"} \X {"map:1"} \cup {"map_winner", "map_2_winner"} \X {"map:2"}

\* _measure: the head of the one spelling of p's measure.
OneHead(p) ==
    IF p.kind = "WINNER" /\ p.measure.of = None /\ <<p.measure.head, p.scope>> \in MapWinners THEN "winner"
    ELSE IF p.measure.head \in DOMAIN MeasureAliases THEN MeasureAliases[p.measure.head] ELSE p.measure.head

OneSpelling(p) == IF p.measure = None THEN p ELSE [p EXCEPT !.measure = [p.measure EXCEPT !.head = OneHead(p)]]

Keys(p) == ({p.entity, IF p.measure = None THEN None ELSE p.measure.of}
                \cup IF p.scores = None THEN {} ELSE DOMAIN p.scores) \ {None}

SubjectKeys(C) == UNION {Keys(c.proposition) : c \in C}

ListedTogether(C, k, l) ==
    \E c, d \in C : c.event # None /\ c.event = d.event /\ k \in Keys(c.proposition) /\ l \in Keys(d.proposition)

LongerKeys(C, k) == {l \in SubjectKeys(C) : <<k, l>> \in ShortFor /\ ~ListedTogether(C, k, l)}

\* entity_aliases, and what a key resolves to along a chain of them.
Aliases(C) == {k \in SubjectKeys(C) : Cardinality(LongerKeys(C, k)) = 1}

Resolve(C, key) ==
    LET to[n \in 0..Cardinality(Aliases(C))] ==
            IF n = 0 THEN key
            ELSE IF to[n - 1] \in Aliases(C) THEN CHOOSE l \in LongerKeys(C, to[n - 1]) : TRUE ELSE to[n - 1]
    IN  to[Cardinality(Aliases(C))]

\* The proposition with every key that `keys` maps replaced by what it maps it to.
Renamed(p, keys) ==
    LET to(key) == IF key \in DOMAIN keys THEN keys[key] ELSE key
        measure == [p.measure EXCEPT !.of = to(@)]
        scores  == [k \in {to(s) : s \in DOMAIN p.scores} |->
                       p.scores[CHOOSE s \in DOMAIN p.scores : to(s) = k]]
    IN  [p EXCEPT !.entity  = to(@),
                  !.measure = IF @ = None THEN @ ELSE measure,
                  !.scores  = IF @ = None THEN @ ELSE scores]

CanonicalReadings(C) ==
    LET keys == [k \in Aliases(C) |-> Resolve(C, k)]
    IN  {[c EXCEPT !.proposition = Renamed(OneSpelling(@), keys)] : c \in C}

\* preview: what deriving one subject's contracts gives, and what it leaves out.
Preview(C) == SettledRows({c \in CanonicalReadings(C) : Usable(c.proposition)})

-----------------------------------------------------------------------------
(* check_merge: b's contracts derived with a's, their measures and keys renamed as the judge mapped them *)

Remeasured(p, measures) == [p EXCEPT !.measure = IF @ \in DOMAIN measures THEN measures[@] ELSE @]

\* The subject b's contracts join is a's.  (`game` and `senate`, which it says, are b's already: see Mergers.)
Align(B, keys, measures) == {[c EXCEPT !.proposition = Renamed(Remeasured(@, measures), keys)] : c \in B}

\* What `merged`, the contracts of both, derive that A and B do not.
Gained(A, B, merged) ==
    LET preview == Preview(merged)
        before  == {c.id : c \in Preview(A).out \cup Preview(B).out}
        aIds    == {c.id : c \in A}
    IN  [new      |-> {r \in preview.rows : (r.a \in aIds) # (r.b \in aIds)},
         collided |-> {c \in preview.out : \E d \in preview.out : d.event = c.event /\ d.id \notin before}]

\* Mutant of CheckMerge: b's contracts are derived under the keys and measures they have now.
CheckMergeUnaligned(A, B, keys, measures) == Gained(A, B, A \cup B)

CheckMerge(A, B, keys, measures) == Gained(A, B, A \cup Align(B, keys, measures))
=============================================================================
