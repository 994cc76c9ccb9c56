-------------------------------- MODULE Rules --------------------------------
(***************************************************************************)
(* The pure parts of the pipeline, asked one question at a time, and what  *)
(* each answer must mean: two propositions are related, one subject's      *)
(* contracts are derived, two subjects' contracts are derived together to  *)
(* weigh a merge, a venue's fees are synced, and a batch of new events is  *)
(* categorized.                                                            *)
(*                                                                         *)
(* The reference is a small set of worlds: a world fixes a game's scores,  *)
(* a price at each hour, when something happened and who held a place at   *)
(* each hour, so every proposition is true or false in it.                 *)
(***************************************************************************)
EXTENDS Implication, Fees, Categories

CONSTANTS
    Propositions,   \* the propositions paired with each other
    GameScores,       \* final scores: [side -> goals], of the whole game and of its first round
    Prices,         \* [hour -> price]
    Times,          \* when it happened: an hour, or Never
    Never,
    Holders,        \* [hour -> who holds the place]
    Listings,       \* sets of contracts on one subject
    Mergers,        \* [a, b, keys, measures]: contracts of two subjects, the judge's maps of b's names to a's
    FeeHistories,   \* what a venue charges on a series and an event of it, and when it announces it (below)
    RateHistories,  \* pairs: the rates of a fee type that two syncs see
    SyncTimes,      \* when the two syncs run
    Batches         \* [events, attempts]: a batch of events and the model's answers to each attempt at it

Sides == {"home", "away"}

Bounded(x) == x \in Int /\ -Infinity < x /\ x < Infinity

Comparators == {"GT", "GTE", "LT", "LTE"}

\* Read at an hour, or at any time of a window, of worlds that know the hours it names.
InTime(p, worlds) ==
    /\ p.observation \in {"AT_TIME", "ANY_TIME"} \ {None}
    /\ p.observation = "AT_TIME" =>
           \A w \in worlds : /\ p.end \in DOMAIN w
                             /\ p.start # None => p.start \in DOMAIN w /\ p.start <= p.end

\* A usable proposition is about something the worlds settle, and has the fields its kind needs.
WellRead(p) ==
    /\ p.negated \in BOOLEAN /\ p.unit # "thousands"
    /\ p.kind \in Valued =>
           \/ p.measure.head = "total_goals"
           \/ p.measure.head \in {"team_goals", "margin"} /\ p.measure.of \in Sides
           \/ p.measure.head = "price" /\ InTime(p, Prices)
    /\ p.kind = "THRESHOLD" => p.comparator \in Comparators /\ Bounded(p.value)
    /\ p.kind = "RANGE"     => p.lowIn \in BOOLEAN /\ p.highIn \in BOOLEAN /\ Bounded(p.low) /\ Bounded(p.high)
    /\ p.kind = "WINNER"    => p.measure.head = "winner" \/ (p.measure.head = "holder" /\ InTime(p, Holders))
    /\ p.kind = "OCCURS_BY" => p.end \in Int
    /\ p.kind = "SCORE"     => p.scores \in [Sides -> Nat]

\* Numbers are quarters: a goal is 4.
ASSUME WorldsAssumption ==
    /\ \A p \in Propositions : Usable(p) => WellRead(p)
    /\ \A s \in GameScores : /\ s \in [Sides -> Nat] /\ \A side \in Sides : s[side] % 4 = 0
                             /\ s["home"] + s["away"] < Infinity
    /\ \A w \in Prices : \A t, u \in DOMAIN w : t \in Int /\ Bounded(w[t]) /\ Bounded(w[t] - w[u])
    /\ \A w \in Holders : DOMAIN w \subseteq Int
    /\ Times \subseteq Int \cup {Never}

VARIABLES
    question,
    answer

-----------------------------------------------------------------------------
(* Worlds *)

Compares(comparator, x, v) ==
    CASE comparator = "GT" -> x > v [] comparator = "GTE" -> x >= v [] comparator = "LT" -> x < v [] OTHER -> x <= v

Between(p, x) ==
    /\ x > p.low \/ (x = p.low /\ p.lowIn)
    /\ x < p.high \/ (x = p.high /\ p.highIn)

Satisfies(p, x) == IF p.kind = "RANGE" THEN Between(p, x) ELSE Compares(p.comparator, x, p.value)

GameHeads == {"total_goals", "team_goals", "margin", "winner"}

Family(p) ==
    IF p.kind = "OCCURS_BY" THEN "happening"
    ELSE IF p.kind = "SCORE" \/ p.measure.head \in GameHeads THEN "game"
    ELSE IF p.measure.head = "price" THEN "price" ELSE "place"

Worlds(family) ==
    CASE family = "game"      -> [whole : GameScores, first : GameScores]
      [] family = "price"     -> Prices
      [] family = "happening" -> Times
      [] OTHER                -> Holders

GameNumber(p, scores) ==
    LET other == CHOOSE s \in DOMAIN scores : s # p.measure.of
    IN  CASE p.measure.head = "total_goals" -> scores["home"] + scores["away"]
          [] p.measure.head = "team_goals"  -> scores[p.measure.of]
          [] OTHER                          -> scores[p.measure.of] - scores[other]

HoldsInGame(p, w) ==
    LET scores == IF p.scope = "first_round" THEN w.first ELSE w.whole
    IN  CASE p.kind = "SCORE"  -> scores = p.scores
          [] p.kind = "WINNER" -> p.entity = Leader(scores)
          [] OTHER             -> Satisfies(p, GameNumber(p, scores))

\* The window's hours; a reading without a start is taken over the hours up to its end.
Hours(p, w) == {t \in DOMAIN w : (p.start # None => t >= p.start) /\ (p.end # None => t <= p.end)}

HoldsInPrice(p, w) ==
    CASE p.observation = "ANY_TIME" -> \E t \in Hours(p, w) : Satisfies(p, w[t])
      [] p.observation = "AT_TIME" /\ p.start # None -> Satisfies(p, w[p.end] - w[p.start])
      [] OTHER -> Satisfies(p, w[p.end])

HoldsPlace(p, w) ==
    IF p.observation = "ANY_TIME" THEN \E t \in Hours(p, w) : w[t] = p.entity ELSE w[p.end] = p.entity

Holds(p, w) ==
    p.negated # (CASE Family(p) = "game"      -> HoldsInGame(p, w)
                   [] Family(p) = "price"     -> HoldsInPrice(p, w)
                   [] Family(p) = "happening" -> w # Never /\ w <= p.end /\ (p.start = None \/ w >= p.start)
                   [] OTHER                   -> HoldsPlace(p, w))

\* The usable readings of a price, and the numbers they name.
PriceReadings == {p \in Propositions : Usable(p) /\ Family(p) = "price"}

Levels == UNION {IF p.kind = "RANGE" THEN {p.low, p.high} ELSE {p.value} : p \in PriceReadings}

\* What p reads is x, whatever hours it reads it at: every price, or the change since every hour before the end.
Shows(p, x, w) ==
    IF p.observation = "AT_TIME" /\ p.start # None
    THEN \A t \in DOMAIN w \ {p.end} : w[p.end] - w[t] = x
    ELSE \A t \in DOMAIN w : w[t] = x

\* A reading of a price reads something: no range is empty, no change is from the hour it is to, no window
\* is without an hour.  Prices tell readings apart: each shows every number named, one between any
\* two and one beyond each.
ASSUME PricesAssumption ==
    \A p \in PriceReadings :
        /\ p.kind = "RANGE" => ~Empty(BaseInterval(p))
        /\ p.observation = "AT_TIME" => p.start # p.end
        /\ p.observation = "ANY_TIME" => \A w \in Prices : Hours(p, w) # {}
        /\ \A m \in Levels : \E w \in Prices : Shows(p, m, w)
        /\ \A m, n \in Levels \cup {-Infinity, Infinity} :
               m < n => \E x \in (m + 1)..(n - 1) : \E w \in Prices : Shows(p, x, w)

-----------------------------------------------------------------------------
(* Questions *)

\* What is going to be asked: how one proposition relates to others, or one of the other questions.
Unasked ==
    /\ question \in [asks : {"pair"}, a : {p \in Propositions : Usable(p)}]
                        \cup [asks : {"listing", "merge", "fees", "rates", "categories"}]
    /\ answer = Unanswered

Asks(kind) == question.asks = kind /\ answer = Unanswered

AskPair ==
    /\ Asks("pair")
    /\ \E b \in Propositions, sameVenue \in BOOLEAN, rivals \in {{}, {{"home", "away"}}} :
          /\ Usable(b)
          /\ question' = [asks |-> "pair", a |-> question.a, b |-> b]
          /\ answer' = Relate(question.a, b, rivals, sameVenue)

AskListing ==
    /\ Asks("listing")
    /\ \E C \in Listings :
          /\ question' = [asks |-> "listing", contracts |-> C]
          /\ answer' = Preview(C)

AskMerge ==
    /\ Asks("merge")
    /\ \E m \in Mergers :
          /\ question' = [asks |-> "merge", merge |-> m]
          /\ answer' = CheckMerge(m.a, m.b, m.keys, m.measures)

(* A fee history is [base, early, late, overridden, then, forgets]: a series charges base until its     *)
(* first change; early and overridden are the series' changes and its event's overrides that the first *)
(* sync sees, late and then those that only the second does, and forgets says that the venue no longer  *)
(* lists an override once another has taken its place.                                                 *)

ChargedInSeries(h, changes, t) ==
    LET past == {c \in changes : c.at <= t}
    IN  IF past = {} THEN h.base ELSE Newest(past).fee

StillListedAt(h, overrides, t) ==
    {o \in overrides : ~(h.forgets /\ \E p \in overrides : o.at < p.at /\ p.at <= t)}

\* What the venue publishes at the time of a sync.
PublishedAt(h, n) ==
    LET changes   == IF n = 1 THEN h.early ELSE h.early \cup h.late
        overrides == IF n = 1 THEN h.overridden ELSE h.overridden \cup h.then
    IN  [current   |-> [s \in {"series"} |-> ChargedInSeries(h, changes, SyncTimes[n])],
         changes   |-> changes,
         overrides |-> StillListedAt(h, overrides, SyncTimes[n])]

\* Changes have times and ids of their own.
Recorded(C) == \A c, d \in C : c.at = d.at \/ c.id = d.id => c = d

After(C, D) == \A c \in C, d \in D : c.at > d.at

\* A history the rows can follow: what is announced later takes effect later, and once the rounding has
\* changed; a fee from before fees were recorded is seen by the first sync, which is before any change
\* of it and any override that builds on it; and no override comes and goes between the syncs.
Orderly(h) ==
    LET changes   == h.early \cup h.late
        overrides == h.overridden \cup h.then
    IN  /\ h.base \in Fee
        /\ \A c \in changes : c.series = "series" /\ c.at \in Int /\ c.fee \in Fee
        /\ \A o \in overrides : /\ o.event = "event" /\ o.series = "series" /\ o.at \in Int
                                 /\ o.type \in FeeTypes \cup {Unset} /\ o.multiplier \in Multipliers \cup {Unset}
        /\ Recorded(changes) /\ Recorded(overrides)
        /\ <<"unrecorded", "series">> \notin {c.id : c \in changes} \cup {o.id : o \in overrides}
        /\ {c.id : c \in changes} \cap {o.id : o \in overrides} = {}
        /\ \A c \in h.late \cup h.then : c.at > AccumulatorFrom
        /\ After(h.late, h.early \cup h.overridden) /\ After(h.then, h.overridden)
        /\ h.base # DefaultFee =>
               /\ h.early = {} /\ \A o \in overrides : o.at >= UnrecordedFrom
               /\ h.late = {} \/ (h.then = {} /\ h.base.type \in Expressible)
        /\ h.forgets => h.then \subseteq StillListedAt(h, overrides, SyncTimes[2])

ASSUME HistoriesAssumption ==
    /\ \A n \in 1..2 : SyncTimes[n] \in Int
    /\ AccumulatorFrom <= SyncTimes[1] /\ SyncTimes[1] < SyncTimes[2]
    /\ \A h \in FeeHistories : Orderly(h)

\* A type has no rates before its rollout, and none return to those of the rollout.
ASSUME RatesAssumption ==
    \A rates \in RateHistories :
        /\ DOMAIN rates = 1..2 /\ Unset \notin {rates[1], rates[2]}
        /\ "type" \in DOMAIN Rollout =>
               /\ rates[1] = Rollout["type"].rates => Rollout["type"].from \in Int /\ Rollout["type"].from <= SyncTimes[1]
               /\ rates[2] = Rollout["type"].rates => rates[1] = rates[2]

Fields == {"kind", "measure", "comparator", "value", "low", "lowIn", "high", "highIn", "unit", "observation", "start",
           "end", "undated", "entity", "scope", "stability", "negated", "scores", "game", "senate"}

\* A proposition has every field, its measure a head and whose it is, its score two sides.
Described(p) ==
    /\ p = [f \in Fields |-> p[f]]
    /\ p.measure = None \/ p.measure = [head |-> p.measure.head, of |-> p.measure.of]
    /\ p.scores = None \/ \E s, t \in DOMAIN p.scores : s # t /\ p.scores \in [{s, t} -> Int]

\* The readings of contracts that have a measure.
Measured(B) == {p \in {c.proposition : c \in B} : p.measure # None}

\* Two subjects share no contract and are of one sort, both games or neither; the judge maps names to
\* names; and None is no measure or score.
ASSUME MergersAssumption ==
    \A m \in Mergers :
        /\ IsFiniteSet(m.a) /\ IsFiniteSet(m.b) /\ m.a \cap m.b = {}
        /\ \A c \in m.a \cup m.b :
              /\ c = [id |-> c.id, venue |-> c.venue, event |-> c.event, source |-> c.source,
                      proposition |-> c.proposition]
              /\ Described(c.proposition)
        /\ \A c, d \in m.a \cup m.b : /\ c.id = d.id => c = d
                                    /\ c.proposition.game = d.proposition.game
                                    /\ c.proposition.senate = d.proposition.senate
        /\ None \notin DOMAIN m.keys /\ \A k \in DOMAIN m.keys : m.keys[k] # None
        /\ None \notin DOMAIN m.measures
        /\ LET read  == Measured(m.b) \cup {Remeasured(p, m.measures) : p \in Measured(m.b)}
               heads == {p.measure.head : p \in read} \cup {OneHead(p) : p \in read}
               of    == {p.measure.of : p \in read}
               names == SubjectKeys(m.b) \cup of \cup {m.keys[k] : k \in DOMAIN m.keys} \cup {None}
           IN  /\ \A p \in read : p.measure = [head |-> p.measure.head, of |-> p.measure.of]
               /\ None \notin [head : heads, of : names] /\ \A k, l \in names : None \notin [{k, l} -> Int]

\* The events of a batch have ids of their own, and an item's category records its title and attempt.
ASSUME BatchesAssumption ==
    \A b \in Batches :
        LET says(n, item) == item = Unanswered \/ item.category = [title |-> item.title, attempt |-> n]
        IN  /\ DOMAIN b.attempts = 1..2
            /\ \A i, j \in DOMAIN b.events : b.events[i].id = b.events[j].id => i = j
            /\ \A n \in 1..2 :
                  /\ \A k \in DOMAIN b.attempts[n].answers : \A j \in DOMAIN b.attempts[n].answers[k] :
                         says(n, b.attempts[n].answers[k][j])
                  /\ \A ev \in ToSet(b.events) : NeedsModel(ev) => says(n, b.attempts[n].retries[ev.id])

AskFees ==
    /\ Asks("fees")
    /\ \E h \in FeeHistories :
          /\ question' = [asks |-> "fees", history |-> h]
          /\ answer' = Synced(Synced({}, KalshiSchedules(PublishedAt(h, 1))), KalshiSchedules(PublishedAt(h, 2)))

AskRates ==
    /\ Asks("rates")
    /\ \E rates \in RateHistories :
          LET seen(n) == IntlSchedules([g \in {"type"} |-> rates[n]], SyncTimes[n])
          IN  /\ question' = [asks |-> "rates", rates |-> rates]
              /\ answer' = Synced(Synced({}, seen(1)), seen(2))

\* A batch that fails is delivered again, with what the attempt before it cached.
AskCategories ==
    /\ Asks("categories")
    /\ \E b \in Batches :
          LET attempt(n, cache) ==
                  Canonicalized(b.events, cache, b.attempts[n].answers, b.attempts[n].retries)
              first == attempt(1, <<>>)
          IN  /\ question' = [asks |-> "categories", batch |-> b]
              /\ answer' = IF first.raised THEN attempt(2, first.cache) ELSE first

Ask == AskPair \/ AskListing \/ AskMerge \/ AskFees \/ AskRates \/ AskCategories

Asking == Unasked /\ [][Ask]_<<question, answer>>

-----------------------------------------------------------------------------
(* Properties *)

Answered(kind) == question.asks = kind /\ answer \notin {Unanswered, None}

Entails(a, b) == \A w \in Worlds(Family(a)) : Holds(a, w) => Holds(b, w)

\* The rules take two windows for one though they start apart: by less than the tolerance, or a place's.
StartsTakenForOne(a, b) == a.start # b.start /\ (StartsTogether(a, b) \/ Family(a) = "place")

Alike(a, b) == Family(a) = Family(b) /\ ~StartsTakenForOne(a, b)

Sound(said, a, b) ==
    /\ said.forward  => Entails(a, b)
    /\ said.backward => Entails(b, a)

\* A relation derived without a caveat holds in every world: whatever the scores, the price, the
\* time or the holder turn out to be, a contract that pays out makes the one it implies pay out.
UnflaggedHolds ==
    Answered("pair") /\ answer.flags = {} /\ Alike(question.a, question.b) => Sound(answer, question.a, question.b)

\* Two readings of one price, once comparable, are related whenever one entails the other: value sets
\* lose nothing to their bounds' being open or closed, to negation, or to a range's two parts.
PricesLoseNothing ==
    Answered("pair") /\ Family(question.a) = "price" /\ Family(question.b) = "price" /\ answer.flags = {} =>
        /\ Entails(question.a, question.b) => answer.forward
        /\ Entails(question.b, question.a) => answer.backward

SameAliases(A, C) == \A k \in SubjectKeys(A) : Resolve(A, k) = Resolve(C, k)

Aligned(m) == Align(m.b, m.keys, m.measures)

Named(m) == [k \in SubjectKeys(m.b) |-> Resolve(Aligned(m), IF k \in DOMAIN m.keys THEN m.keys[k] ELSE k)]

KeepsApart(named, B) ==
    /\ IsInjective(named)
    /\ (\E c \in B : c.proposition.kind = "SCORE") => \A k \in DOMAIN named : named[k] = "tie" <=> k = "tie"

\* Measures a rule reads by name.
ReadHeads == {"margin", "winner", "team_goals", "total_goals"} \cup CountedHeads \cup ContestHeads \cup ExclusiveHeads

\* The judge's measures leave whose a measure is, keep one measure one, and rename none a rule reads.
KeepsMeasures(m) ==
    LET to(p) == Remeasured(p, m.measures)
    IN  \A p \in Measured(m.b) :
            /\ Renamed(to(p), m.keys).measure.of = Renamed(p, m.keys).measure.of
            /\ OneHead(to(p)) # OneHead(p) => {OneHead(p), OneHead(to(p))} \cap ReadHeads = {}
            /\ \A q \in Measured(m.b) :
                   OneSpelling(q).measure = OneSpelling(p).measure => OneHead(to(q)) = OneHead(to(p))

\* A merge its check finds nothing against costs neither subject a relationship it had, unless it
\* changes what a short key stands for, or the judge's names and the short keys together give two of b's
\* keys one name, or a draw another's where a score is among b's contracts, or the judge's measures are
\* of another entity, give one measure two names or rename one the rules know by its name.
MergeKeepsRows ==
    Answered("merge") /\ answer.collided = {} =>
        LET m == question.merge
            merged == m.a \cup Aligned(m)
        IN  /\ KeepsApart(Named(m), m.b) /\ KeepsMeasures(m)
            /\ SameAliases(m.a, merged) /\ SameAliases(Aligned(m), merged)
            /\ \A k \in SubjectKeys(m.b) : Resolve(m.b, k) = k
            => Preview(m.a).rows \cup Preview(m.b).rows \subseteq Preview(merged).rows

\* What a fee history means: an override replaces its series' fee, in the parts it gives, until the
\* next; a type no definition expresses counts as nothing set.
Overridden(h, t) ==
    LET past     == {o \in h.overridden \cup h.then : o.at <= t}
        override == Newest(past)
        standing == ChargedInSeries(h, h.early \cup h.late, override.at)
    IN  IF past = {} \/ (override.type = Unset /\ override.multiplier = Unset) THEN {}
        ELSE {[type       |-> IF override.type = Unset THEN standing.type ELSE override.type,
               multiplier |-> IF override.multiplier = Unset THEN standing.multiplier ELSE override.multiplier]}

Expressed(fees) == {f \in fees : f.type \in Expressible}

Charged(h, t) ==
    LET own    == Expressed(Overridden(h, t))
        series == Expressed({ChargedInSeries(h, h.early \cup h.late, t)})
    IN  CHOOSE f \in (IF own # {} THEN own ELSE IF series # {} THEN series ELSE {DefaultFee}) : TRUE

\* The rows the syncs left in the registry give, at every time, the fee the venue charged then: through
\* the rounding change, overrides that begin, end and go unlisted, changes announced between syncs
\* and types no definition expresses.  Overrides over before the first sync may be unknown.
FeeInForce ==
    /\ Answered("fees") =>
          LET h == question.history IN
          \A t \in UnrecordedFrom..SyncTimes[2] + 2 :
              h.overridden = {} \/ ~h.forgets \/ t >= SyncTimes[1] =>
                  InForce(answer, <<<<"event", "event">>, <<"group", "series">>>>, t, Definition(DefaultFee, t))
                      = [fee |-> Charged(h, t), rounding |-> IF t >= AccumulatorFrom THEN "accumulator" ELSE "cent"]
    /\ Answered("rates") =>
          \A n \in DOMAIN question.rates :
              InForce(answer, <<<<"group", "type">>>>, SyncTimes[n], Unset) = question.rates[n]

\* A batch of events delivered again costs no answer and changes none: an event keeps what it was
\* first answered, whatever else failed then; each event's category is its label's or was given for
\* its own title; and only an event never answered fails the batch.
AnswersStay ==
    Answered("categories") =>
        LET b == question.batch
            answered(ev) == {n \in DOMAIN b.attempts : Matches(b.attempts[n].retries[ev.id], ev)}
        IN  /\ answer.raised => \E ev \in ToSet(b.events) : NeedsModel(ev) /\ answered(ev) = {}
            /\ \A r \in answer.results :
                  IF r.ev.category # Unanswered THEN r.given.category = r.ev.category
                  ELSE /\ r.given.category.title = r.ev.title
                       /\ 1 \in answered(r.ev) => r.given.category.attempt = 1
=============================================================================
