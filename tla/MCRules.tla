------------------------------- MODULE MCRules -------------------------------
(* Small sets of propositions, worlds and contracts for Rules. *)
EXTENDS Rules

Blank == [kind |-> None, measure |-> None, comparator |-> None, value |-> None,
          low |-> None, lowIn |-> TRUE, high |-> None, highIn |-> TRUE, unit |-> None,
          observation |-> None, start |-> None, end |-> None, undated |-> FALSE, entity |-> None, scope |-> None,
          stability |-> "LIVE", negated |-> FALSE, scores |-> None, game |-> FALSE, senate |-> FALSE]

Of(head, of) == [head |-> head, of |-> of]

Threshold(measure, c, v) == [Blank EXCEPT !.kind = "THRESHOLD", !.measure = measure, !.comparator = c, !.value = v]

WithNo(P) == P \cup {[p EXCEPT !.negated = TRUE] : p \in P}

\* Numbers are quarters: a goal is 4, a half 2.
GameProps ==
    LET total(c, v) == [Threshold(Of("total_goals", None), c, v) EXCEPT !.game = TRUE, !.observation = "CUMULATIVE"]
        team(c, v)  == [Threshold(Of("team_goals", "home"), c, v) EXCEPT !.game = TRUE, !.observation = "CUMULATIVE"]
        margin(c, v) == [Threshold(Of("margin", "home"), c, v) EXCEPT
                            !.game = TRUE, !.observation = "CUMULATIVE", !.unit = "goals"]
        band == [Blank EXCEPT !.kind = "RANGE", !.measure = Of("total_goals", None), !.low = 4, !.high = 8,
                              !.highIn = FALSE, !.game = TRUE, !.observation = "CUMULATIVE"]
        winner(e) == [Blank EXCEPT !.kind = "WINNER", !.measure = Of("winner", None), !.entity = e, !.game = TRUE]
        score(h, a) == [Blank EXCEPT !.kind = "SCORE", !.unit = "goals", !.game = TRUE,
                                     !.scores = [s \in {"home", "away"} |-> IF s = "home" THEN h ELSE a]]
        whole == {total(c, v) : c \in {"GT", "GTE", "LT", "LTE"}, v \in {4, 6}}
                    \cup {team("GT", 2), team("GTE", 4), team("GTE", 8)}
                    \cup {margin("GT", 0), margin("GTE", 0), margin("GT", 2), margin("LT", 0)}
                    \cup {band, score(4, 0), score(4, 4)} \cup {winner(e) : e \in {"home", "away", "tie"}}
    IN  WithNo(whole \cup {[p EXCEPT !.scope = "first_round"] :
                              p \in {winner("home"), margin("GT", 0), score(4, 0), total("GT", 4), team("GTE", 4)}})

PriceProps ==
    LET at(c, v)   == [Threshold(Of("price", None), c, v) EXCEPT !.observation = "AT_TIME"]
        any(c, v)  == [Threshold(Of("price", None), c, v) EXCEPT !.observation = "ANY_TIME"]
        band(l, li, h, hi) == [Blank EXCEPT !.kind = "RANGE", !.measure = Of("price", None), !.observation = "AT_TIME",
                                            !.low = l, !.lowIn = li, !.high = h, !.highIn = hi]
        levels == {at("GT", 2), at("GTE", 2), at("LT", 2), at("LTE", 2), at("GT", 4), at("LTE", 4),
                   any("GT", 2), any("GTE", 2), any("GTE", 4), any("LTE", 2),
                   band(2, TRUE, 4, FALSE), band(2, FALSE, 4, FALSE), band(2, TRUE, 4, TRUE)}
        windows == {<<None, 1>>, <<None, 2>>, <<0, 1>>}
    IN  WithNo({[p EXCEPT !.start = w[1], !.end = w[2], !.stability = s] :
                   p \in levels, w \in windows, s \in {"LIVE", "SETTLED"}})

DeadlineProps ==
    WithNo({[Blank EXCEPT !.kind = "OCCURS_BY", !.measure = Of("listing", None), !.start = s, !.end = e] :
               s \in {None, 0, 1, 3}, e \in 1..4})

PlaceProps ==
    WithNo({[Blank EXCEPT !.kind = "WINNER", !.measure = Of("holder", "office"), !.entity = w, !.observation = o,
                          !.start = s, !.end = e] :
               w \in {"home", "away"}, o \in {"AT_TIME", "ANY_TIME"}, s \in {0, 1}, e \in {1, 2}})

MCPropositions == GameProps \cup PriceProps \cup DeadlineProps \cup PlaceProps

MCScores  == [{"home", "away"} -> {0, 4, 8}]
MCPrices  == [0..2 -> {0, 2, 3, 4, 6}]
MCTimes   == 0..5 \cup {Never}
MCHolders == [0..2 -> {"home", "away", "else"}]
MCShortFor == {<<"hul", "hull">>, <<"hul", "hulme">>, <<"hu", "hulme">>}

Sold(id, venue, event, p) == [id |-> id, venue |-> venue, event |-> event, source |-> "feed", proposition |-> p]

GameWinner(e, n) == [Blank EXCEPT !.kind = "WINNER", !.measure = Of("winner", None), !.entity = e,
                                  !.negated = n]

Happens(e) == [Blank EXCEPT !.kind = "OCCURS_BY", !.measure = Of("listing", None), !.end = e]

\* Contracts two venues may list: one event's outcomes, its binary sides, a ladder, and misreadings of them.
Pool == {Sold(1, "KALSHI", "e1", GameWinner("hul", FALSE)),
         Sold(2, "KALSHI", "e1", GameWinner("tie", FALSE)),
         Sold(3, "KALSHI", "e2", GameWinner("hull", FALSE)),
         Sold(4, "KALSHI", "e2", GameWinner("hull", TRUE)),
         Sold(5, "POLYMARKET_INTL", "e3", GameWinner("hull", FALSE)),
         Sold(6, "POLYMARKET_INTL", "e3", GameWinner("tie", FALSE)),
         Sold(7, "POLYMARKET_INTL", "e3", GameWinner("tie", TRUE)),
         Sold(8, "POLYMARKET_INTL", "e4", GameWinner("hulme", FALSE)),
         Sold(9, "KALSHI", "e5", Happens(1)),
         Sold(10, "KALSHI", "e5", Happens(2)),
         Sold(11, "POLYMARKET_INTL", None, Happens(2)),
         Sold(12, "POLYMARKET_INTL", "e6", Happens(2)),
         Sold(13, "POLYMARKET_INTL", "e3", GameWinner("hull", FALSE)),
         Sold(14, "KALSHI", "e1", GameWinner("hull", FALSE))}

MCListings == UNION {{S \in SUBSET Pool : Cardinality(S) = n} : n \in 2..4}

Few(S, n) == {T \in SUBSET S : Cardinality(T) \in 1..n}

Merging(As, Bs, keys, measures) ==
    {[a |-> A, b |-> B, keys |-> k, measures |-> m] : A \in As, B \in Bs, k \in keys, m \in measures}

\* Outcomes of games under short and long keys.
KeyMergers ==
    LET wins  == {c \in Pool : c.proposition.kind = "WINNER"}
        one   == Few({c \in wins : c.id <= 4}, 3)
        other == Few({c \in wins : c.id > 4}, 3)
        maps  == {<<>>, [k \in {"hul"} |-> "hull"], [k \in {"tie"} |-> "hull"],
                  [k \in {"hull", "tie"} |-> IF k = "hull" THEN "hul" ELSE "hu"]}
    IN  Merging(one, other, maps, {<<>>}) \cup Merging(other, one, maps, {<<>>})

\* Quantities two subjects name differently, one of them read by name, one spelled two ways, one per entity.
Closing(head, c, v) == [Threshold(Of(head, None), c, v) EXCEPT !.observation = "AT_TIME", !.end = 1]
Seats(e, o, v) == [Threshold(Of("seats", e), "GTE", v) EXCEPT !.observation = o, !.end = 1]
Wins(head, v) == [Threshold(Of(head, "hull"), "GTE", v) EXCEPT !.observation = "CUMULATIVE"]
Takes(head, scope) == [Blank EXCEPT !.kind = "WINNER", !.measure = Of(head, None), !.scope = scope, !.entity = "hull"]

MeasureMergers ==
    LET one   == {Sold(21, "KALSHI", "e21", Closing("price", "GT", 2)), Sold(22, "KALSHI", "e22", Seats("hull", "AT_TIME", 4)),
                  Sold(23, "KALSHI", "e23", Takes("winner", "map:1")), Sold(24, "KALSHI", "e24", Wins("wins", 4))}
        other == {Sold(31, "POLYMARKET_INTL", "e31", Closing("closing_price", "GT", 2)),
                  Sold(32, "POLYMARKET_INTL", "e31", Closing("closing_price", "GT", 3)),
                  Sold(33, "POLYMARKET_INTL", "e32", Closing("price", "GTE", 3)),
                  Sold(34, "POLYMARKET_INTL", "e33", Seats("hull", "CUMULATIVE", 4)),
                  Sold(35, "POLYMARKET_INTL", "e34", Seats("hull", "AT_TIME", 8)),
                  Sold(36, "POLYMARKET_INTL", "e35", Takes("map_1_winner", "map:1")),
                  Sold(37, "POLYMARKET_INTL", "e36", Takes("winner", "map:1")),
                  Sold(38, "POLYMARKET_INTL", "e37", Wins("regular_season_wins", 4)),
                  Sold(39, "POLYMARKET_INTL", "e37", Wins("wins", 8))}
        of(S)  == {[c EXCEPT !.proposition.senate = TRUE] : c \in S}
        maps   == {<<>>, [k \in {Of("closing_price", None)} |-> Of("price", None)],
                   [k \in {Of("price", None)} |-> Of("closing_price", None)],
                   [k \in {Of("map_1_winner", None), Of("seats", "hull")} |->
                       IF k.of = None THEN Of("winner", None) ELSE Of("parliament", "hull")],
                   [k \in {Of("regular_season_wins", "hull")} |-> Of("wins", "hull")],
                   [k \in {Of("wins", "hull")} |-> Of("wins", "hulme")]}
    IN  Merging(Few(one, 1), Few(other, 3), {<<>>}, maps)
            \cup Merging(Few(of(one), 1), Few(of(other), 3), {<<>>}, maps)

MCMergers == KeyMergers \cup MeasureMergers

\* Hours: fees are known from 0, rounding changes at 2, the syncs run at 4 and 6.
MCDefaultFee == [type |-> "quadratic", multiplier |-> 1]
MCSyncTimes  == <<4, 6>>

MCFeeTypes == {"quadratic", "maker", "flat"}

MCFees == {MCDefaultFee, [type |-> "maker", multiplier |-> 1], [type |-> "maker", multiplier |-> 2], [type |-> "flat", multiplier |-> 1]}

Changes(times) ==
    {[id |-> <<"series", t>>, series |-> "series", at |-> t, fee |-> f] : t \in times, f \in MCFees}
Overrides(times) ==
    {[id |-> <<"event", t>>, event |-> "event", series |-> "series", at |-> t, type |-> f, multiplier |-> n] :
        t \in times, f \in {Unset, "maker", "flat"}, n \in {Unset, 3}}

Singles(S) == {{}} \cup {{c} : c \in S}
OnePerTime(S) == {C \in {{c, d} : c, d \in S} : \A c, d \in C : c.at = d.at => c = d}

History(base, early, late, overridden, then, forgets) ==
    [base |-> base, early |-> early, late |-> late, overridden |-> overridden, then |-> then, forgets |-> forgets]

\* Changes are announced in the order they take effect, and a series with a fee from before fees were
\* recorded has no change that the first sync sees.
MCFeeHistories ==
    {h \in {History(MCDefaultFee, e, l, o, n, f) :
               e \in Singles(Changes({1, 3})) \cup OnePerTime(Changes({0, 1})), l \in Singles(Changes({5})),
               o \in Singles(Overrides({1, 3})) \cup OnePerTime(Overrides({3, 5})), n \in Singles(Overrides({5})),
               f \in BOOLEAN} :
        After(h.late, h.early \cup h.overridden) /\ After(h.then, h.overridden) /\ (h.forgets => h.overridden # {})}
    \cup {History([type |-> "maker", multiplier |-> 1], {}, l, o, {}, FALSE) :
             l \in Singles(Changes({5, 7})), o \in Singles(Overrides({1, 3}))}
    \cup {History([type |-> "flat", multiplier |-> 1], {}, {}, o, n, FALSE) :
             o \in Singles(Overrides({1, 3})), n \in Singles(Overrides({5}))}

\* A fee type's rates when it was rolled out at 1, and others it may move to.
MCRollout == [g \in {"type"} |-> [from |-> 1, rates |-> "launch"]]
MCRateHistories ==
    {<<a, b>> : a, b \in {"launch", "other", "third"}} \ {<<a, "launch">> : a \in {"other", "third"}}

\* One event its labels settle among three they do not, and a model that answers the first attempt
\* with any items, and at the second only requests for one event.
Titled(id, title, category, tags) == [id |-> id, title |-> title, category |-> category, tags |-> tags]
MCEvents == <<Titled(1, "a", Unanswered, {}), Titled(2, "b", "SPORTS", {"x", "y"}), Titled(3, "c", "POLITICS", {"x"}),
              Titled(4, "d", Unanswered, {"x", "y"})>>

Item(title, n) == [title |-> title, category |-> [title |-> title, attempt |-> n], tags |-> {title}]
Items(n) == {Unanswered} \cup {Item(t, n) : t \in {"a", "c", "d"}}

MCBatches ==
    {[events |-> MCEvents,
      attempts |-> <<[answers |-> <<x, <<y>>>>, retries |-> r],
                     [answers |-> <<>>, retries |-> s]>>] :
        x \in {<<>>} \cup (Items(1) \X Items(1)), y \in {Unanswered, Item("d", 1)},
        r \in {q \in [{1, 3, 4} -> Items(1)] : q[1] # Item("d", 1) /\ q[4] # Item("a", 1)},
        s \in {q \in [{1, 3, 4} -> Items(2)] : \A i \in {1, 3, 4} : q[i] \in {Unanswered, Item(MCEvents[i].title, 2)}}}
=============================================================================
