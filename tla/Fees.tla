-------------------------------- MODULE Fees --------------------------------
(***************************************************************************)
(* Fee schedules: what a venue publishes of its fees, as rows of the       *)
(* registry's sm.fee_schedule, and the sync that adds the rows the         *)
(* registry does not hold yet.  A row holds at its target from its time    *)
(* until the target's next row; a row without a definition leaves the      *)
(* target to the next wider one.                                           *)
(*                                                                         *)
(* Rates are abstracted to a fee type and a multiplier, a schedule's       *)
(* source_ref to the tuple it is formatted from, and timestamps to         *)
(* integers; changes of one target have times of their own.                *)
(***************************************************************************)
EXTENDS Integers

CONSTANTS
    Unset,           \* no definition, or a part an override leaves out
    FeeTypes,        \* the fee types venues name,
    Multipliers,     \* and what they multiply them by
    Expressible,     \* the fee types a definition expresses (KALSHI_MAKER_SHARE)
    DefaultFee,      \* KALSHI_DEFAULT_FEE: [type, multiplier]
    AccumulatorFrom, \* KALSHI_ACCUMULATOR_FROM: when Kalshi's rounding changed
    UnrecordedFrom,  \* KALSHI_UNRECORDED_FEE_FROM
    Rollout          \* POLYMARKET_INTL_FEE_TYPES: [fee type -> [from, rates]]

Fee == [type : FeeTypes, multiplier : Multipliers]

ASSUME FeesAssumption ==
    /\ Expressible \subseteq FeeTypes
    /\ DefaultFee \in Fee /\ DefaultFee.type \in Expressible
    /\ Unset \notin [fee : Fee, rounding : {"cent", "accumulator"}]
    /\ AccumulatorFrom \in Int /\ UnrecordedFrom \in Int /\ UnrecordedFrom < AccumulatorFrom

\* Of changes of one target, the last.
Newest(changes) == CHOOSE c \in changes : \A d \in changes : d.at <= c.at

Latest(rows) == CHOOSE r \in rows : \A q \in rows : q.from <= r.from

-----------------------------------------------------------------------------
(* Kalshi *)

Definition(fee, at) ==
    IF fee.type \in Expressible
    THEN [fee |-> fee, rounding |-> IF at >= AccumulatorFrom THEN "accumulator" ELSE "cent"]
    ELSE Unset

\* The rates of a row, under the new rounding.
Moved(r) ==
    [target |-> r.target, from |-> AccumulatorFrom, fee |-> r.fee,
     definition |-> Definition(r.fee, AccumulatorFrom), ref |-> <<r.ref, "accumulator">>]

\* Mutant: the rates the target began with are carried over.
CutoverOfFirst(rows) ==
    LET before == {r \in rows : r.from < AccumulatorFrom}
        first  == CHOOSE r \in before : \A q \in before : r.from <= q.from
    IN  IF before = {} \/ first.definition = Unset THEN rows
        ELSE rows \cup {Moved(first)}

\* A target still under a schedule from before the rounding changed charges the same rates
\* under the new rounding from then.
WithRoundingCutover(rows) ==
    LET before  == {r \in rows : r.from < AccumulatorFrom}
        inForce == Latest(before)
    IN  IF before = {} \/ (\E r \in rows : r.from = AccumulatorFrom) \/ inForce.definition = Unset
        THEN rows
        ELSE rows \cup {Moved(inForce)}

\* A row of a change, recorded with no definition if none expresses its type.
ScheduleRow(target, change, fee) ==
    [target |-> target, from |-> change.at, fee |-> fee, definition |-> Definition(fee, change.at),
     ref |-> IF fee.type \in Expressible THEN <<change.id>> ELSE <<change.id, "unsupported", fee.type>>]

\* A series that charges other than the default and has no recorded change is taken to have charged
\* it ever since fees are known; current is GET /series, changes its fee_changes.
WithUnrecorded(current, changes) ==
    changes \cup {[id |-> <<"unrecorded", s>>, series |-> s, at |-> UnrecordedFrom, fee |-> current[s]] :
                     s \in {x \in DOMAIN current : current[x] # DefaultFee} \ {c.series : c \in changes}}

SeriesAt(changes, s, at) ==
    LET past == {c \in changes : c.series = s /\ c.at <= at}
    IN  IF past = {} THEN DefaultFee ELSE Newest(past).fee

SeriesRows(changes, s) ==
    WithRoundingCutover({ScheduleRow(<<"group", s>>, c, c.fee) : c \in {d \in changes : d.series = s}})

\* The part an override leaves out is its series' when the override began; one that leaves out both
\* is lifted.
Filled(changes, c) ==
    LET standing == SeriesAt(changes, c.series, c.at)
    IN  [type       |-> IF c.type # Unset THEN c.type ELSE standing.type,
         multiplier |-> IF c.multiplier # Unset THEN c.multiplier ELSE standing.multiplier]

EventRow(changes, c) ==
    IF c.type = Unset /\ c.multiplier = Unset
    THEN [target |-> <<"event", c.event>>, from |-> c.at, fee |-> Unset, definition |-> Unset, ref |-> <<c.id>>]
    ELSE ScheduleRow(<<"event", c.event>>, c, Filled(changes, c))

EventRows(changes, overrides, e) ==
    WithRoundingCutover({EventRow(changes, c) : c \in {d \in overrides : d.event = e}})

KalshiSchedules(venue) ==
    LET changes == WithUnrecorded(venue.current, venue.changes)
    IN  (UNION {SeriesRows(changes, s) : s \in {c.series : c \in changes}})
          \cup (UNION {EventRows(changes, venue.overrides, e) : e \in {c.event : c \in venue.overrides}})

-----------------------------------------------------------------------------
(* Polymarket International *)

\* One row for each fee type, by the rates its markets carry: from the type's rollout if they are
\* those it began at, and otherwise from the sync that sees them.
IntlSchedules(definitions, now) ==
    {[target |-> <<"group", g>>, definition |-> definitions[g], ref |-> <<g, definitions[g]>>,
      from |-> IF g \in DOMAIN Rollout /\ Rollout[g].rates = definitions[g] THEN Rollout[g].from ELSE now] :
        g \in DOMAIN definitions}

-----------------------------------------------------------------------------
(* The sync, and the registry's choice among a target's rows *)

\* sync_venue_fee_schedules
Synced(registry, schedules) ==
    registry \cup {r \in schedules : r.ref \notin {q.ref : q \in registry}}

\* The registry takes a listing's targets from the narrowest to the widest.
InForce(registry, targets, t, default) ==
    LET held(i) == {r \in registry : r.target = targets[i] /\ r.from <= t}
        setting == {i \in DOMAIN targets : held(i) # {} /\ Latest(held(i)).definition # Unset}
    IN  IF setting = {} THEN default
        ELSE Latest(held(CHOOSE i \in setting : \A j \in setting : i <= j)).definition
=============================================================================
