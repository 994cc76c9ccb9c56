# A verification project for gnome-classifier

gnome-classifier mirrors prediction-market venues (Kalshi, Polymarket International and US,
Hyperliquid) into a security registry and works out how their contracts relate. This directory
holds TLA+ models of it, the TLC runs that check them, and the theorems TLAPS proves about them.
Paths below are relative to the repository (`stages/…`, `workers/…`, `adapters/…`, `propositions/…`
and `db.py` are under `classifier/`).

## 1. The system

```
 venues ──adapters──▶ FetchRunner ──contracts queue──▶ NormalizeWorker ──entities queue──▶ RelationshipsWorker
                        │  ▲   │                           │                                   │
                      Redis │  └────── registry (writes) ◀─┴───────────────────────────────────┘
                            └───────── database (reads of the registry's tables)
```

Each worker is one ECS task (`desiredCount` 1, `maxHealthyPercent` 100), so there is at most one
FetchRunner, one NormalizeWorker and one RelationshipsWorker at a time; the queues are standard SQS
queues (at least once, in no order). What is concurrent is therefore the workers against each other,
against the venues and against the people who review merges; what survives a crash is Redis, the
queues and the registry.

### Inventory

| Component | State it keeps | Operations | What makes it correct | Module |
|---|---|---|---|---|
| Adapters (`adapters/`) | full events and look-up counts in the process | fetch (paged), bulk list of resolved markets, look-ups by id | one identity and type per market in all three; only final values are settlements | `Adapters`, `Venues` |
| Fetch cycle (`workers/fetch.py` `_run_fetch`, `stages/fetch.py`) | `fetch:known_contracts` in Redis; per cycle the merged and per-exchange hashes, a game's admitted and held events | page diff, volume gate, game release, capped send, commit per exchange, save | a hash is kept only for what was sent; no change is lost; nothing listed looks gone; a game's core markets pass together | `FetchCycle`, `Outbox` |
| Stale cycle (`_run_stale`, `stages/stale.py`) | `fetch:stale_tracker`, `fetch:stale_feed_counts` in Redis; the last fetch's events in memory | count misses, tell, save | only an event gone for its threshold is told; it is told in the end; cap and failures lose nothing | `StaleTracker` |
| Closing and settling (`stages/settle.py`, `stages/resolve.py`) | listings', securities' and events' flags and values in the registry; `fetch:sent_resolved`; the sweep's cursors | closure check, recent settlements, settle sweep, resolve cycle | an event is resolved exactly when it is over; a security follows its listings; every final value is found | `Lifecycle`, `Venues` |
| Reactivation (`stages/reactivate.py`) | the same flags | turn listings and securities back on, un-resolve | an open market comes back, a settled one never | `Lifecycle`, `Venues` |
| Fee sync (`stages/fees.py`, `_run_fees`) | `sm.fee_schedule` | merge dated changes into append-only rows | what is looked up for a time is what the venue charges then | `Fees` |
| NormalizeWorker (`workers/normalize.py`, `workers/base.py`) | the batch in flight | closed, then stale, then new messages; delete or redeliver | idempotent under redelivery and any order; no half-done change stays | `Lifecycle`, `Entities` |
| Entity creation (`stages/entities.py`) | events, securities, listings, event contracts, sources | create what is missing, rename, reconcile, announce | one security per listing; a retry completes a failed attempt | `Entities` |
| Canonicalization (`stages/canonicalize.py`, `client/claude.py`) | cache | chunked model calls, matching of answers, a second round | an answer is never lost, asked twice or given to another event | `Categories` |
| RelationshipsWorker (`workers/relationships.py`) | walk positions, timers | read new and backlog securities, re-check readers, derive, merge | every security is read in the end, every changed subject derived again | `Reading`, `Derivation`, `SubjectMerges` |
| Readings and attempts (`stages/propositions.py`, `propositions/extract.py`, `propositions/attempts.py`, `propositions/venue/`) | stored propositions; attempts, `readers:version` in Redis | plan reads, upsert, back off, park | what can be read is read; the marked version's readings are everywhere; a binary's two sides agree | `Reading` |
| Subject derivation (`stages/propositions.py`) | `derived_at`s, relationships | derive due subjects in requests of bounded size | a subject is marked derived only for what it was derived from; nothing wrong stays | `Derivation` |
| Relationship rules (`propositions/derive.py`, `propositions/canonical.py`) | – | implication rules, candidate groups, collisions, canonical keys | an unflagged relationship holds whatever happens | `Implication` |
| Subject merges (`stages/subject_merges.py`, `propositions/merges.py`) | judged pairs and sweep time in Redis, aliases, the queue of pairs for people | propose, judge, check, merge, queue | no person's decision is acted against; a merge rests on what it was judged on | `SubjectMerges`, `MergeDecisions` |
| Volumes, start times (`stages/volume.py`, `stages/schedule.py`) | last values written | write what moved | | – |
| Database reads (`db.py`) | – | the queries the stages decide on | | as operators of each |
| Configuration, repairs, notify, scripts, CDK | | | | – |

### What is hard here

* Two processes turn the same listings, securities and events on and off, each by a read of the
  database followed by writes through the registry, with nothing locked in between.
* Messages are delivered twice, late, and in any order; a batch handles its closed messages before
  its stale ones before its new ones whatever order they were sent in.
* Every cycle saves at its end what it did at its start: a crash or a failed send in between.
* Venues answer with errors, nothing, part of their feed, or wrong lists, and change between two pages.
* The relationships worker reads, derives and merges over rows that the normalize worker, people and
  its own earlier steps change under it, in walks whose pages shift.
* Limits: messages per cycle, look-ups per cycle and hour, miss thresholds, ratios, rows per request.
* Pure rules with many cases: when one contract implies another, which fee is in force.

`PROJECT.json` lists these hazards line by line, with the properties that catch each one or the
reason why none does.

## 2. Modules

| Module | Models |
|---|---|
| `Outbox` | the promise of the fetch cycle about the hashes it saves |
| `FetchCycle` | one fetch cycle: `_run_fetch`, `diff_contracts`, `GameCore`, the hashes in Redis; implements `Outbox` |
| `StaleTracker` | the stale cycle: `update_stale_tracker`, its two Redis keys, the events kept in memory |
| `Lifecycle` | listings, securities and events in the registry, and every step of FetchRunner's and NormalizeWorker's handlers that reads or changes them |
| `Adapters`, `Venues` | what the four adapters make of a venue's markets; the fetch, closure, settlement and reactivation passes over one venue that changes between any two requests |
| `Entities` | `create_entities`, one registry write at a time, with the queue before and the announcements after it |
| `Reading` | how every open security gets a proposition: messages, backlog walk, reader re-check, attempts |
| `Derivation` | deriving the subjects that are due, against everything that changes what it reads |
| `MergeDecisions` | the promise of the subject merger to the people who review it |
| `SubjectMerges` | the merge pass, its memory in Redis and its sweep clock; implements `MergeDecisions` |
| `Implication` | the relationship rules, candidate groups, collisions, canonical keys, the merge check |
| `Fees`, `Categories` | the fee schedules and their sync; the categorization of a batch |
| `Rules` | questions to the three modules above, and reference definitions of what their answers must mean |
| `Missing` | `None`, which `Implication` and `Derivation` share |
| `MC…` | the instances TLC checks, one module for each specification |
| `FetchCycle_proofs`, `StaleTracker_proofs`, `Lifecycle_proofs`, `Venues_proofs`, `Entities_proofs`, `Reading_proofs`, `Derivation_proofs`, `SubjectMerges_proofs` | the theorems about the module each is named for; `Derivation_proofs` also has the one about `Rules` |

A step of a process is what it does between two external calls, wherever another actor's step could
matter in between; a registry call is one atomic write. A venue, a person or a fault is an action of
its own, bounded by `MaxChanges`, `MaxFaults` and the like, each named in the module's CONSTANTS.
Names, texts and payloads are members of small sets or model values.

### FetchCycle and Outbox

A contract is a model value, its hash a member of `Version` (only equality matters), and `None`
stands for an absent key. `known` is the Redis key; `loaded`, `merged`, `hashes`, `admitted`, `held`
and `leftFeed` are the locals of the same (or nearly the same) name in `_run_fetch`. `feed` and `loud`
are the venue: what each contract looks like, and which events reach their volume threshold.
`StartCycle`, `StartExchange`, `ReadPage`, `FinishExchange` and `FinishCycle` are the statements
between two external calls; a page is any set of unread events of the exchange, as the adapters yield
an event's contracts together. `SendFails`, `ReleaseSendFails` and `VenueFails` end in the `except` of
the adapter loop (`DropExchange`); `Crash` forgets all but Redis and the queue. Which groups the cap
leaves out depends on the order of a page, which no property depends on, so any choice of that many
groups is allowed. `delivered`, `seen` and `gated` are history.

`Outbox` says what all this is for: whatever is saved was delivered before, and a save forgets a
contract only with an excuse. `FetchCycle` implements it with `saved <- known` and, as excuses, the
contracts the closure check is told about (`leftFeed`) and those the cycle did not have when it began.

### StaleTracker

`tracker` holds each event's miss count, `feedCounts` each exchange's last count, `active`,
`successful` and `haveEvents` stand for `_active_events`. `StaleCycle` runs up to the sends, then
`SaveTracker` and `SaveFeedCounts` are separate writes. A reading (`Reads`) may fail for an exchange,
answer with nothing, or lack events; a cycle that has no events in memory reads the adapters itself. `misses`, `counted` and `told` are history: fetches that answered
without an event. The feed ratio is a fraction `RatioNum / RatioDen`. `Hour` makes the next stale cycle
due, a restart makes it due at once.

### Lifecycle

One exchange. `listing`, `security`, `event`, `linked` and `settled` are the registry's tables, as
the database shows them. Each process is at a label `pc[p]` with the ids it read last in `picked[p]`:
a label is a point between two external calls, so that the other process may run there. The three
copies of "turn off listings, then the securities left with none" (`deactivate_closed_listings`,
`deactivate_stale_events`, `_reconcile_stale_entities`) are one triple of actions, taken for the
caller in `stage[p]`. `Fetch` and `TellStale` are the abstractions of `FetchCycle` and `StaleTracker`: a
message for every event with something new or changed that passes the volume gate, a stale message for an
event no fetch listed. The gate (`Passes`) drops an event under its threshold (`quiet`) none of whose
markets is known, from the messages and from the fetch's keys, by which reactivation goes; the stale cycle
still counts it as listed (`listed`). The cap on messages is left to `FetchCycle`.
Faults: `"crash"` (the process dies, or a call raises), `"venue"` (a look-up fails), `"missed"` (a fetch
lacks an open market), `"wrong"` (the bulk list names open markets), `"forgot"` (Redis lost the hashes),
`"redeliver"` (a processed batch comes again).

Abstracted: the lookback windows (everything is recent enough), the sweep's cursor and page size
(`Venues` has them), the message caps of the resolve cycle, names, specs and fees. SQS is a set of
messages: it delivers in any order, a copy of a message that is already there adds nothing that
`"redeliver"` does not. A game's core markets pass the gate with their game in `FetchCycle` only.

### Adapters and Venues

`Adapters` has one operator for each adapter's endpoint, over the venue's markets `now`
(`[status, yes]` each, in an event): which contracts a page of events yields and under which event and
type (`mutually exclusive`, `negative risk` and the like decide it and are one flag, `grouped`), what the
bulk list of resolved markets names, and what a look-up answers, its price in units of 1/`Scale` for
the side asked about.

`Venues` runs FetchRunner's loop over them, for an adapter chosen in `Init`, one iteration after another: the
paged fetch, the closure check, the recent settlements and the reactivation, then the resolve cycle, the
stale cycle and the settlement sweep if they are due. `ReadPage` takes the next page by cursor or, for
Polymarket US, by offset into a list that shrinks as events close; full events of Polymarket US are kept for
`FULL_EVENT_TTL_SECONDS`; Gamma forgets old markets, which are then asked of the CLOB, `Budget` an hour, in
the order of their ids, each counted before it is asked (`SpentInVain`). A fetch that fails keeps what it sent
and counts for no stale cycle (`FetchFails`). `ResolveCycle` tells of each id its adapter lists as closed, but
for those it told of the time before (`sent`); its interval is longer than an iteration, so it
may be due in one or not (`SkipResolve`). `StaleCycle` asks no venue: it counts misses of native events (`NativeOf`:
an event, or one market where the adapter lists each by itself), unless the feed has a gap, and turns off all the
listings of one that reaches the threshold. `HourPasses` stands at once for the stale cycle and the sweep falling due,
for the TTL and for the window of recent closures, so a full event is kept longer than the five minutes the code
keeps it.

Every event is above its volume threshold here (`Lifecycle` has the gate), every iteration fetches, a resolve
cycle reads its venue in one answer, and each stage's look-up and writes are one step, since `Lifecycle` has what
happens between them. A stale cycle that runs on a fetch made earlier, reads the adapters itself after a restart,
meets its message cap or fails to save is in `StaleTracker`; here one without a fetch counts nothing.
Left out: outcomes recorded by a fallback of their own, volumes, start times, milestones, texts.

### Entities

The registry's rows of two or more markets: `listing`, `symbol`, `links` (event contracts), `source`,
`events`. A message carries an event's markets; `Collect` takes a batch and `step` goes through
`create_entities` in its order. Bulk requests carry one row each, so a batch can stop between any two
rows. A name is a market's symbol, outcome label, listing name and source at once, so that names of two
markets can clash, be swapped or be taken. `Shared` has the securities from before identity was one per
listing. A batch that fails is delivered again until `MaxReceives`, then its messages are `dead`.

### Reading, Derivation, SubjectMerges

The three halves of the relationships worker's work, each with its own state and failures; in the code
one worker runs them in turn, and what one does to another's rows is an action of the other's `Around`.

`Reading`: a security is a number (walks go by id), its source the number of its hash; a read is what
`Reads` says code makes of it under a readers version, or the model's. A first side is read itself, a
second side is the negation of its first (`Sides`). `Extract`, `Record`, `StoreChunk`, `StoreFixes` are
the passes' external calls; `Tick` is time, in which a record's wait runs out and, a week later, the
record itself. `SourceWritten` is the normalize worker, `Restarts` also deploys new versions.

`Derivation`: a reading is a place `[subject, unit, rank]` in a ladder, equal ranks being equivalent:
enough to have implication, equivalence, units and reduction, and `Implication` has what the rules make
of real propositions. Rows are stored reduced, for consecutive contracts only, and `Rebuilt` is what a
consumer gets back. Times are compared with `derived_at` only, so the model keeps the sets of what is
later than it. `Reconcile` is one request, with the chunk of contracts it is about.

`SubjectMerges`: three subjects, pairs of them found by their keys (`Keyed`) or by embedding (`Near`); the
judge's answers and the outcomes of the check are inputs. `canon` is the alias table, `queue` the
registry's list of pairs, `memory` the remembered verdicts, `fresh` and `swept` the sweep clock. People
dismiss, merge and unmerge at any time. It implements `MergeDecisions` with the queue's pending pairs and
the pairs people decided. A pass asks about the busiest pairs first, up to `JudgeLimit`; a pair whose `Answers`
are `None` is one the judge never answers. The hour by which a sweep overlaps the one before (`SWEEP_OVERLAP`)
is left out, so the model looks up fewer neighbours than the code; the runs have no subject with a season's key
(`Season`), which the theorems allow.

### Implication, Fees, Categories, Rules

Pure functions, each translated rule by rule: `Relate` is the implication of two propositions with its
caveats (flags), `SettledRows` and `Preview` derive a listing, `CheckMerge` weighs a merge; `KalshiSchedules`,
`IntlSchedules` and `Synced` are the fee sync; `Canonicalized` is an attempt at a batch. Numbers are small
integers (quarters of a goal, hours), keys are short names with a given relation of "short for". A measure is a
head and the entity it is of; `OneSpelling` is the head's one spelling (`_measure`), and `Align` renames b's measures
and then its keys by the judge's two maps. A field that is empty or not known is `None`, but a window's end that is not
known (`undated`), which keeps a reading at a time from being usable, is told from one there is not. What
the subject says of its contracts is with them: that it is a game, that it is a senate (`game`, `senate`).
`Rules` asks one question per behaviour and holds the answer against a reference: for propositions, a set
of worlds (a game's scores, a price at each hour, when something happened, who held a place) in which each
is true or false; for fees, what the venue charges at each time; for categories, the answers received.
Its assumptions say what the questions may be, and are all that the proofs know of them:

* `WorldsAssumption`: what a usable proposition is about (`WellRead`): a number of a game, a price at an hour or
  in a window, a deadline, a winner, a holder of a place or a final score, with the fields its kind needs. The
  worlds do not tell what contests (votes, seats), numbers in thousands and undated readings are about: those
  rules are in the model and in `MergeKeepsRows`, and outside `UnflaggedHolds`.
* `PricesAssumption`: each reading of a price reads something (no range is empty, no change is from the hour it is to,
  no window is without an hour), and prices tell readings apart: some price shows it each number that any names, one
  between any two and one beyond each.
* `MergersAssumption`: two subjects share no contract and none of their contracts an id, a contract has its fields and
  a score its two sides, both subjects are a game or neither is, and likewise a senate; the judge maps no empty key or
  measure, no key to nothing (`_mapping` drops those), and a measure to one with a head and an entity.
* `HistoriesAssumption`: a fee history is one the rows can follow (`Orderly`): what is announced later takes effect
  later, and once the rounding has changed; a fee from before fees were recorded is seen by the first sync; no
  override comes and goes between the syncs. The syncs come after the rounding change, one after the other.
* `RatesAssumption`: a fee type has no rates of the rollout before its date, and none return to them.
* `BatchesAssumption`: the events of a batch have ids of their own, and an item of an answer records in its category
  whose it is and which attempt it answered, so that a property can tell.

A request that got no answer is the empty sequence; an answer may have any item at any place. `Canonicalized`
takes the events of a batch by position (`Asked`), each with its place in a request (`Request`).

## 3. Runs

All bounds are small on purpose: the actors are one or two processes, a counterexample needs one or two
changes of a venue and at most one or two faults, and the contracts, markets and events are alike, so that
two or three of them show any relation a property speaks of. `MaxFaults`, `MaxChanges` and their like
bound how often venues and people change things and faults strike in one behaviour. All runs but
`reading_sides` pass.

| Run | Instance | Question |
|---|---|---|
| `fetch` | an event of two contracts, one of them core market of a game, and another event of that game; one message per cycle, one fault of any kind, one change of the venue | what is saved was sent, what is listed never looks gone, games pass whole, the cycle implements `Outbox`, and everything above its threshold is sent in the end |
| `stale` | three events on one exchange, one on another, threshold 2, ratio 1/2, one message per cycle, one fault | nobody is told stale before the threshold of fetches without it, or leaves the tracker untold; who is gone is told |
| `life_over` | an event of two markets, one fault of any kind | resolved means over, settled means retired |
| `life_follows` | two listings on one security and a third market, reactivation off | at rest a security is on exactly when it has an active listing |
| `life_live` | one market, one fault, no crash | what is open comes back unless the volume gate holds it back, what is over is turned off, what has settled is resolved |
| `venues` | each adapter with an event of two markets, Polymarket US with a second event; miss threshold 2 | feed, bulk list and look-ups agree on each market; a recorded value is final; no cycle turns off what stayed open; every final value is recorded in the end |
| `entities` | two markets whose names clash, one of which moves between events; two messages, two failures | no two markets share a security; a failed batch is completed; a rename never fails one |
| `reading` | a binary's two sides that the first release leaves to the model and the second reads by code, and a market code can always read; one pass cut off | the marked version's readings are everywhere, sides agree unless a correction came between, what can be read is read |
| `reading_sides` | the same, no pass cut off | violated: the two sides of a binary do not agree (section 6) |
| `derive` | a ladder of three contracts over three subjects, one of which fails on every pass; requests of one row | nothing wrong stays, everything is rebuilt, a changed contract is not forgotten, every subject has its turn |
| `merges` | three subjects, two pairs found by keys and one by embedding, two looks at the judge per pass, of which the busiest pair, never answered, takes one | the pass implements `MergeDecisions`, merges on what it saw, queues what it holds, judges what it can find |
| `rules` | every pair of 272 propositions; 1 456 listings of up to four contracts; 10 784 merges of up to three contracts with three, 4 592 under names of the judge and 6 192 under measures; 28 019 fee histories; 9 792 batches and what the model answers to them | relationships hold in every world, prices lose none, merges lose no rows, fees and categories are as given |

Why these bounds are enough, where it is not plain:

* `fetch` needs a game of two events, one of them core, and three contracts, for a cap of one group to bind;
  its one fault may be at any step. It has one exchange: that one exchange fails while another commits, and
  faults and changes without bound, are covered by the theorems of section 4, which prove all of its
  safety properties for any number of each.
* `stale` needs three events on one exchange for two to go while it still answers (a wholly empty answer
  counts no misses) and for the cap of one message to bind, and a second exchange that fails by itself.
  The threshold is only counted up to and compared, so 2 stands for 24.
* `life_live` has a single market: liveness for each market depends on others only through the look-ups
  that are capped, which `life_over` and `venues` have.
* `merges`: the pair that is never answered is the busiest, so it is in every pass; the limit of two leaves one look
  for the two others, which therefore wait for each other.
* `venues`: two markets are enough for a sibling to come or go; Polymarket US has a second event for the
  offset to shift. With a threshold of 2 the stale cycle takes an event's listings only after a miss was kept through
  another fetch, and late enough that the closure check and the resolve cycle have their turn first; the changes
  (`MCMaxChanges`: two, three or four by venue) are enough on Kalshi to shut, open, shut and
  finalise a market that shares its event. `Budget` is two look-ups an hour. With one, `FinalGetsRecorded` fails for
  Polymarket International: a market the CLOB has no final value for is asked first every hour, as look-ups
  go in the order of ids (`adapters/polymarket_intl.py:246`). The property holds as long as the hour has a
  look-up for every market Gamma has forgotten, and the run shows that nothing else is in the way.
* `entities`: with two failures and three receives a message is given up only for a symbol that is taken.
* `derive`: requests of one row each are cut at every place they can be; three contracts make the shortest
  ladder with a row that follows through another.
* `rules`: numbers are chosen on both sides of, and on, every bound (whole and half goals, first round
  and whole game); three hours give a window that starts later or ends earlier.

**Fairness.** Faults, people and changes of venues are never fair, nor is the order of cycles. `FetchCycle`:
the runner's loop goes on (`run()` catches whatever a cycle raises), so its next step is weakly fair.
`StaleTracker`: hours pass, a fetch is tried in each interval, a due cycle is run and its saves happen.
`Lifecycle`: the fetch and the resolve cycle come round, but from the label `idle`, which the runner leaves for
other cycles, hence strong fairness (nothing is asked of the settlement sweep and the stale cycle); a started cycle goes on, and messages are received and processed (weak fairness),
as SQS keeps a message until it is deleted. `Venues`: the loop goes on (weak fairness of `Loop`, for `run()` catches
whatever a cycle raises), the resolve cycle falls due again and again, in iterations that pass it by between
(strong fairness of `ResolveCycle`), and an hour passes again and again, which is possible only between two iterations
(strong fairness of `HourPasses`). `Entities`: the worker runs on, and the queue delivers each message in the end
(strong fairness of receiving one of each event, as other messages may be received first). `Reading`: the
worker's loop never waits for anything but the queue, and time passes. `Derivation`: every poll ends in a
pass, a pass goes on to its next subject, a request is answered or fails. `SubjectMerges`: an idle worker
runs the pass at each interval.

**Why some properties have conditions.** A condition names a behaviour the code really has; section 6
has the ones that differ from what the repository says.

* `StaleAfterMisses` excepts failed fetch cycles: they leave the events of the fetch before, which the
  next stale cycle counts again.
* `ResolvedIsOver` and the single market of `life_live` have every market registered from the start: an
  event can be resolved between the read of its values and the registration of another outcome.
* `SettledGetsResolved` and `SecurityFollowsListings` are checked without crashes: a crash between two writes
  of one handler leaves the rest undone, since the retry no longer finds the listings or the values that
  would lead it there (`workers/repair_overdue.py` is there for such events). `SecurityFollowsListings` needs
  reactivation off.
* `OpenComesBack` excepts a market whose event the volume gate holds back (`HeldBack`): quiet, and none of its markets
  known any more. The code leaves such a market off (section 6).
* `FeedIsFaithful` allows Polymarket US an event as old as the TTL, and to miss a market when an event left the list
  while it was paged.
* `OpenStaysOn` is about what was open all through the iteration, from the start of its fetch: what opens or reopens
  after its page was read is not on that fetch, and by it the resolve and the stale cycle may still turn it off.
  For Polymarket US it is all through the hour that full events are kept for, and unless an event slipped. A market
  that reopens comes back on by the next fetch.
* `FinalGetsRecorded` excepts a contract that is active and was told of by the resolve cycle (`on \cap sent`). It came on
  after it was told of, and was over again before the next cycle compared, so the bulk list named it both times and the
  cycle tells only of what is new (`workers/fetch.py:395`); where the closure check failed too, and a sibling keeps
  its event listed so that the stale cycle does not take it, nothing else looks at it, and it stays active without its value.
* `SidesAgreeUnlessCorrected` holds while no pass was cut off, `ExactlyRebuilt` while no contract left its unit,
  `NothingWrongLeft` except for a contract whose event resolved before it was derived again and then
  opened, `QueuedUnlessDied` but for the pairs a pass that
  died had in hand (`lost`), until one of them is due again and handled to the end.
* `FindableGetsJudged` excepts pairs found by embedding alone once one came to need judging though neither
  subject was modified (an event opened, a volume rose, a verdict was forgotten): neighbours are only looked
  up of what changed. And it is about fewer pairs without an answer than the limit: as many would take every pass
  (section 6).
* `UnflaggedHolds` excepts two windows that the rules take for one though they start apart (`StartsTakenForOne`,
  section 6), and says nothing across families (a game's number and a price are never related).
* `PricesLoseNothing` is about prices as rich as `PricesAssumption` says. Fewer would make readings entail each other
  that have nothing to do with each other.
* `MergeKeepsRows` excepts merges that change what a short key stands for, and those after which two of the keys of the subject
  merged away have one name (`KeepsApart`), or a draw another name where a score is among its contracts; and those
  by measures of the judge's (`KeepsMeasures`) that are of another entity, that give one measure two names, or that rename one the rules
  know by its name (`ReadHeads`: a renamed `winner` excludes nobody, a renamed `margin` leads nowhere). The
  check looks for contracts a merge would leave out, and each of these loses relationships without leaving one out. It is
  not enough that the judge maps no two keys to one: it may name one `hul` and another `hu`, which are then short for
  one and the same key of the other subject. TLC found that case when the proof needed it.
* `FeeInForce` has changes announced in the order they take effect (`Orderly`); overrides that were over before the
  first sync may be unknown, as the venue keeps no history of them.
* `NotGivenUp` and `QueuedGetsListed` except the clash of a new security's symbol with another's, which
  fails its batch whatever is done.

## 4. Proofs

Every theorem is about its module's specification, for any values of the constants that satisfy the module's assumption, and holds
through every fault and change the module has, unless a hypothesis is named. Its argument is always the same
in form: an invariant that holds at the start and is kept by every step (one lemma per group of actions,
one case per action) implies the property. What differs, and is worth reading, is which invariant.
Each module begins with its type, `TypeCorrect`, which all the rest stands on.

**`FetchCycle_proofs`**

* `OnlySentHashesKept`: `[]KnownWasSent`. The invariant is inductive because it speaks of all
  four dicts a hash passes through (`known`, `loaded`, `merged`, `hashes`), and because `ReadPage` adds
  the groups it delivers to `delivered` before their hashes are kept (`UpdatedHashesSent`).
* `ListedNeverLeft`: `[]LeftFeedIsGone`. Not inductive alone. `LeftFeedInv` adds that what was
  read belongs to exchanges already started, what left the feed to exchanges finished, and that a known
  contract read on the exchange at hand has its hash again (`KnownReadAgain`): a known contract's event
  is never gated, and a group over the cap keeps its old hash.
* `ImplementsOutbox`: `KeepsOutbox`, the refinement. `MergedKeeps` says that the copy about to be saved lacks
  only what left the feed or was not loaded (`NextMergedKeeps`); `NextSaves`, that only `FinishCycle`
  changes the saved hashes, to that copy, and every other step at most delivers; `StepImplements` puts
  these and `KnownWasSent` together: a save is `Outbox`'s `Save`, anything else its `Deliver`.
* `GamesGoOutTogether`: `[]GameTogether`. `GameInv` says where a gated core market is in the middle of an exchange:
  held for its game (`GatedAreHeld`), which is let in as soon as any of its events passes
  (`PassedAreAdmitted`), so that `FinishExchange` releases it; the exchanges that are over keep the promise
  meanwhile (`TogetherElsewhere`), as what is gated or held belongs to an exchange already started.

**`StaleTracker_proofs`**

* `TypeCorrect`: among the rest, no miss count grows past the threshold.
* `ToldAfterMisses`: `[]StaleAfterMisses`. The property only speaks of `told`, which a cycle takes from the tracker that
  an earlier cycle saved, so `MissesInv` bounds each of them by the history `misses` (the saved tracker,
  the one about to be saved), and adds that a due cycle has a fetch it has not counted yet and that
  what was just told is not about to be saved with a count. `CycleCounts` is the lemma about
  `update_stale_tracker` itself. Without the condition on failed fetches the fact about a fetch not yet
  counted does not hold, and neither does the property.
* `ToldBeforeForgotten`: `TrackedUntilTold`, an action property. Only `SaveTracker` writes the tracker,
  and what it writes was made by an earlier step, so `KeptOrTold` carries what holds of it over: what the
  tracker had and the new one lacks was told (`CycleKeeps`).

**`Lifecycle_proofs`**

* `SettledNeverReactivated`: `SettledStaysRetired`. Only the runner turns listings on, from a list it read earlier;
  it alone records values, and not in between, so what it is about to turn on has none (`OnWithoutValue`).
* `ResolvedEventIsOver`: every event whose markets were all registered at the start is resolved only when it is
  over (`RegisteredIsOver`). The runner's patch rests on an earlier read (`DoneAreValued`), which no new outcome can
  join for such an event (`RegisteredLinked`); the worker's on what it took from messages that some stale cycle
  sent (`ToldInMessages`, `GoneWereTold`). `ResolvedOnlyWhenOver`, **assuming `Registered = Market`**, is
  `[]ResolvedIsOver`; without it the property is false, since an outcome registered between read and patch has no
  value.
* `SecuritiesFollow`: `[]SecurityFollowsListings`, **assuming `~Reactivation` and `"crash" \notin Faults`** (both
  needed, section 6). While the two processes are at work the property does not hold, so `FollowsInv` says who will
  put it right: an active security has an active listing, or a process has it at hand (`OnOrInHand`);
  a process about to turn a security off knows that all of its listings are off (`OffWithListings`), which stays
  true as none comes back on (`NeverOn`) and the worker makes none late (`MadeInOrder`).

**`Venues_proofs`**, for each adapter and any grouping of markets into events

* `TypeCorrect`: among the rest, the CLOB is asked within its budget (`LeastCount`: of the first so many ids there
  are so many at most).
* `ValuesAreFinal`: `[]RecordedIsFinal`. All look-ups of all adapters give a value only for what is final now, and that
  side's own (`Honest`, with a lemma for each adapter), writing such an answer records no more (`Written`), and the
  venue moves no market that is final (`MovesFrame`).
* `OneWayListed`: `[]OneIdentity`. `MapPageOf`: what any page lists has the event and type that only the market and
  the events' flag decide, so everything ever listed has (`AllOneWay`).
* `OpenStays`: `OpenStaysOn`. The stale cycle asks no venue, so that it spares an open market rests on what a
  fetch that ended has read: `ActiveInv` follows a market open all the while from the start of the fetch. Once the pages
  have passed its event it is read (`PassedListed`; for Polymarket US, `PassedAreRead` below), so when they end its native
  event is among the active ones (`FinishedActive`), and stays there until the stale cycle, since a fetch that failed leaves
  none (`AllActive`). That the native event under which it was read is the one its listing is under is `AllOneWay`.
  For the resolve cycle and the look-ups, `ResolvedOf` says what the four bulk lists name, and `SnapshotsKnown`
  that a full event which Polymarket US's adapter keeps and still takes for fresh says nothing of a market that
  was not so at some moment of the hour, which holds because the hour ends for all of them at once. `TurnedOffStep` puts
  the three together.
* `FetchIsFaithful`: `[]FeedIsFaithful`. Half way through a fetch `FeedInv` says that the events that the offset has passed are
  read, but for markets that were not open (`PassedAreRead`): an event that joins the list only pushes others
  on (`MoveKeepsPassed`), and one that leaves it has slipped. That the pages end only after the last event
  needs `RanksFill`: the events of a list are numbered without a gap.

**`Entities_proofs`**

* `NewListingAlone`: `OneMarketEach`. `NewAreFree`: from the step that assigns securities to the step that makes
  listings, those of new listings are held by no listing, and no two are one.
* `RetryCompletes`: `[]HalfMadeIsRetried`. `RetryInv`: a batch stays in the queue while it lasts, and
  from the step after the event contracts on, every contract of the batch has one (`LinksMade`), so that `Delete`
  deletes only what is complete.
* `OnlyClashesGiveUp`: `[]NotGivenUp`, **assuming `MaxFailures < MaxReceives`**. `Patience`: a message has been received
  at most as often as batches failed, once more while in a batch, and no rename makes two symbols one, which is
  what could fail a batch every time.

**`Reading_proofs`**

* `PageReaches` and the lemmas before it are about a walk by id in pages (`Page`, `After`): what lies up to the page's last id
  and belongs to the walk is on the page. The walk skips nothing, whatever the page size.
* `MarkedIsChecked`: `[]MarkedMeansChecked`. The marker is set at the end of a walk that takes days, so `WalkInv` says
  what holds half way: what the walk has passed is good (`PassedIsGood`), what the page in work reaches is good
  or still to be replaced by something at hand (`PageIsGood`, `Pending`), everything at hand was read by the running
  readers (`AtHandIsGood`), and a walk is under way only for a version not yet marked. Passes by messages and by
  the backlog, new sources and restarts keep all four.
* `SidesDifferOnlyCorrected`: `[]SidesAgreeUnlessCorrected`, for markets with one second side for each first
  (`IsInjective(FirstOf)`: a binary event is one market of two sides). The property compares what is stored, which a
  pass changes a chunk at a time, so `SidesInv` says of each step what its plan promises of the two sides: what is due
  is out of date (`DueIsStale`), a first side is read with its second (`PlannedTogether`), so both are read or neither,
  and a second side read alone agrees with the first (`ReadTogether`); what the two will be once the rows at hand are
  stored matches (`SidesMatch` of `Coming`), unless the page corrected the second (`PageCorrects`).

**`Derivation_proofs`**

* `ChangedStaysDue`: `[]ChangedKeepsDue`. What changes while its subject is derived is not covered by that pass's
  `read_at`; `Touched` says that the job knows of it, `Due` that the subject is due otherwise.
* `NoRowIsWrong`: `[]NothingWrongLeft`. `RowInv`: each stored row between contracts that have not changed since
  they were derived is right (`RowsRight`), so are the rows the job holds but for what changed since it read
  (`JobRight`), and every unchanged contract of the job's subject either still waits in one of its requests or has
  only right rows (`JobCovers`). `AroundDisturbs` says of all that happens around the pass which contracts it
  changes and that it adds no row. With nothing due, all rows are right.
* `RowsAreExact`: `[]ExactlyRebuilt`, which needs the converse: no row is missing. While no contract left its unit each is
  where it was placed (`Stayed`), so the rows a unit ought to have are known at every moment (`Ladder`). `StoreInv`: a unit
  none of whose contracts is changed has them (`Stored`), and those the job has not stored yet are between
  contracts of one of its requests to come (`JobStores`), however it cuts a unit into chunks. That these few rows give back
  every pair of the ladder is `LadderReaches`: of all the pairs a closed set would split, one with the fewest contracts in
  between has none, so it has a row.

* `RelationsHold`: `Rules`' `[]UnflaggedHolds`, for every two propositions and any scores, prices, times and holders that
  satisfy `WorldsAssumption`. There is no state to speak of: the invariant (`PairsAnswered`) says that an answer
  is what `Relate` says of two usable propositions, and `RelateSound` that this is so in every world. Its parts:
  - a value set holds exactly the values its proposition pays out for (`ValueSetExact`), through negation
    (`ComplementExact`: the two parts outside an interval, an empty one dropped) and rounding to whole numbers
    (`WholeKeeps`), and what lies within another set has no value the other lacks (`WithinSound`);
  - two prices related without a caveat are read over one window (`OneWindow`). Of two touches of a level that
    holds by the same argument at each hour; of a touch and the absence of one it cannot, but neither's values
    ever lie within the other's (`TouchesApart`), so the rule says nothing;
  - deadlines, holders and winners by cases (`DeadlinesSound`, `WinnersSound`): who holds a place at the end of a window
    holds it within the window only as the end is one of the window's hours;
  - across kinds, each rule has its lemma: `TeamTotalSound` (a total is at least a team's, and both sets reach without bound),
    `MarginSound` (a positive margin makes its side the leader), `ScoresSound` (`ScoreValueExact`: what a score
    makes another's number).

* `PricesExact`: `Rules`' `[]PricesLoseNothing`, the converse for prices. Where no part of `b`'s values holds a part of
  `a`'s, that part and one of what `b` lacks reach each other (`WithinComplete`, for `b` an interval or the two parts
  outside one), so they have a number in common that some price shows (`MeetSeen`: the later start and the
  earlier end are numbers some reading names), and at that price `a` holds and `b` does not (`ShownHolds`).

* `MergesExact`: `Rules`' `[]MergeKeepsRows`, for any two subjects and any names and measures from the judge. Chains of short
  keys and the collisions taken out are given by recursion, and what is proved of them holds after any number of steps: a
  chain from a key of a subject ends at a key of it (`ResolvesTo`), and the rows are those between the contracts not left
  out (`SettledAre`). The contracts of the subject kept read as they did (`SameReadings`), so its rows are derived again
  (`RowsOfPart`). Those of the other are read by new keys and new heads of measures (`ReadByNewNames`): the keys stay
  apart (`NewNamesKeep`), and a head in its one spelling (`OneSpellingIs`) goes to one head, to itself if the rules read
  it by name (`NewHeadsAre`, `HeadsKept`). Nothing the rules say depends on more: no rule tells two such heads apart (`HeadsRead`),
  and neither values and deadlines (`ValuesKept`, `DeadlinesKept`), nor scores (`ScoresKept`), groups
  (`ComparedKept`) or whether a proposition is usable (`UsableKept`) depend on what keys and other measures are called, hence
  no row (`RowKept`, `RowsOfRenamed`). As the check finds nothing, whatever the merged subject leaves out was left out of one of
  the two before (`LeftOutBefore`).

* `FeesFollow`: `Rules`' `[]FeeInForce`, for every orderly history and every time, and the rates of every pair of syncs.
  There is again no state; the argument goes from what a venue publishes to what the rows tell:
  - the second sync adds the rows of what is new and leaves the rest alone (`SecondSync`), because a row is known by the
    change it was made for (`RefersToOne`, `SameReference`), so both syncs together leave at each target one row
    for each change, and the rounding change's (`SeriesLeft`, `EventLeft`, `CutoverStays`);
  - rows with the rounding change put in tell at each time what the latest of them says, with the rounding of that
    time (`CutoverTells`); the latest row is the latest change's (`LatestRow`), hence the series' fee
    (`SeriesTells`) and the override's (`EventTells`), which takes what it leaves out from the series of its
    time, the same at whichever sync it was first seen (`StandingSame`, `StandingIs`);
  - of two targets the first that sets something decides (`InForceOfTwo`).

* `AnswersKept`: `Rules`' `[]AnswersStay`, for any events, chunk size and answers. `EndsWith` says what one attempt leaves of any
  cache: answers that were there are there, every new one was given for the event's own title in this attempt, every
  event that its own request answers is answered, and only an event without an answer fails the batch
  (`AttemptEnds`). Two attempts, the second with what the first cached, give the property (`BatchStays`).

**`SubjectMerges_proofs`**

* `PromiseKept`: `KeepsItsPromise`, the refinement of `MergeDecisions`. `ApartFromSeen`: what the pass has in hand after it
  read the decisions is apart from them, at each of its stages. `AroundDecides` and `PassDecides` map every step to
  one of `MergeDecisions` or to a stutter.
* `HeldReachPeople`: `[]QueuedUnlessDied`, whichever passes die. `Swept`: a pass at its last stage has written what it holds to the queue.
* `VerdictIsCurrent`: `RestsOnItsVerdict`. `VerdictInv`: what is remembered of a pair in hand is about the contents
  the pass summarised (`KnownRests`), and those are still the subject's contents unless someone else changed it or the pass
  itself merged it (`PrintsAreCurrent`), and a pair of a subject the pass merged is not merged again; aliases lead to
  canonical subjects at once (`Canonical`).

**What is only model-checked, and why.**

* Every liveness property: fairness and `ENABLED` are out of the prover's reach.
* The values of the constants that the runs give: that an instance satisfies its module's assumptions, TLC evaluates.

## 5. Plan

Every module of section 2 is built and checked, and every safety property that holds is proved
(section 4).

Beyond that, the volume and schedule cycles, and `Lifecycle` composed with `Entities`, so that a listing
is turned off by one stage while the other creates it.

## 6. Where the code and its documents differ

Found while modelling; each names the property whose condition it explains.

* "Groups already sent this cycle keep their new hashes so they aren't resent" (`workers/fetch.py:315`): not
  those SQS accepted in a send that failed part way, which the next cycle sends again (harmless, since
  messages are idempotent).
* "a day of hourly cycles" (`README.md:151`, and `:108`): a restart runs a stale cycle at once (`workers/fetch.py:153`),
  so a worker that keeps restarting counts a day's misses in as many restarts, if a fetch answers in
  each. `StaleAfterMisses` therefore counts fetches.
* A listing that is turned back on between one process's read of the securities left with none
  (`stages/resolve.py:39-40`) and its write leaves its security off, with no later step to turn it on. `life_follows`
  with `Reactivation = TRUE` shows it; with it off, `SecurityFollowsListings` holds.
* "each unit's relationships are replaced as one set, which makes redelivery and re-derivation idempotent"
  (`stages/propositions.py:10`): a contract that leaves its unit takes along the rows that others'
  relationships are rebuilt through, and the unit it left is not derived again until one of its contracts
  changes (`ExactlyRebuilt`).
* "any active listing of that event missing from the batch has been removed by the exchange"
  (`stages/entities.py:587-588`): or was created by a later message that was delivered first. The listing is off
  until the next message of its event, or reactivation (`QueuedGetsListed` asks for the listing, not that it is
  active).
* "merges held for a price disagreement or a collision are queued for a person in the registry" (`README.md:439`): a
  pair is remembered as queued before the queue is written, in one call at the end
  (`stages/subject_merges.py:425-431`); a pass that dies in between leaves it to nobody until its contents
  change. `QueuedUnlessDied` holds, which says it happens to no other pair.
* "Pairs past the limit, and any the model failed to answer, keep the sweep open so the next pass finds them again"
  (`stages/subject_merges.py:411`, and `:8-9`): it finds them, and asks first about the busiest (`:396`, `:403`), those it
  had no answer for among them. As many of these as the limit take every pass, and no other pair is ever judged.
  With fewer of them `FindableGetsJudged` holds.
* "a listing it turns off comes back on when a fetch sees the market open again" (`stages/resolve.py:18-19`): not
  while its event is under the volume threshold and none of its contracts is known any more. The gate for new
  events (`stages/fetch.py:104`, `:111-120`) takes it for one, and the keys of "every contract it lists"
  (`workers/fetch.py:116-117`), by which `reactivate_listings` goes, lack it. `OpenComesBack`
  has the exception.
* "The second side of a binary is always the first side's negation" (`propositions/extract.py:160-161`): not
  after a pass that was cut off between the rows of the two, and not after a re-check either.
  `recheck_readers` reads the stored propositions of a page (`stages/propositions.py:219`), has the first sides
  that code now reads differently read again, both sides (`:224`), and then stores the corrections of
  what it had read before (`:228`): on a release that does both, the second side is overwritten with the model's
  old reading, corrected. Nothing re-reads it, as its source has not changed. `reading_sides` is the run;
  `SidesAgreeUnlessCorrected` says that this is the only way the two can differ.
* "None when they are about different times" (`propositions/derive.py:350`): `_winner_timing` compares the ends of
  two windows and not their starts, so a place held at any time since June is taken to imply one held at any
  time since September, without a flag. In the same way `_deadlines` takes deadlines whose windows start up
  to the tolerance apart for one window, unflagged, though it says "both have to start together"
  (`propositions/derive.py:324-328`), and so does `_same_reading` with windows of settled prices (`:247-250`).
  `UnflaggedHolds` names all three as `StartsTakenForOne`, and `RelationsHold` proves that there is no other case.
* "A type whose rates change gets a new row from then" (`README.md:163`): rates that return to earlier ones
  have the `source_ref` of the first time (`stages/fees.py:240-242`) and get no row. `FeeInForce`'s rate histories
  change at most once.
* "The part an override leaves out is taken from the series as it stood when the override began"
  (`stages/fees.py:131`): as it was known when the override was first seen; a series change announced
  later for an earlier time does not reach the row. And the row for a fee from before changes were recorded
  is written for series without a recorded change only (`stages/fees.py:135-141`), so a first sync after the
  first recorded change never has it.

## 7. Not modelled

* Parsing of market texts, prompts and model answers (`propositions/venue/*`, `propositions/llm.py`,
  `taxonomy.py`), which is string processing: who reads what, and what becomes of it, is in `Reading`.
* The volume and schedule cycles: caches of the last value written, which the next cycle writes again.
* Listing specs, fee keys, currencies and descriptions in `stages/entities.py`: data no step depends on.
* One-off tasks run by hand (`workers/repair_overdue.py`, `split_securities.py`, `sync_names.py`), scripts
  and offline evaluation; they call stages that are modelled, or change no state.
* Notifications, runtime configuration, clients, caches and deployment: wiring, whose calls are the atomic
  steps of the models, and whose settings are their constants.

`PROJECT.json` gives each component's status.
