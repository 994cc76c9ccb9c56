------------------------------- MODULE Reading -------------------------------
(***************************************************************************)
(* How the RelationshipsWorker gets a proposition for every open security: *)
(* the securities of a message batch, a page of the backlog and a page of  *)
(* the walk that re-checks the code readers, each planned, read, recorded  *)
(* and stored, while sources change, the model fails or is switched off,   *)
(* records are lost, and passes die part way.                              *)
(*                                                                         *)
(* A security is a number, as its id orders the walks.  A source is the    *)
(* number of its hash, 0 before there is one.  What is read is             *)
(* [by |-> what the code or the model reads, negated |-> BOOLEAN].         *)
(* Deriving what was read is Derivation's; here a pass ends before it.     *)
(***************************************************************************)
EXTENDS Integers, FiniteSets, SequencesExt

CONSTANTS
    None,
    Firsts,          \* securities read as their own proposition (primary sides)
    FirstOf,         \* [second side -> the first side of its binary event]
    Reads,           \* [<<readers version, first side, source>> -> what code reads, or None]
    Claimed,         \* first sides of a family the readers handle (claims)
    Corrected,       \* [readers version -> what the model's reading becomes under its corrections]
    MaxReaders,      \* bound: READERS_VERSIONs deployed
    MaxExtractor,    \* bound: EXTRACTOR_VERSIONs deployed
    MaxSource,       \* [first side -> bound: times its market's source is written]
    MaxAccidents,    \* bound: times the LLM is switched on or off, or an attempt record is lost
    MaxFailures,     \* bound: passes that fail or processes that stop part way
    Backoff,         \* BACKOFF_SECONDS, in ticks
    Week,            \* WEEK_SECONDS, in ticks
    BacklogLimit,    \* relationships_backlog_limit
    RecheckPage,     \* RECHECK_PAGE
    ChunkRows        \* rows of one upsert request

Seconds == DOMAIN FirstOf
Securities == Firsts \cup Seconds

\* What code or the model can say of a market, and what is stored of it.
Bys == Range(Reads) \cup Range(Corrected)
Propositions ==
    [reading : [by : Bys, negated : BOOLEAN], method : {"VENUE", "LLM"}, hash : Nat \ {0}, version : Nat]

ASSUME ReadingAssumption ==
    /\ Firsts \subseteq Nat \ {0} /\ Seconds \subseteq Nat \ {0} /\ Firsts \cap Seconds = {}
    /\ IsFiniteSet(Securities)
    /\ \A s \in Seconds : FirstOf[s] \in Firsts
    /\ IsInjective(FirstOf)          \* a binary has two sides
    /\ MaxReaders \in Nat \ {0} /\ MaxExtractor \in Nat \ {0} /\ MaxSource \in [Firsts -> Nat]
    /\ \A r \in 1..MaxReaders, f \in Firsts : \A h \in 1..MaxSource[f] : <<r, f, h>> \in DOMAIN Reads
    /\ DOMAIN Corrected = 1..MaxReaders
    /\ MaxAccidents \in Nat /\ MaxFailures \in Nat /\ Week \in Nat /\ Backoff \in Seq(Nat)
    /\ BacklogLimit \in Nat \ {0} /\ RecheckPage \in Nat \ {0} /\ ChunkRows \in Nat \ {0}
    /\ None \notin Nat /\ None \notin Propositions

VARIABLES
    source,          \* [security -> hash of its stored venue source]
    stored,          \* [security -> stored proposition, or None]
    attempt,         \* [security -> attempt record, or None]
    messages,        \* securities with a message in the queue
    llm,             \* proposition_llm_enabled
    readers,         \* READERS_VERSION running
    extractor,       \* EXTRACTOR_VERSION running
    marker,          \* readers:version
    backlogAfter,    \* _backlog_after
    recheckAfter,    \* _recheck_after
    step,            \* what the worker does next
    job,             \* what it reads for: "messages", "backlog" or "recheck"
    batch,           \* the messages being processed
    due,             \* securities to read, as planned so far
    items,           \* [security -> source hash it is read from]
    partners,        \* [second side -> stored first reading it is the negation of]
    outcome,         \* [item -> its reading, or why there is none]
    rows,            \* [security -> proposition still to be stored]
    fixes,           \* corrections of the recheck page still to be stored
    following,       \* where the walk goes after this page
    accidents, failures

jobVars == <<step, job, batch, due, items, partners, outcome, rows, fixes, following>>
walks   == <<backlogAfter, recheckAfter>>
outside == <<source, llm, readers, extractor, accidents, failures>>
vars    == <<source, stored, attempt, messages, llm, readers, extractor, marker, backlogAfter, recheckAfter,
             step, job, batch, due, items, partners, outcome, rows, fixes, following, accidents, failures>>

-----------------------------------------------------------------------------
(* Attempts *)

Empty == [s \in {} |-> None]

WaitSeconds(n) == IF n <= Len(Backoff) THEN Backoff[n] ELSE Week

\* A record made against another source or extractor version counts as none.
Current(s, hash) ==
    /\ attempt[s] # None
    /\ attempt[s].hash = hash
    /\ attempt[s].version = extractor

Waiting(s, hash, on) ==
    /\ Current(s, hash)
    /\ attempt[s].left > 0
    /\ attempt[s].reason = "NEEDS_LLM" => ~on /\ attempt[s].readers = readers

\* A failed read is counted up to the first weekly wait, after which nothing changes with it.
Failed(s, hash) ==
    LET before == IF Current(s, hash) /\ attempt[s].reason = "FAILED" THEN attempt[s].count ELSE 0
        count  == IF before > Len(Backoff) THEN before ELSE before + 1
    IN  [hash |-> hash, version |-> extractor, reason |-> "FAILED", count |-> count,
         left |-> WaitSeconds(count), readers |-> 0]

Parked(hash) ==
    [hash |-> hash, version |-> extractor, reason |-> "NEEDS_LLM", count |-> 0, left |-> Week, readers |-> readers]

-----------------------------------------------------------------------------
(* What is stored, and what is due *)

Negation(reading) == [reading EXCEPT !.negated = ~@]

Proposition(reading, method, hash) == [reading |-> reading, method |-> method, hash |-> hash, version |-> extractor]

IsCurrent(s) == stored[s] # None /\ stored[s].hash = source[s] /\ stored[s].version = extractor

Opened == {s \in Securities : source[s] # 0}

\* The first `limit` of S after `after`, by id.
Page(S, limit, after) ==
    LET later == {s \in S : s > after}
    IN  {s \in later : Cardinality({t \in later : t <= s}) <= limit}

\* Where the walk goes after a page: past it, or back at the start when it was not full.
After(page, limit) == IF Cardinality(page) = limit THEN CHOOSE s \in page : \A t \in page : t <= s ELSE 0

Asks == job # "recheck" /\ llm

-----------------------------------------------------------------------------
(* A pass *)

ReadNext(which, ids, reread) ==
    /\ job' = which
    /\ due' = {s \in ids : source[s] # 0 /\ (s \in reread \/ ~IsCurrent(s)) /\
                           (which = "recheck" \/ ~Waiting(s, source[s], llm))}
    /\ step' = IF due' = {} THEN "store" ELSE "sides"
    /\ items' = Empty /\ partners' = Empty /\ outcome' = Empty /\ rows' = Empty

\* process_batch: read what the messages name.
Receive ==
    /\ step = "idle" /\ messages # {}
    /\ \E S \in (SUBSET messages) \ {{}} :
        /\ batch' = S
        /\ ReadNext("messages", S, {})
    /\ UNCHANGED <<stored, attempt, messages, marker, walks, fixes, following, outside>>

\* Mutant of Backlog: always the first page.
FirstPageOfBacklog ==
    LET page == Page({s \in Opened : ~IsCurrent(s)}, BacklogLimit, 0)
    IN  /\ following' = After(page, BacklogLimit)
        /\ ReadNext("backlog", page, {})
        /\ UNCHANGED <<stored, attempt, messages, marker, walks, batch, fixes, outside>>

\* read_backlog: a page of what has no current proposition.
Backlog ==
    LET page == Page({s \in Opened : ~IsCurrent(s)}, BacklogLimit, backlogAfter)
    IN  /\ following' = After(page, BacklogLimit)
        /\ ReadNext("backlog", page, {})
        /\ UNCHANGED <<stored, attempt, messages, marker, walks, batch, fixes, outside>>

\* on_idle, and the batch's second part.
StartBacklog == step \in {"idle", "backlog"} /\ (step = "idle" => messages = {}) /\ Backlog

\* recheck_readers: a page of open securities, those code now reads differently re-read, the model's
\* readings a correction now changes stored corrected.
Recheck ==
    LET page     == Page(Opened, RecheckPage, recheckAfter)
        read(s)  == s \in Firsts /\ Reads[<<readers, s, source[s]>>] # None
        code(s)  == [by |-> Reads[<<readers, s, source[s]>>], negated |-> FALSE]
        changed  == {s \in page : /\ read(s) /\ stored[s] # None
                                  /\ <<stored[s].reading, stored[s].method>> # <<code(s), "VENUE">>}
        fixed(s) == [stored[s] EXCEPT !.reading.by = Corrected[readers]]
        wrong    == {s \in page : /\ ~read(s) /\ stored[s] # None /\ stored[s].method = "LLM"
                                  /\ stored[s].hash = source[s] /\ fixed(s) # stored[s]}
    IN  /\ step = "recheck" /\ recheckAfter # None
        /\ following' = After(page, RecheckPage)
        /\ fixes' = [s \in wrong |-> fixed(s)]
        /\ ReadNext("recheck", changed, changed)
        /\ UNCHANGED <<stored, attempt, messages, marker, walks, batch, outside>>

Second(s) == s \in Seconds

\* _plan_reads, once it is known what is due: first sides bring their second sides; a second side read
\* alone takes its first side's stored reading, or reads it too unless that one waits.
Sides ==
    LET withSeconds == due \cup {s \in Seconds : FirstOf[s] \in due /\ source[s] # 0}
        alone == {s \in due : Second(s) /\ FirstOf[s] \notin withSeconds /\ source[FirstOf[s]] # 0}
        held  == {s \in alone : stored[FirstOf[s]] # None /\ stored[FirstOf[s]].hash = source[FirstOf[s]]}
        also  == {f \in {FirstOf[s] : s \in alone \ held} : job = "recheck" \/ ~Waiting(f, source[f], llm)}
    IN  /\ step = "sides"
        /\ items' = [s \in withSeconds \cup also |-> source[s]]
        /\ partners' = [s \in held |-> stored[FirstOf[s]]]
        /\ step' = "read" /\ due' = {}
        /\ UNCHANGED <<stored, attempt, messages, marker, walks, job, batch, outcome, rows, fixes, following, outside>>

Read(proposition) == [got |-> proposition, why |-> None]
Unread(why) == [got |-> None, why |-> why]

\* What may come of a first side: what code reads; else what the model answers (nothing valid, nothing
\* at all), or that only the model could read it, or that a reader should have.
Outcomes(s) ==
    LET code == Reads[<<readers, s, items[s]>>]
        by(what, method) == Read(Proposition([by |-> what, negated |-> FALSE], method, items[s]))
    IN  IF code # None THEN {by(code, "VENUE")}
        ELSE IF Asks THEN {by(Corrected[readers], "LLM"), Unread("failed"), Unread("unavailable")}
        ELSE IF s \in Claimed THEN {Unread("fell back")} ELSE {Unread("needs llm")}

\* Mutant of OfFirst: a second side is read from its own source, not as the negation of its first side's.
OfFirstUnnegated(s, of) ==
    IF FirstOf[s] \in DOMAIN items
    THEN IF of[FirstOf[s]].got = None THEN of[FirstOf[s]]
         ELSE Read([of[FirstOf[s]].got EXCEPT !.hash = items[s]])
    ELSE IF s \in DOMAIN partners
    THEN Read(Proposition(Negation(partners[s].reading), partners[s].method, items[s]))
    ELSE Unread("failed")

OfFirst(s, of) ==
    IF FirstOf[s] \in DOMAIN items
    THEN IF of[FirstOf[s]].got = None THEN of[FirstOf[s]]
         ELSE Read([of[FirstOf[s]].got EXCEPT !.hash = items[s], !.reading = Negation(@)])
    ELSE IF s \in DOMAIN partners
    THEN Read(Proposition(Negation(partners[s].reading), partners[s].method, items[s]))
    ELSE Unread("failed")

\* extract_propositions
Extract ==
    /\ step = "read"
    /\ \E of \in {g \in [DOMAIN items \cap Firsts -> UNION {Outcomes(s) : s \in DOMAIN items \cap Firsts}] :
                     \A s \in DOMAIN g : g[s] \in Outcomes(s)} :
            outcome' = [s \in DOMAIN items |-> IF Second(s) THEN OfFirst(s, of) ELSE of[s]]
    /\ step' = "record" /\ partners' = Empty
    /\ UNCHANGED <<stored, attempt, messages, marker, walks, job, batch, due, items, rows, fixes, following, outside>>

\* record, and the rows to store.  A reader that fell back with the LLM off records nothing.
Record ==
    /\ step = "record"
    /\ attempt' = IF job = "recheck" THEN attempt
                  ELSE [s \in Securities |->
                          IF s \notin DOMAIN outcome THEN attempt[s]
                          ELSE IF outcome[s].got # None THEN None
                          ELSE IF outcome[s].why = "failed" THEN Failed(s, items[s])
                          ELSE IF outcome[s].why = "needs llm" THEN Parked(items[s])
                          ELSE attempt[s]]
    /\ rows' = [s \in {t \in DOMAIN outcome : outcome[t].got # None} |-> outcome[s].got]
    /\ step' = "store" /\ items' = Empty /\ outcome' = Empty
    /\ UNCHANGED <<stored, messages, marker, walks, job, batch, due, partners, fixes, following, outside>>

Without(f, S) == [s \in DOMAIN f \ S |-> f[s]]

\* One upsert request: the next rows by id.  A correction takes the version the proposition now has.
StoreChunk ==
    LET chunk == Page(DOMAIN rows, ChunkRows, 0)
    IN  /\ step = "store" /\ rows # Empty
        /\ stored' = [s \in Securities |-> IF s \in chunk THEN rows[s] ELSE stored[s]]
        /\ rows' = Without(rows, chunk)
        /\ UNCHANGED <<attempt, messages, marker, walks, step, job, batch, due, items, partners, outcome, fixes, following, outside>>

\* _store_corrections comes after the re-reads, in requests of its own.
StoreFixes ==
    /\ step = "store" /\ rows = Empty /\ fixes # Empty
    /\ rows' = [s \in DOMAIN fixes |-> [fixes[s] EXCEPT !.version = stored[s].version]]
    /\ fixes' = Empty
    /\ UNCHANGED <<stored, attempt, messages, marker, walks, step, job, batch, due, items, partners, outcome, following, outside>>

Forgotten ==
    /\ due' = {} /\ items' = Empty /\ partners' = Empty /\ outcome' = Empty /\ rows' = Empty /\ fixes' = Empty

\* Mutant of ReadDone: the walk is marked done with its first page.
ReadDoneAndMarked ==
    /\ step = "store" /\ rows = Empty /\ fixes = Empty
    /\ CASE job = "messages" -> step' = "backlog" /\ UNCHANGED <<walks, marker>>
         [] job = "backlog"  -> /\ backlogAfter' = following
                                /\ step' = "recheck" /\ UNCHANGED <<recheckAfter, marker>>
         [] OTHER            -> /\ recheckAfter' = IF following = 0 THEN None ELSE following
                                /\ marker' = readers
                                /\ step' = "end" /\ UNCHANGED backlogAfter
    /\ Forgotten
    /\ UNCHANGED <<stored, attempt, messages, job, batch, following, outside>>

\* What was read is stored: on to the backlog, to the recheck, or to the pass's end.
ReadDone ==
    /\ step = "store" /\ rows = Empty /\ fixes = Empty
    /\ CASE job = "messages" -> step' = "backlog" /\ UNCHANGED <<walks, marker>>
         [] job = "backlog"  -> /\ backlogAfter' = following
                                /\ step' = "recheck" /\ UNCHANGED <<recheckAfter, marker>>
         [] OTHER            -> /\ recheckAfter' = IF following = 0 THEN None ELSE following
                                /\ marker' = IF following = 0 THEN readers ELSE marker
                                /\ step' = "end" /\ UNCHANGED backlogAfter
    /\ Forgotten
    /\ UNCHANGED <<stored, attempt, messages, job, batch, following, outside>>

NothingToRecheck ==
    /\ step = "recheck" /\ recheckAfter = None
    /\ step' = "end"
    /\ UNCHANGED <<stored, attempt, messages, marker, walks, job, batch, due, items, partners, outcome, rows, fixes,
                   following, outside>>

Rest == step' = "idle" /\ job' = None /\ batch' = {} /\ following' = 0 /\ Forgotten

\* The pass ends and its messages are deleted; one sent meanwhile for the same security is another message.
PassEnds ==
    /\ step = "end"
    /\ \/ messages' = messages \ batch /\ UNCHANGED failures
       \/ \E again \in (SUBSET batch) \ {{}} :        \* deletes may fail
            /\ failures < MaxFailures /\ failures' = failures + 1
            /\ messages' = (messages \ batch) \cup again
    /\ Rest
    /\ UNCHANGED <<source, stored, attempt, marker, walks, llm, readers, extractor, accidents>>

-----------------------------------------------------------------------------
(* Everything else *)

\* A request or the store raises: the pass is given up, its messages redelivered.
PassFails ==
    /\ step # "idle" /\ failures < MaxFailures
    /\ failures' = failures + 1
    /\ Rest
    /\ UNCHANGED <<source, stored, attempt, messages, marker, walks, llm, readers, extractor, accidents>>

\* The process is replaced, perhaps by one of another version: the walks restart (_setup).  Between
\* passes when it is told to stop, part way when it is not.
Restarts ==
    /\ \E r \in readers..MaxReaders, e \in extractor..MaxExtractor :
        /\ IF step = "idle" THEN <<r, e>> # <<readers, extractor>> /\ UNCHANGED failures
           ELSE failures < MaxFailures /\ failures' = failures + 1
        /\ readers' = r /\ extractor' = e
        /\ recheckAfter' = IF marker = r THEN None ELSE 0
    /\ backlogAfter' = 0
    /\ Rest
    /\ UNCHANGED <<source, stored, attempt, messages, marker, llm, accidents>>

\* The normalize worker stores a source (both sides of a binary come from one market) and sends its
\* messages, or dies in between.
SourceWritten ==
    \E f \in Firsts :
        LET market == {f} \cup {s \in Seconds : FirstOf[s] = f}
        IN  /\ source[f] < MaxSource[f]
            /\ source' = [s \in Securities |-> IF s \in market THEN source[s] + 1 ELSE source[s]]
            /\ \E sent \in SUBSET market : messages' = messages \cup sent
    /\ UNCHANGED <<stored, attempt, marker, walks, jobVars, llm, readers, extractor, accidents, failures>>

LlmFlips ==
    /\ accidents < MaxAccidents
    /\ accidents' = accidents + 1
    /\ llm' = ~llm
    /\ UNCHANGED <<source, stored, attempt, messages, marker, walks, jobVars, readers, extractor, failures>>

AttemptLost ==
    /\ accidents < MaxAccidents
    /\ accidents' = accidents + 1
    /\ \E s \in Securities : attempt[s] # None /\ attempt' = [attempt EXCEPT ![s] = None]
    /\ UNCHANGED <<source, stored, messages, marker, walks, jobVars, llm, readers, extractor, failures>>

\* Time passes between steps.  A record outlives its wait by a week, then is gone.
Tick ==
    /\ \E s \in Securities : attempt[s] # None /\ attempt[s].left > 0
    /\ attempt' = [s \in Securities |-> IF attempt[s] = None \/ attempt[s].left = 0 THEN attempt[s]
                                        ELSE [attempt[s] EXCEPT !.left = @ - 1]]
    /\ UNCHANGED <<source, stored, messages, marker, walks, jobVars, llm, readers, extractor, accidents, failures>>

-----------------------------------------------------------------------------

Init ==
    /\ source = [s \in Securities |-> 0]
    /\ stored = [s \in Securities |-> None]
    /\ attempt = [s \in Securities |-> None]
    /\ messages = {} /\ llm \in BOOLEAN
    /\ readers = 1 /\ extractor = 1 /\ marker = 0
    /\ backlogAfter = 0 /\ recheckAfter = 0
    /\ step = "idle" /\ job = None /\ batch = {} /\ following = 0
    /\ due = {} /\ items = Empty /\ partners = Empty /\ outcome = Empty /\ rows = Empty /\ fixes = Empty
    /\ accidents = 0 /\ failures = 0

Pass == \/ Sides \/ Extract \/ Record \/ StoreChunk \/ StoreFixes \/ ReadDone
        \/ Recheck \/ NothingToRecheck \/ PassEnds

Worker == Receive \/ StartBacklog \/ Pass

Next ==
    \/ Worker
    \/ PassFails \/ Restarts \/ SourceWritten \/ LlmFlips \/ AttemptLost \/ Tick

Spec == Init /\ [][Next]_vars

\* The worker keeps running: its loop never waits for anything but the queue, which it polls when there
\* is nothing, and time passes.
FairSpec == Spec /\ WF_vars(Worker) /\ WF_vars(Tick)

-----------------------------------------------------------------------------
(* Properties *)

\* Once the readers' version is marked, every stored reading of a source as it is now is what that
\* version's readers make of it: what code reads, or the model's reading under its corrections.  So a
\* reader fix needs no re-read of everything, however the walk, the passes and restarts interleave.
MarkedMeansChecked ==
    marker = readers =>
        \A f \in Firsts :
            stored[f] # None /\ stored[f].hash = source[f] =>
                LET code == Reads[<<readers, f, source[f]>>]
                IN  IF code # None THEN stored[f].reading.by = code /\ stored[f].method = "VENUE"
                    ELSE stored[f].method = "LLM" => stored[f].reading.by = Corrected[readers]

\* Both sides of a binary are read from what the venue says now, and no re-check is part way through them.
SettledPair(s) == step = "idle" /\ recheckAfter = None /\ IsCurrent(s) /\ IsCurrent(FirstOf[s])

\* The second side of a binary always says the opposite of its first side, if no pass was cut off part way.
SidesAgree ==
    failures = 0 => \A s \in Seconds : SettledPair(s) => stored[s].reading = Negation(stored[FirstOf[s]].reading)

\* What does hold of the two sides: they differ only where one page of the re-check found the first side now
\* read by code, so that it re-read both, and a correction of what the model had said of the second, which it
\* stored over the new reading.
SidesAgreeUnlessCorrected ==
    failures = 0 =>
        \A s \in Seconds : SettledPair(s) =>
            \/ stored[s].reading = Negation(stored[FirstOf[s]].reading)
            \/ /\ stored[s] = [stored[s] EXCEPT !.method = "LLM", !.reading.by = Corrected[readers]]
               /\ stored[FirstOf[s]].method = "VENUE"

\* A security code can read gets its proposition, whether or not its message arrives, behind however
\* many that nothing can read.
Readable(f) == source[f] # 0 /\ Reads[<<readers, f, source[f]>>] # None

ReadableGetsRead == \A f \in Firsts : (Readable(f) /\ ~IsCurrent(f)) ~> (IsCurrent(f) \/ ~Readable(f))
=============================================================================
