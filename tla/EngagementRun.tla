----------------------------- MODULE EngagementRun -----------------------------
(***************************************************************************)
(* One engagement from start to result: investigate_engagement of          *)
(* harness/orchestrator_chain.py with the journal of finished units        *)
(* (run_journal.py) that a killed run is resumed from, and the time slices *)
(* of its phases (phase_schedule.py).                                      *)
(*                                                                         *)
(* An attempt lives in memory and may die between any two steps; what is   *)
(* left is the journal, under the root job's id.  A resumed attempt reads  *)
(* it once, after discovery.  Recrawl and retry rounds, feature crawl,     *)
(* experiments, second-order probes and stop_on_confirm are left out, and  *)
(* the phase:<name> units, which nothing reads back.                       *)
(***************************************************************************)
EXTENDS Integers, Sequences, FiniteSets

CONSTANTS
    Ranking,          \* the worklist: a sequence of nodes, the same in every attempt
    Frontier,         \* captures to review, in order
    Fresh,            \* captures a chain round adds, in order
    Drive,            \* coverage legs, in order
    Plain,            \* nodes whose key names no derived identity
    Contexts,         \* context keys an operator may start or resume with
    Outcomes,         \* findings a unit may end with
    MaxNodes, MaxReviews, MaxChainRounds,
    Every,            \* CHECKPOINT_EVERY_LEGS
    Investigation,    \* investigation_seconds
    ReviewSeconds,    \* capture_review_seconds; 0: none
    Shares,           \* phase_slices, of all of SlicedPhases
    Slow,             \* longest unit of work
    MaxStarts, MaxFaults,    \* bounds of the exploration
    None

Nodes == {Ranking[i] : i \in DOMAIN Ranking}
Captures == {Frontier[i] : i \in DOMAIN Frontier} \union {Fresh[i] : i \in DOMAIN Fresh}
Legs == {Drive[i] : i \in DOMAIN Drive}
Items == Nodes \union Captures

\* The units of the journal, the coverage checkpoint apart.
Units == {<<"discovery">>} \union ({"worklist", "derived"} \X Nodes) \union ({"review"} \X Captures)
Findings == {"none", "candidate", "confirmed", "proved"}    \* proved: it names its proof

Rows == [context : Contexts, intact : BOOLEAN, finding : Findings, attempt : 1..MaxStarts]
Checkpoints == [context : Contexts, intact : BOOLEAN, state : [Items -> Findings],
                legs : SUBSET Legs]

ASSUME EngagementAssumption ==
    /\ Ranking \in Seq(Nodes) /\ Frontier \in Seq(Captures)
    /\ Fresh \in Seq(Captures) /\ Drive \in Seq(Legs)
    /\ Plain \in SUBSET Nodes /\ Outcomes \in SUBSET Findings
    /\ MaxNodes \in Nat /\ MaxReviews \in Nat /\ MaxChainRounds \in Nat
    /\ Every \in Nat \ {0} /\ Slow \in Nat \ {0}
    /\ Investigation \in Nat \ {0} /\ ReviewSeconds \in Nat
    /\ Shares \in [1..4 -> Nat \ {0}]
    /\ MaxStarts \in Nat /\ MaxFaults \in Nat
    /\ None \notin Findings \union Rows \union Checkpoints

VARIABLES
    stage, pos,       \* phase of the attempt, and the element of it that is next
    starts,           \* attempts so far
    context,          \* the attempt's context key
    resuming,
    completed,        \* what it took from the journal
    blind,            \* a read of the journal failed
    now, limit,       \* its clock, and the deadline of the sweep
    reviewLimit,      \* one deadline for the review and every chain round's
    begun,            \* time left when the worklist began
    rounds,           \* chain rounds
    count,            \* nodes investigated or captures reviewed in this pass
    seen,             \* captures taken
    found,            \* EngagementState: the best finding of each endpoint
    legs, dispatched, flying,    \* conclusive cells, dispatches, one under way
    lossy,            \* a checkpoint of this attempt was not written
    journal,          \* durable: [Units -> Row or None]
    checkpoint,       \* durable: the unit coverage:checkpoint
    proofs,           \* durable: units whose proof resolves
    faults            \* journal faults so far

clock == <<now, limit, reviewLimit, begun>>
sweep == <<rounds, count, seen>>
drive == <<legs, dispatched, flying, lossy>>
durable == <<journal, checkpoint, proofs, faults>>
attempt == <<starts, context, resuming, completed, blind>>
engagementVars == <<stage, pos, attempt, clock, sweep, found, drive, durable>>

Stages == {"idle", "discovery", "resume", "worklist", "capture_review", "chain_rounds", "derived",
           "derived_review", "coverage_drive", "done"}
\* The attempt, its clock and what is durable have the types the code gives them.
EngagementTypeOK ==
    /\ stage \in Stages /\ pos \in Nat /\ starts \in 0..MaxStarts
    /\ context \in Contexts \union {None} /\ resuming \in BOOLEAN /\ blind \in BOOLEAN
    /\ completed \in [Units -> Findings \union {None}]
    /\ now \in Nat /\ limit \in Nat /\ reviewLimit \in Nat /\ begun \in 0..Investigation
    /\ rounds \in 0..MaxChainRounds /\ count \in Nat /\ seen \in SUBSET Captures
    /\ found \in [Items -> Findings]
    /\ legs \in SUBSET Legs /\ dispatched \in Nat /\ flying \in BOOLEAN /\ lossy \in BOOLEAN
    /\ journal \in [Units -> Rows \union {None}]
    /\ checkpoint \in Checkpoints \union {None}
    /\ proofs \in SUBSET Units /\ faults \in 0..MaxFaults

Nothing == [i \in Items |-> "none"]

EngagementInit ==
    /\ stage = "idle" /\ pos = 1 /\ starts = 0
    /\ context = None /\ resuming = FALSE /\ blind = FALSE
    /\ completed = [u \in Units |-> None]
    /\ now = 0 /\ limit = 0 /\ reviewLimit = 0 /\ begun = 0
    /\ rounds = 0 /\ count = 0 /\ seen = {}
    /\ found = Nothing
    /\ legs = {} /\ dispatched = 0 /\ flying = FALSE /\ lossy = FALSE
    /\ journal = [u \in Units |-> None] /\ checkpoint = None
    /\ proofs = {} /\ faults = 0

-----------------------------------------------------------------------------
(***************************************************************************)
(* The journal.                                                            *)
(***************************************************************************)

\* RunJournal._read: a damaged or foreign row is a miss.
Readable(row) == row # None /\ row.context = context /\ row.intact

\* has_any: a row under the context key k, intact or not.
HasAny(k) ==
    \/ checkpoint # None /\ checkpoint.context = k
    \/ \E u \in Units : journal[u] # None /\ journal[u].context = k

\* start_investigation: the first attempt of a root, or one that has units to resume.
Admits(k) == starts > 0 => HasAny(k)

\* A write that fails is logged and forgotten.
Fault == faults < MaxFaults /\ faults' = faults + 1

\* RunJournal.put replaces the unit.
Write(u, finding) ==
    journal' = [journal EXCEPT ![u] = [context |-> context, intact |-> TRUE,
                                       finding |-> finding, attempt |-> starts]]

Put(u, finding) ==
    \/ Write(u, finding) /\ UNCHANGED faults
    \/ Fault /\ UNCHANGED journal

PutCheckpoint ==
    \/ /\ checkpoint' = [context |-> context, intact |-> TRUE, state |-> found, legs |-> legs]
       /\ UNCHANGED <<faults, lossy>>
    \/ Fault /\ lossy' = TRUE /\ UNCHANGED checkpoint

\* resume_finding: a confirmation that names a proof is kept while the proof
\* resolves, else it is a candidate again.
Resumed(u) ==
    IF ~(resuming /\ Readable(journal[u])) THEN None
    ELSE IF journal[u].finding = "proved" /\ u \notin proofs THEN "candidate"
    ELSE journal[u].finding

\* EngagementState.add_finding: a confirmation is never overwritten.
Rank == [none |-> 0, candidate |-> 1, confirmed |-> 2, proved |-> 3]
Fold(item, finding) ==
    found' = IF Rank[finding] > Rank[found[item]]
             THEN [found EXCEPT ![item] = finding] ELSE found

-----------------------------------------------------------------------------
(***************************************************************************)
(* Time.  A phase is given its deadline when it begins; a unit of work     *)
(* takes 1 to Slow ticks and is started before the deadline only.          *)
(***************************************************************************)

SharesFrom(i) == LET s[j \in 1..5] == IF j = 5 THEN 0 ELSE Shares[j] + s[j + 1] IN s[i]

Remaining(t) == IF t < Investigation THEN Investigation - t ELSE 0
Earlier(a, b) == IF a < b THEN a ELSE b

\* Phase i of worklist, recrawl, capture_review, chain_rounds: its share of what is left.
Slice(i, t) == t + (Remaining(t) * Shares[i]) \div SharesFrom(i)

\* Mutant of DeadlineFor: every phase may use all that is left.
DeadlineForAll(i, t) == Investigation

\* PhaseSchedule.deadline_for.
DeadlineFor(i, t) == Earlier(Slice(i, t), Investigation)

Work == \E t \in 1..Slow : now' = now + t
OutOfTime(deadline) == now >= deadline

-----------------------------------------------------------------------------
(***************************************************************************)
(* The phases of an attempt.                                               *)
(***************************************************************************)

Start(k) ==
    /\ stage = "idle" /\ starts < MaxStarts
    /\ Admits(k)
    /\ stage' = "discovery" /\ starts' = starts + 1
    /\ context' = k
    /\ \/ resuming' = HasAny(k) /\ UNCHANGED <<blind, faults>>
       \/ Fault /\ blind' = TRUE /\ resuming' = FALSE
    /\ UNCHANGED <<pos, completed, clock, sweep, found, drive, journal, checkpoint, proofs>>

\* The state is restored, or discovered again and journaled.
Discover ==
    /\ stage = "discovery"
    /\ LET stored == resuming /\ Readable(journal[<<"discovery">>])
       IN  \/ stored /\ UNCHANGED <<now, blind, journal, faults>>
           \/ stored /\ Fault /\ blind' = TRUE /\ Work /\ Write(<<"discovery">>, "none")
           \/ ~stored /\ Work /\ Put(<<"discovery">>, "none") /\ UNCHANGED blind
    /\ stage' = "resume"
    /\ UNCHANGED <<pos, starts, context, resuming, completed, limit, reviewLimit, begun,
                   sweep, found, drive, checkpoint, proofs>>

\* The units an earlier attempt finished are read, once; the worklist begins.
TakeUnits ==
    /\ stage = "resume"
    /\ \/ completed' = [u \in Units |-> Resumed(u)] /\ UNCHANGED <<blind, faults>>
       \/ Fault /\ blind' = TRUE /\ UNCHANGED completed
    /\ stage' = "worklist" /\ limit' = DeadlineFor(1, now) /\ begun' = Remaining(now)
    /\ UNCHANGED <<pos, starts, context, resuming, now, reviewLimit, sweep, found, drive,
                   journal, checkpoint, proofs>>

\* node_key: the principal of a capture is part of the key.
Unit(n) == IF stage = "worklist" \/ n \in Plain THEN <<"worklist", n>> ELSE <<"derived", n>>

\* Mutant of Taken: the chain rounds' sweeps are not given the completed units.
TakenByMain(u) == IF stage = "derived" THEN None ELSE completed[u]

Taken(u) == completed[u]

Sweeping == stage \in {"worklist", "derived"} /\ pos <= Len(Ranking)

SkipNode ==
    /\ Sweeping
    /\ \/ count >= MaxNodes
       \/ Taken(Unit(Ranking[pos])) = None /\ OutOfTime(limit)
    /\ pos' = pos + 1
    /\ UNCHANGED <<stage, attempt, clock, sweep, found, drive, durable>>

\* A unit of an earlier attempt uses the budget it used, and no time.
ResumeNode ==
    /\ Sweeping /\ count < MaxNodes
    /\ LET u == Unit(Ranking[pos]) IN Taken(u) # None /\ Fold(Ranking[pos], Taken(u))
    /\ pos' = pos + 1 /\ count' = count + 1
    /\ UNCHANGED <<stage, attempt, clock, rounds, seen, drive, durable>>

\* A finding with its proof: a proof record of this unit.
Proving(u, finding) == proofs' = IF finding = "proved" THEN proofs \union {u} ELSE proofs

\* The legs and the agent's probe; the outcome of a failed probe is not journaled.
InvestigateNode ==
    /\ Sweeping /\ count < MaxNodes
    /\ LET u == Unit(Ranking[pos])
       IN /\ Taken(u) = None /\ ~OutOfTime(limit)
          /\ \E finding \in Outcomes :
                /\ Fold(Ranking[pos], finding) /\ Proving(u, finding)
                /\ Put(u, finding) \/ UNCHANGED <<journal, faults>>
    /\ Work
    /\ pos' = pos + 1 /\ count' = count + 1
    /\ UNCHANGED <<stage, attempt, limit, reviewLimit, begun, rounds, seen, drive, checkpoint>>

EndSweep ==
    /\ stage \in {"worklist", "derived"} /\ pos > Len(Ranking)
    /\ \/ /\ stage = "worklist" /\ stage' = "capture_review"
          /\ reviewLimit' = Earlier(IF ReviewSeconds > 0 THEN now + ReviewSeconds ELSE Investigation,
                                    DeadlineFor(3, now))
       \/ stage = "derived" /\ stage' = "derived_review" /\ UNCHANGED reviewLimit
    /\ pos' = 1 /\ count' = 0
    /\ UNCHANGED <<attempt, now, limit, begun, rounds, seen, found, drive, durable>>

Queue == IF stage = "capture_review" THEN Frontier ELSE Fresh
Reviewing == stage \in {"capture_review", "derived_review"}
Bounded == count >= MaxReviews \/ OutOfTime(reviewLimit)

\* The bounds are checked before a capture is taken.
TakeCapture(c) ==
    /\ Reviewing /\ ~Bounded
    /\ pos <= Len(Queue) /\ c = Queue[pos] /\ c \notin seen
    /\ pos' = pos + 1 /\ count' = count + 1 /\ seen' = seen \union {c}

ResumeCapture(c) ==
    /\ TakeCapture(c)
    /\ Taken(<<"review", c>>) # None /\ Fold(c, Taken(<<"review", c>>))
    /\ UNCHANGED <<stage, attempt, clock, rounds, drive, durable>>

\* A capture whose analysis fails stays seen and is not journaled.
ReviewCapture(c) ==
    /\ TakeCapture(c)
    /\ Taken(<<"review", c>>) = None
    /\ Work
    /\ \/ \E finding \in Outcomes :
             /\ Put(<<"review", c>>, finding)
             /\ Fold(c, finding) /\ Proving(<<"review", c>>, finding)
       \/ UNCHANGED <<journal, faults, found, proofs>>
    /\ UNCHANGED <<stage, attempt, limit, reviewLimit, begun, rounds, drive, checkpoint>>

PassSeenCapture ==
    /\ Reviewing /\ ~Bounded
    /\ pos <= Len(Queue) /\ Queue[pos] \in seen
    /\ pos' = pos + 1
    /\ UNCHANGED <<stage, attempt, clock, sweep, found, drive, durable>>

EndReview ==
    /\ Reviewing
    /\ Bounded \/ pos > Len(Queue)
    /\ stage' = "chain_rounds" /\ pos' = 1 /\ count' = 0
    /\ limit' = IF stage = "capture_review" THEN DeadlineFor(4, now) ELSE limit
    /\ UNCHANGED <<attempt, now, reviewLimit, begun, rounds, seen, found, drive, durable>>

\* A leaked credential grants access: the application is crawled and swept as it.
ChainRound ==
    /\ stage = "chain_rounds" /\ rounds < MaxChainRounds
    /\ ~OutOfTime(limit)
    /\ Work
    /\ stage' = "derived" /\ rounds' = rounds + 1
    /\ UNCHANGED <<pos, attempt, limit, reviewLimit, begun, count, seen, found, drive, durable>>

\* restore_checkpoint: the conclusive cells of a drive over the same findings.
Restored ==
    IF resuming /\ Readable(checkpoint) /\ checkpoint.state = found THEN checkpoint.legs ELSE {}

\* No credential, no time or no round is left: the coverage drive begins.
BeginDrive ==
    /\ stage = "chain_rounds"
    /\ \/ legs' = Restored /\ UNCHANGED <<blind, faults>>
       \/ Fault /\ blind' = TRUE /\ legs' = {}
    /\ stage' = "coverage_drive"
    \* It has a deadline of its own; what the phases kept is not read again.
    /\ now' = 0 /\ limit' = 0 /\ reviewLimit' = 0 /\ begun' = 0
    /\ rounds' = 0 /\ seen' = {}
    /\ UNCHANGED <<pos, starts, context, resuming, completed, count, found,
                   dispatched, flying, lossy, journal, checkpoint, proofs>>

\* Mutant of Due: not for the first Every legs.
DueLate == dispatched > Every /\ dispatched % Every = 0

Due == dispatched > 0 /\ dispatched % Every = 0

\* drive_coverage_legs: the next pending cell is sent, a checkpoint being due first.
Dispatch(i) ==
    /\ stage = "coverage_drive" /\ ~flying
    /\ i >= pos /\ Drive[i] \notin legs
    /\ \A j \in pos..(i - 1) : Drive[j] \in legs
    /\ \/ Due /\ PutCheckpoint
       \/ ~Due /\ UNCHANGED <<checkpoint, faults, lossy>>
    /\ flying' = TRUE /\ dispatched' = dispatched + 1 /\ pos' = i
    /\ UNCHANGED <<stage, attempt, clock, sweep, found, legs, journal, proofs>>

\* A conclusive status, or an error, a block, no result.
LegAnswers ==
    /\ flying
    /\ legs' \in {legs, legs \union {Drive[pos]}}
    /\ flying' = FALSE /\ pos' = pos + 1
    /\ UNCHANGED <<stage, attempt, clock, sweep, found, dispatched, lossy, durable>>

\* The cells, the leg budget or the time are used up.
EndDrive ==
    /\ stage = "coverage_drive" /\ ~flying
    /\ PutCheckpoint
    /\ stage' = "done"
    /\ UNCHANGED <<pos, attempt, clock, sweep, found, legs, dispatched, flying, journal, proofs>>

-----------------------------------------------------------------------------
(***************************************************************************)
(* What befalls it.                                                        *)
(***************************************************************************)

\* Nothing in memory survives the process.
Die ==
    /\ stage \notin {"idle", "done"}
    /\ stage' = "idle" /\ pos' = 1
    /\ context' = None /\ resuming' = FALSE /\ blind' = FALSE
    /\ completed' = [u \in Units |-> None]
    /\ now' = 0 /\ limit' = 0 /\ reviewLimit' = 0 /\ begun' = 0
    /\ rounds' = 0 /\ count' = 0 /\ seen' = {}
    /\ found' = Nothing
    /\ legs' = {} /\ dispatched' = 0 /\ flying' = FALSE /\ lossy' = FALSE
    /\ UNCHANGED <<starts, durable>>

\* A row no longer matches its checksum.
Damage ==
    /\ Fault
    /\ \/ \E u \in Units : /\ journal[u] # None
                           /\ journal' = [journal EXCEPT ![u].intact = FALSE]
                           /\ UNCHANGED <<checkpoint, lossy>>
       \/ /\ checkpoint # None
          /\ checkpoint' = [checkpoint EXCEPT !.intact = FALSE]
          /\ lossy' = TRUE
          /\ UNCHANGED journal
    /\ UNCHANGED <<stage, pos, attempt, clock, sweep, found, legs, dispatched, flying, proofs>>

\* The proof's record or its artifacts are gone (a purge, a wipe).
LoseProof ==
    /\ Fault
    /\ \E u \in proofs : proofs' = proofs \ {u}
    /\ UNCHANGED <<stage, pos, attempt, clock, sweep, found, drive, journal, checkpoint>>

EngagementNext ==
    \/ \E k \in Contexts : Start(k)
    \/ Discover \/ TakeUnits
    \/ SkipNode \/ ResumeNode \/ InvestigateNode \/ EndSweep
    \/ \E c \in Captures : ResumeCapture(c) \/ ReviewCapture(c)
    \/ PassSeenCapture \/ EndReview
    \/ ChainRound \/ BeginDrive
    \/ \E i \in DOMAIN Drive : Dispatch(i)
    \/ LegAnswers \/ EndDrive
    \/ Die \/ Damage \/ LoseProof

EngagementSpec == EngagementInit /\ [][EngagementNext]_engagementVars

-----------------------------------------------------------------------------
\* What an attempt can read of an earlier one it does not do again: no unit
\* with a readable row of an earlier attempt is written by this one, in the main
\* sweep or a chain round's, however often the run was killed in between.
NoFinishedUnitRunsAgain ==
    [][\A u \in Units :
          ~blind' /\ Readable(journal[u]) /\ journal[u].attempt < starts
             => journal'[u] = journal[u] \/ ~journal'[u].intact]_engagementVars

\* No phase starves a later one: when capture review, and then the chain rounds,
\* begin, their share of the time there was when the worklist began is left,
\* but for the overrun of one unit of work in each phase before.
LeftFor(i, overruns) ==
    (Remaining(now) + overruns * (Slow - 1)) * SharesFrom(1) >= begun * SharesFrom(i)

PhasesGetTheirShare ==
    /\ stage = "capture_review" /\ pos = 1 => LeftFor(3, 1)
    /\ stage = "chain_rounds" /\ rounds = 0 => LeftFor(4, 2)

\* A run killed inside a long coverage drive sends again at most Every of the
\* legs it had concluded, while its checkpoints are written and stay intact.
LossBounded ==
    stage = "coverage_drive" /\ ~lossy
        => Cardinality(legs \ (IF Readable(checkpoint) /\ checkpoint.state = found
                               THEN checkpoint.legs ELSE {})) <= Every

\* "A CONFIRMED finding is proof. It is never overwritten or downgraded by a later
\* UNCONFIRMED hypothesis" (engagement.py), said of what a resumed run starts from.
\* A chain round that sweeps a node of the worklist again violates it (README).
ConfirmationsAreKept ==
    [][\A n \in Nodes :
          LET row == journal[<<"worklist", n>>]
          IN row # None /\ row.intact /\ Rank[row.finding] >= 2
                => Rank[journal'[<<"worklist", n>>].finding] >= 2]_engagementVars
=============================================================================
