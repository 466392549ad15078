----------------------------- MODULE RetryRounds -----------------------------
(***************************************************************************)
(* What an engagement does with the time it has left: the worklist sweeps of   *)
(* harness/worklist_investigator.py and the capture reviews of                 *)
(* harness/orchestrator_helpers.py, driven again with growing budgets by       *)
(* harness/retry_rounds.py.  Round 0 is everything before the first retry      *)
(* round: the main sweep, a sweep of the routes of each re-crawl, the review   *)
(* of all captures, and a sweep and a review per chain round, all recording    *)
(* in one ledger.                                                              *)
(*                                                                             *)
(* The worklist is ranked anew for each sweep, and what is merged into the     *)
(* state or recorded by a review gives it other nodes: any set, in any order.  *)
(***************************************************************************)
EXTENDS Integers, FiniteSets

CONSTANTS
    Nodes,          \* keys of live, reachable worklist nodes
    Hypothesis,     \* nodes whose derived probe an agent can run
    Warranting,     \* nodes whose shape warrants deterministic legs
    Captures,       \* _all_captured: what discovery and the re-crawls captured
    ChainCaptures,  \* what the chain rounds captured as the derived identity
    MaxRecrawls, MaxChains,  \* the re-crawl's max_rounds, max_chain_rounds
    MaxNodes, MaxLegs, MaxReviews,  \* the engagement's base budgets
    StepCapRound,   \* first round whose step budget is at max_step_budget
    Growth,
    MaxFactor,      \* _MAX_FACTOR
    MaxRounds,      \* max_rounds, 0 for no limit
    MaxIdle,        \* max_idle_rounds, 0 for never
    RoundBound      \* bound of the model: rounds are told apart up to this one

ASSUME RetryAssumption ==
    /\ IsFiniteSet(Nodes) /\ IsFiniteSet(Captures) /\ IsFiniteSet(ChainCaptures)
    /\ Hypothesis \subseteq Nodes /\ Warranting \subseteq Nodes
    /\ {MaxNodes, MaxLegs, MaxReviews, MaxRounds, MaxIdle, MaxRecrawls, MaxChains} \subseteq Nat
    /\ {Growth, MaxFactor, StepCapRound} \subseteq Nat \ {0}
    /\ RoundBound \in Nat /\ MaxRounds <= RoundBound /\ StepCapRound <= RoundBound

VARIABLES
    phase, round, stoppedBy,
    pass,           \* whose sweep or review it is
    sideRounds,     \* re-crawl rounds begun, then chain rounds begun
    late,           \* stop_at has passed
    spent,          \* time slices of round 0 that have passed
    cancelled,
    cooling,        \* breakers that are open and let no call through yet
    outcome,        \* the ledger's latest outcome of each node, as is_settled tells them apart
    capped,         \* ledger.capped
    legsDone,       \* ledger.legs_done
    proven,         \* nodes whose derived class has a confirmed finding in the state
    sideProven,     \* ... and in the state of the re-crawl or chain round under way
    worklist, todo, investigated, legsRun, fresh, exhausted,  \* the current sweep
    seen, failed,   \* captures reviewed, and those whose model review failed
    reviewed,       \* captures this round reviewed
    progress, idle,
    legsSent        \* history: completed leg attempts on a node, up to 2

sweepVars == <<worklist, todo, investigated, legsRun, fresh, exhausted>>
ledger == <<outcome, capped, legsDone, legsSent>>
findings == <<proven, sideProven>>
reviewVars == <<seen, failed, reviewed>>
env == <<late, spent, cancelled, cooling>>
place == <<phase, pass, round, sideRounds, stoppedBy>>
vars == <<place, env, ledger, findings, sweepVars, reviewVars, progress, idle>>

Breakers == {"run", "shared"}
Passes == {"main", "recrawl", "chain", "retry"}
Slices == {"worklist", "recrawl", "capture_review", "chain_rounds"}
Phases == {"sweep", "recrawling", "review", "chaining", "between", "waiting", "stopped"}
StopReasons == {"none", "cancelled", "max_rounds", "deadline", "nothing_left", "no_progress"}

-----------------------------------------------------------------------------

\* growth ** round, and a budget scaled by it.
Factor[r \in 0..RoundBound] ==
    IF r = 0 THEN 1 ELSE IF Factor[r - 1] * Growth < MaxFactor THEN Factor[r - 1] * Growth ELSE MaxFactor
Scaled(budget) == budget * Factor[round]

\* ledger.settled: what the next sweep resumes instead of probing.
Settled == {n \in Nodes : outcome[n] = "settled"} \union capped

\* Mutant of Resumed: the sweep gets no completed outcomes.
ResumedNever(n) == FALSE

\* The node is in the completed outcomes the sweep was given: only the retry rounds'
\* sweeps are given the ledger's.
Resumed(n) == round > 0 /\ n \in Settled

\* A re-crawl and a chain round investigate a state of their own, merged afterwards.
Side == pass \in {"recrawl", "chain"}
Eligible(n) == n \in Hypothesis \ (IF Side THEN sideProven ELSE proven)
DoAgent(n) == Eligible(n) /\ investigated < Scaled(MaxNodes)

\* Mutant of LegsDue: what an earlier sweep attempted is forgotten.
LegsDueAlways(n) == n \in Warranting

\* The node's legs are warranted and no sweep of this run attempted them.
LegsDue(n) == n \in Warranting \ legsDone
DoLegs(n) == LegsDue(n) /\ legsRun < Scaled(MaxLegs)

\* The slice of the time that the deadline of round 0's sweep or review comes from;
\* the chain rounds' reviews have the review's.
Slice ==
    IF phase = "review" THEN "capture_review"
    ELSE IF pass = "main" THEN "worklist" ELSE IF pass = "recrawl" THEN "recrawl" ELSE "chain_rounds"

\* The deadline of the sweep or the review under way has passed.
OutOfTime == IF round = 0 THEN Slice \in spent ELSE late

\* What a sweep starts from.
NewSweep ==
    /\ phase' = "sweep"
    /\ worklist' \in SUBSET Nodes /\ todo' = worklist'
    /\ investigated' = 0 /\ legsRun' = 0 /\ fresh' = 0
    /\ exhausted' = FALSE

Init ==
    /\ phase = "sweep" /\ pass = "main" /\ round = 0 /\ sideRounds = 0
    /\ stoppedBy = "none"
    /\ late = FALSE /\ spent = {} /\ cancelled = FALSE /\ cooling = {}
    /\ outcome = [n \in Nodes |-> "none"]
    /\ capped = {} /\ legsDone = {} /\ proven = {} /\ sideProven = {}
    /\ worklist \in SUBSET Nodes /\ todo = worklist
    /\ investigated = 0 /\ legsRun = 0 /\ fresh = 0 /\ exhausted = FALSE
    /\ seen = {} /\ failed = {} /\ reviewed = 0
    /\ progress = FALSE /\ idle = 0
    /\ legsSent = [n \in Nodes |-> 0]

-----------------------------------------------------------------------------
(***************************************************************************)
(* investigate_worklist, one node at a time                                *)
(***************************************************************************)

\* Neither budget reaches the node: it is skipped, as budget_exhausted when one of
\* them had something to do.
SkipOverBudget(n) ==
    /\ ~DoAgent(n) /\ ~DoLegs(n)
    /\ exhausted' = (exhausted \/ Eligible(n) \/ LegsDue(n))
    /\ UNCHANGED <<env, ledger, findings, investigated, legsRun, fresh, progress>>

\* A settled node is not run again: it uses the budget it used.
Resume(n) ==
    /\ DoAgent(n) \/ DoLegs(n)
    /\ Resumed(n)
    /\ investigated' = IF DoAgent(n) THEN investigated + 1 ELSE investigated
    /\ legsRun' = IF DoLegs(n) THEN legsRun + 1 ELSE legsRun
    /\ UNCHANGED <<env, ledger, findings, fresh, exhausted, progress>>

\* The deadline passed: skipped as time_budget.
SkipLate(n) ==
    /\ DoAgent(n) \/ DoLegs(n)
    /\ ~Resumed(n) /\ OutOfTime
    /\ UNCHANGED <<env, ledger, findings, investigated, legsRun, fresh, exhausted, progress>>

LegResults(n) == IF DoLegs(n) THEN {"nothing", "confirmed", "raised"} ELSE {"not_run"}
AgentResults(n) ==
    IF DoAgent(n) THEN {"confirmed", "verdict", "exhausted_steps", "error", "raised"} ELSE {"not_run"}

\* A model error may have tripped the breaker the run's calls go through.
MayTrip(failure) ==
    \/ UNCHANGED cooling
    \/ failure /\ cooling' = cooling \union {"run"}

\* ledger.record of the outcome, as is_settled reads it.
Recorded(n, leg, agent) ==
    outcome' = [outcome EXCEPT ![n] =
        IF leg = "confirmed" \/ agent \in {"confirmed", "verdict"} THEN "settled" ELSE "open"]

\* The shape-driven legs: an attempt spends the budget, and is remembered unless
\* it raised.
RunLegs(n, leg) ==
    /\ legsRun' = IF DoLegs(n) THEN legsRun + 1 ELSE legsRun
    /\ legsDone' = IF leg \in {"nothing", "confirmed"} THEN legsDone \union {n} ELSE legsDone
    /\ legsSent' = IF leg \in {"nothing", "confirmed"} /\ legsSent[n] < 2
                   THEN [legsSent EXCEPT ![n] = @ + 1] ELSE legsSent

\* The confirmed findings of node n are ingested; the agent's are of its derived class.
Prove(n, byAgent) ==
    \/ ~byAgent /\ UNCHANGED findings
    \/ IF Side THEN sideProven' = sideProven \union {n} /\ UNCHANGED proven
       ELSE proven' = proven \union {n} /\ UNCHANGED sideProven

\* The node's legs and its agent probe run.  A probe that raises is returned as an
\* outcome but not recorded; a node whose legs found nothing and whose agent is over
\* budget is skipped.
Probe(n) ==
    /\ DoAgent(n) \/ DoLegs(n)
    /\ ~Resumed(n) /\ ~OutOfTime
    /\ \E leg \in LegResults(n), agent \in AgentResults(n), found \in BOOLEAN :
        /\ RunLegs(n, leg)
        /\ investigated' = IF DoAgent(n) THEN investigated + 1 ELSE investigated
        /\ LET skipped == agent = "not_run" /\ leg # "confirmed"
               confirmed == leg = "confirmed" \/ agent = "confirmed"
               settles == agent # "raised" /\ (confirmed \/ agent = "verdict")
           IN  /\ IF skipped \/ agent = "raised" THEN UNCHANGED outcome ELSE Recorded(n, leg, agent)
               /\ capped' = IF agent = "exhausted_steps" /\ round >= StepCapRound
                            THEN capped \union {n} ELSE capped
               /\ IF confirmed THEN Prove(n, agent = "confirmed") ELSE UNCHANGED findings
               /\ fresh' = IF skipped THEN fresh ELSE fresh + 1
               /\ exhausted' = (exhausted \/ (skipped /\ Eligible(n)))
               /\ found => agent \in {"verdict", "exhausted_steps", "error"}
               /\ progress' = (progress \/ (round > 0 /\ (settles \/ confirmed \/ found)))
        /\ MayTrip(agent \in {"error", "raised"})
    /\ UNCHANGED <<late, spent, cancelled>>

Visit(n) ==
    /\ phase = "sweep" /\ n \in todo
    /\ todo' = todo \ {n}
    /\ SkipOverBudget(n) \/ Resume(n) \/ SkipLate(n) \/ Probe(n)
    /\ UNCHANGED <<place, worklist, reviewVars, idle>>

\* merge_from: the side state's findings join the main one's.
Merge == proven' = proven \union sideProven /\ sideProven' = {}

\* Mutant of Reopen: failed reviews are never reopened.
ReopenNone == UNCHANGED <<seen, failed>>

\* reopen_reviews, before a retry round's review: the captures whose model review
\* failed are taken out of the seen ones.
Reopen ==
    IF pass = "retry" THEN seen' = seen \ failed /\ failed' = {} ELSE UNCHANGED <<seen, failed>>

\* A sweep before the chain rounds returns, ...
EndSweepOfRoutes ==
    /\ pass \in {"main", "recrawl"}
    /\ phase' = "recrawling"
    /\ IF pass = "recrawl" THEN Merge ELSE UNCHANGED findings
    /\ UNCHANGED reviewVars

\* ... or one with a review of its own.
EndSweepToReview ==
    /\ pass \in {"chain", "retry"}
    /\ phase' = "review"
    /\ Reopen /\ reviewed' = 0
    /\ UNCHANGED findings

EndSweep ==
    /\ phase = "sweep" /\ todo = {}
    /\ EndSweepOfRoutes \/ EndSweepToReview
    /\ UNCHANGED <<pass, round, sideRounds, stoppedBy, env, ledger, sweepVars, progress, idle>>

\* _recrawl_rounds: routes seen since discovery are pending; they are swept apart, ...
Recrawl ==
    /\ phase = "recrawling" /\ sideRounds < MaxRecrawls
    /\ ~cancelled /\ "recrawl" \notin spent
    /\ sideRounds' = sideRounds + 1 /\ pass' = "recrawl"
    /\ NewSweep
    /\ UNCHANGED <<round, stoppedBy, env, ledger, findings, reviewVars, progress, idle>>

\* ... until none are, or no round, time or leave is left; then all captures are reviewed.
ReviewAll ==
    /\ phase = "recrawling"
    /\ phase' = "review" /\ pass' = "main" /\ reviewed' = 0
    /\ sideRounds' = 0 /\ spent' = {}
    /\ UNCHANGED <<round, stoppedBy, late, cancelled, cooling, ledger, findings, sweepVars, seen, failed,
                   progress, idle>>

\* A finding leaked credentials: what they reach is swept and reviewed as a derived
\* identity.
ChainRound ==
    /\ phase = "chaining" /\ sideRounds < MaxChains /\ "chain_rounds" \notin spent
    /\ sideRounds' = sideRounds + 1 /\ pass' = "chain"
    /\ NewSweep
    /\ UNCHANGED <<round, stoppedBy, env, ledger, findings, reviewVars, progress, idle>>

\* Round 0 is over: chain, coverage and follow-up passes have confirmed what they did.
BeginRetries ==
    /\ phase = "chaining"
    /\ phase' = "between" /\ pass' = "retry"
    /\ sideRounds' = 0 /\ spent' = {}
    /\ proven' \in SUBSET Nodes /\ proven \subseteq proven'
    /\ UNCHANGED <<round, stoppedBy, late, cancelled, cooling, ledger, sideProven,
                   sweepVars, reviewVars, progress, idle>>

-----------------------------------------------------------------------------
(***************************************************************************)
(* review_captured_exchanges and the rest of a round                       *)
(***************************************************************************)

\* What the review looks at: a chain round's captures are in no other review.
Reviewable == IF pass = "chain" THEN ChainCaptures ELSE Captures

\* One capture goes through the analysis pipeline; a failed model call leaves it
\* seen and marked.
Review(c) ==
    /\ phase = "review" /\ ~OutOfTime
    /\ c \in Reviewable \ seen
    /\ reviewed < Scaled(MaxReviews)
    /\ seen' = seen \union {c}
    /\ reviewed' = reviewed + 1
    /\ \E fails, found \in BOOLEAN :
        /\ failed' = IF fails THEN failed \union {c} ELSE failed
        /\ progress' = (progress \/ (round > 0 /\ (~fails \/ found)))
        /\ MayTrip(fails)
    /\ UNCHANGED <<place, late, spent, cancelled, ledger, findings, sweepVars, idle>>

ReviewsOver == OutOfTime \/ Reviewable \subseteq seen \/ reviewed >= Scaled(MaxReviews)

\* The round ran nothing and no larger budget would.
NothingLeft == fresh = 0 /\ reviewed = 0 /\ (~exhausted \/ Growth <= 1)

\* The end of a review of round 0; a chain round's state is merged.
EndReview ==
    /\ phase = "review" /\ ReviewsOver /\ pass # "retry"
    /\ phase' = "chaining"
    /\ IF pass = "chain" THEN Merge ELSE UNCHANGED findings
    /\ UNCHANGED <<pass, round, sideRounds, stoppedBy, env, ledger, sweepVars, reviewVars,
                   progress, idle>>

\* The end of a retry round: stop for want of work or of progress, or go round again.
EndRound ==
    /\ phase = "review" /\ ReviewsOver /\ pass = "retry"
    /\ idle' = IF progress THEN 0 ELSE IF idle < MaxIdle THEN idle + 1 ELSE idle
    /\ IF NothingLeft
       THEN phase' = "stopped" /\ stoppedBy' = "nothing_left"
       ELSE IF MaxIdle > 0 /\ idle' >= MaxIdle
       THEN phase' = "stopped" /\ stoppedBy' = "no_progress"
       ELSE phase' = "between" /\ UNCHANGED stoppedBy
    /\ UNCHANGED <<pass, round, sideRounds, env, ledger, findings, sweepVars, reviewVars, progress>>

-----------------------------------------------------------------------------
(***************************************************************************)
(* The loop of run_retry_rounds                                            *)
(***************************************************************************)

\* Mutant of StopNow: the deadline is left to the sweeps.
StopNowWithoutDeadline ==
    IF cancelled THEN "cancelled"
    ELSE IF MaxRounds > 0 /\ round >= MaxRounds THEN "max_rounds" ELSE "none"

\* The checks before each round, in their order.
StopNow ==
    IF cancelled THEN "cancelled"
    ELSE IF MaxRounds > 0 /\ round >= MaxRounds THEN "max_rounds"
    ELSE IF late THEN "deadline" ELSE "none"

Stop ==
    /\ phase = "between" /\ StopNow # "none"
    /\ phase' = "stopped" /\ stoppedBy' = StopNow
    /\ UNCHANGED <<pass, round, sideRounds, env, ledger, findings, sweepVars, reviewVars,
                   progress, idle>>

StartRound ==
    /\ round' = IF round < RoundBound THEN round + 1 ELSE round
    /\ NewSweep
    /\ progress' = FALSE
    /\ reviewed' = 0
    /\ UNCHANGED <<pass, sideRounds, stoppedBy, env, ledger, findings, seen, failed, idle>>

\* _breaker_retry_after reads the process-wide breaker.
RetryAfterIsPositive == "shared" \in cooling

\* The next round starts at once ...
GoRound ==
    /\ phase = "between" /\ StopNow = "none"
    /\ ~RetryAfterIsPositive
    /\ StartRound

\* ... or waits for the breaker first, at most breaker_wait_seconds, ...
Wait ==
    /\ phase = "between" /\ StopNow = "none"
    /\ RetryAfterIsPositive
    /\ phase' = "waiting"
    /\ UNCHANGED <<pass, round, sideRounds, stoppedBy, env, ledger, findings, sweepVars, reviewVars,
                   progress, idle>>

\* ... and starts then, unless it was cancelled or ran out of time meanwhile.
EndWait ==
    /\ phase = "waiting"
    /\ IF cancelled \/ late
       THEN /\ phase' = "between"
            /\ UNCHANGED <<pass, round, sideRounds, stoppedBy, env, ledger, findings, sweepVars,
                           reviewVars, progress, idle>>
       ELSE StartRound

\* Time, the operator, other users of the shared breaker.  What the code looks at in a
\* few places only, changes there: a change before is one the code has not seen yet.
Deadline ==
    ~late /\ pass = "retry" /\ phase # "stopped" /\ late' = TRUE /\ UNCHANGED <<spent, cancelled, cooling>>
SliceEnds ==
    /\ round = 0 /\ phase \in {"sweep", "review"} /\ Slice \notin spent
    /\ spent' = spent \union {Slice} /\ UNCHANGED <<late, cancelled, cooling>>
CancelRun ==
    /\ ~cancelled /\ phase \in {"recrawling", "between", "waiting"}
    /\ cancelled' = TRUE /\ UNCHANGED <<late, spent, cooling>>
TripShared ==
    /\ "shared" \notin cooling /\ phase \in {"between", "waiting"}
    /\ cooling' = cooling \union {"shared"} /\ UNCHANGED <<late, spent, cancelled>>
Cool(b) ==
    /\ b \in cooling /\ phase \in {"between", "waiting"}
    /\ cooling' = cooling \ {b} /\ UNCHANGED <<late, spent, cancelled>>

Environment ==
    /\ Deadline \/ SliceEnds \/ CancelRun \/ TripShared \/ \E b \in Breakers : Cool(b)
    /\ UNCHANGED <<place, ledger, findings, sweepVars, reviewVars, progress, idle>>

Sweep == EndSweep \/ \E n \in Nodes : Visit(n)
ReviewCaptures == EndReview \/ EndRound \/ \E c \in Captures \union ChainCaptures : Review(c)
FirstRound == Recrawl \/ ReviewAll \/ ChainRound \/ BeginRetries
Loop == Stop \/ GoRound \/ Wait \/ EndWait

Next == Sweep \/ ReviewCaptures \/ FirstRound \/ Loop \/ Environment

\* Every model call has a timeout and every wait a bound; the deadline passes.
Fairness ==
    /\ WF_vars(Sweep) /\ WF_vars(ReviewCaptures) /\ WF_vars(FirstRound) /\ WF_vars(Loop)
    /\ WF_vars(Deadline /\ UNCHANGED <<place, ledger, findings, sweepVars, reviewVars, progress, idle>>)

Spec == Init /\ [][Next]_vars
FairSpec == Spec /\ Fairness

-----------------------------------------------------------------------------
(***************************************************************************)
(* Properties                                                              *)
(***************************************************************************)

\* The ledger, the rounds' counters and the breakers have the types the code gives them.
TypeOK ==
    /\ phase \in Phases /\ pass \in Passes /\ round \in 0..RoundBound /\ stoppedBy \in StopReasons
    /\ sideRounds \in 0..(MaxRecrawls + MaxChains)
    /\ late \in BOOLEAN /\ spent \subseteq Slices /\ cancelled \in BOOLEAN /\ cooling \subseteq Breakers
    /\ outcome \in [Nodes -> {"none", "open", "settled"}]
    /\ capped \subseteq Hypothesis /\ legsDone \subseteq Warranting
    /\ proven \subseteq Nodes /\ sideProven \subseteq Nodes
    /\ worklist \subseteq Nodes /\ todo \subseteq worklist
    /\ investigated \in 0..Scaled(MaxNodes) /\ legsRun \in 0..Scaled(MaxLegs)
    /\ fresh \in 0..Cardinality(Nodes) /\ exhausted \in BOOLEAN
    /\ seen \subseteq Captures \union ChainCaptures /\ failed \subseteq seen
    /\ reviewed \in 0..Cardinality(Captures \union ChainCaptures)
    /\ progress \in BOOLEAN /\ idle \in 0..MaxIdle
    /\ legsSent \in [Nodes -> 0..2]

\* From the first retry round on a verdict stands, whichever sweep it comes from: a node
\* settled in the ledger is never recorded again, whatever a larger round could find.
VerdictsStand ==
    [][round > 0 => \A n \in Settled : n \in Settled' /\ outcome'[n] = outcome[n]]_vars

\* "Shape-driven legs already attempted are not sent again": at most one completed
\* attempt of a node's legs in all the sweeps of the run, the re-crawls' and the chain
\* rounds' included.
LegsSentOnce == \A n \in Nodes : legsSent[n] <= 1

\* With time to spare, the rounds only stop for want of work when the last sweep's
\* worklist has none an agent could still do and every capture the rounds review has
\* been reviewed by the model, whatever the sweeps and reviews of round 0 left.
NothingLeftToDo ==
    (stoppedBy = "nothing_left" /\ ~late /\ Growth > 1 /\ MaxNodes > 0 /\ MaxReviews > 0) =>
        /\ Hypothesis \intersect worklist \subseteq Settled \union proven
        /\ Captures \subseteq seen \ failed

\* The rounds end.
RoundsEnd == <>(phase = "stopped")

\* "If the Ollama circuit breaker is open before a round, the round first waits for it".
WaitsForBreaker == [][phase = "between" /\ phase' = "sweep" => "run" \notin cooling]_vars

\* "Any other verdict is final for the run": in the sweeps of round 0 too.
VerdictsAreFinal == [][\A n \in Settled : n \in Settled']_vars

\* A retry round "reviews again each capture whose model review failed": it is reviewed
\* again or the rounds end for another reason than want of work.
FailedReviewsAreRetried ==
    \A c \in Captures \union ChainCaptures :
        c \in failed ~> \/ c \in seen \ failed
                       \/ late \/ stoppedBy \notin {"none", "nothing_left"}

=============================================================================
