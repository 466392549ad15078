------------------------- MODULE RetryRoundsProofs -------------------------
(***************************************************************************)
(* What RetryRounds promises for any worklist, captures, budgets and growth. *)
(* That legs are sent once, in the sweeps of round 0 and of the rounds, and  *)
(* that verdicts stand from the first retry round on follows from what the   *)
(* ledger remembers of each node.  That rounds stop for want of work only    *)
(* without any rests on the round's sweep: with time to spare, a node it has *)
(* passed without running anything and without counting it as over budget    *)
(* has nothing left to do.                                                   *)
(***************************************************************************)
EXTENDS RetryRounds, FiniteSetTheorems, WellFoundedInduction, TLAPS

-----------------------------------------------------------------------------
(***************************************************************************)
(* The growth of the budgets                                               *)
(***************************************************************************)

\* A non-empty set of naturals has a least element: the induction that the growth
\* factor, defined by recursion on the round, calls for.
LEMMA LeastElement ==
    ASSUME NEW T, T \subseteq Nat, T # {}
    PROVE  \E x \in T : \A y \in T : x <= y
<1>1. PICK x \in T : \A y \in T : ~(<<y, x>> \in OpToRel(<, Nat))
    BY WFMin, NatLessThanWellFounded, Zenon
<1>2. \A y \in T : ~(y < x)
    BY <1>1 DEF OpToRel
<1> QED BY <1>2

\* One round's growth, and the functions that grow so from 1 for n rounds.
Grown(x) == IF x * Growth < MaxFactor THEN x * Growth ELSE MaxFactor
GrowsTo(g, n) == \A r \in 0..n : g[r] = IF r = 0 THEN 1 ELSE Grown(g[r - 1])

LEMMA GrownType == ASSUME RetryAssumption, NEW x \in Nat \ {0} PROVE Grown(x) \in Nat \ {0}
<1>1. x * Growth \in Nat /\ x * Growth > 0
    BY DEF RetryAssumption
<1> QED BY <1>1 DEF Grown, RetryAssumption

\* What is below the top of a range, and its predecessor.
LEMMA BelowTop ==
    ASSUME NEW m \in Nat, NEW q \in 0..m, q # m
    PROVE  q \in 0..(m - 1) /\ (q # 0 => q - 1 \in 0..(m - 1))
OBVIOUS

\* The recursion has a solution for any number of rounds.
LEMMA GrowthExists ==
    ASSUME RetryAssumption
    PROVE  \A n \in Nat : \E g \in [0..n -> Nat \ {0}] : GrowsTo(g, n)
<1> DEFINE Bad == {n \in Nat : ~\E g \in [0..n -> Nat \ {0}] : GrowsTo(g, n)}
<1> SUFFICES ASSUME Bad # {} PROVE FALSE
    OBVIOUS
<1>1. Bad \subseteq Nat
    OBVIOUS
<1>2. PICK n \in Bad : \A m \in Bad : n <= m
  <2> HIDE DEF Bad
  <2> QED BY <1>1, LeastElement
<1>3. n # 0
  <2>1. GrowsTo([r \in 0..0 |-> 1], 0) /\ [r \in 0..0 |-> 1] \in [0..0 -> Nat \ {0}]
      BY DEF GrowsTo
  <2> QED BY <1>2, <2>1
<1>4. n \in Nat /\ n - 1 \in Nat /\ n - 1 \notin Bad
  <2> HIDE DEF Bad
  <2> QED BY <1>1, <1>2, <1>3
<1>5. PICK g \in [0..(n - 1) -> Nat \ {0}] : GrowsTo(g, n - 1)
    BY <1>4
<1> HIDE DEF Bad
<1> DEFINE h == [r \in 0..n |-> IF r = n THEN Grown(g[n - 1]) ELSE g[r]]
<1>6. h \in [0..n -> Nat \ {0}]
    BY <1>4, GrownType
<1>7. GrowsTo(h, n)
  <2> SUFFICES ASSUME NEW r \in 0..n PROVE h[r] = IF r = 0 THEN 1 ELSE Grown(h[r - 1])
      BY DEF GrowsTo
  <2>1. CASE r = n
    <3>1. n # 0 /\ h[n] = Grown(g[n - 1])
        BY <1>3, <1>4
    <3>2. h[n - 1] = g[n - 1]
        BY <1>4
    <3> HIDE DEF h
    <3> QED BY <2>1, <3>1, <3>2
  <2>2. CASE r # n
    <3>1. r \in 0..(n - 1) /\ (r # 0 => r - 1 \in 0..(n - 1))
        BY <1>4, <2>2, BelowTop
    <3>2. g[r] = IF r = 0 THEN 1 ELSE Grown(g[r - 1])
        BY <1>5, <3>1 DEF GrowsTo
    <3>3. h[r] = g[r]
        BY <2>2
    <3>4. r # 0 => h[r - 1] = g[r - 1]
        BY <1>4, <2>2, <3>1
    <3> HIDE DEF h
    <3> QED BY <3>2, <3>3, <3>4
  <2> QED BY <2>1, <2>2
<1> QED BY <1>2, <1>6, <1>7 DEF Bad

\* The factor of every round is at least 1.
LEMMA FactorType ==
    ASSUME RetryAssumption
    PROVE  \A r \in 0..RoundBound : Factor[r] \in Nat \ {0}
<1>1. PICK g \in [0..RoundBound -> Nat \ {0}] : GrowsTo(g, RoundBound)
    BY GrowthExists DEF RetryAssumption
<1>2. g = [r \in 0..RoundBound |->
             IF r = 0 THEN 1 ELSE IF g[r - 1] * Growth < MaxFactor THEN g[r - 1] * Growth ELSE MaxFactor]
    BY <1>1 DEF GrowsTo, Grown
<1>3. Factor = [r \in 0..RoundBound |->
                  IF r = 0 THEN 1
                  ELSE IF Factor[r - 1] * Growth < MaxFactor THEN Factor[r - 1] * Growth ELSE MaxFactor]
    BY <1>2, Zenon DEF Factor
<1> DEFINE Bad == {r \in 0..RoundBound : Factor[r] \notin Nat \ {0}}
<1> SUFFICES ASSUME Bad # {} PROVE FALSE
    OBVIOUS
<1>4. Bad \subseteq Nat
    BY DEF RetryAssumption
<1>5. PICK r \in Bad : \A q \in Bad : r <= q
  <2> HIDE DEF Bad
  <2> QED BY <1>4, LeastElement
<1>6. Factor[r] = IF r = 0 THEN 1 ELSE Grown(Factor[r - 1])
    BY <1>3 DEF Grown
<1>7. r # 0
  <2>1. r \in 0..RoundBound /\ Factor[r] \notin Nat \ {0}
      BY <1>5
  <2> HIDE DEF Bad
  <2> QED BY <1>6, <2>1
<1>8. r - 1 \in 0..RoundBound /\ r - 1 \notin Bad
  <2>1. r \in 0..RoundBound
      OBVIOUS
  <2> HIDE DEF Bad
  <2> QED BY <1>5, <1>7, <2>1 DEF RetryAssumption
<1>9. Factor[r - 1] \in Nat \ {0}
    BY <1>8
<1> QED BY <1>5, <1>6, <1>7, <1>9, GrownType

-----------------------------------------------------------------------------
(***************************************************************************)
(* The inductive invariant                                                 *)
(***************************************************************************)

\* A sweep has run no more nodes than it has passed, a review no more captures than
\* have been seen.
CountsAreTrue ==
    /\ fresh <= Cardinality(worklist \ todo)
    /\ reviewed <= Cardinality(seen)

\* Outside a sweep none is left unfinished, and only a stopped run has a reason.
OnePhaseAtATime ==
    /\ phase # "sweep" => todo = {}
    /\ phase # "stopped" => stoppedBy = "none"

\* A node whose legs were attempted once is remembered.
AttemptsAreRemembered == \A n \in Nodes : legsSent[n] > 0 => n \in legsDone

\* The retry rounds follow everything else, and only their sweeps and reviews run in them.
RoundsComeLast ==
    /\ round > 0 => pass = "retry"
    /\ phase \in {"sweep", "review"} /\ pass = "retry" => round > 0
    /\ phase \in {"between", "waiting"} => pass = "retry"
    /\ phase \in {"recrawling", "chaining"} => pass # "retry"

\* With time to spare, a node that a round's sweep has passed, running nothing and
\* finding nothing over budget, has nothing left for an agent.
PassedNodesAreSettled ==
    round > 0 /\ ~late /\ fresh = 0 /\ ~exhausted =>
        Hypothesis \intersect (worklist \ todo) \subseteq Settled \union proven

\* A round's review starts with no failed capture left.
ReviewsStartClean == phase = "review" /\ pass = "retry" /\ reviewed = 0 => failed = {}

RetryInv ==
    /\ TypeOK
    /\ CountsAreTrue /\ OnePhaseAtATime /\ RoundsComeLast /\ AttemptsAreRemembered
    /\ PassedNodesAreSettled /\ ReviewsStartClean
    /\ LegsSentOnce /\ NothingLeftToDo

\* Every budget is a number in every round, and not used up before it is begun.
LEMMA ScaledType ==
    ASSUME RetryAssumption, NEW r \in 0..RoundBound, NEW budget \in Nat
    PROVE  /\ budget * Factor[r] \in Nat
           /\ budget > 0 => budget * Factor[r] > 0
<1>1. Factor[r] \in Nat \ {0}
    BY FactorType
<1> QED BY <1>1

\* A node passed is one more.
LEMMA PassedCount ==
    ASSUME RetryAssumption, worklist \subseteq Nodes, todo \subseteq worklist, NEW n \in todo,
           todo' = todo \ {n}, worklist' = worklist
    PROVE  /\ Cardinality(worklist' \ todo') = Cardinality(worklist \ todo) + 1
           /\ Cardinality(worklist' \ todo') \in Nat
           /\ Cardinality(worklist' \ todo') <= Cardinality(Nodes)
           /\ Cardinality(worklist \ todo) \in Nat
<1> DEFINE P == worklist \ todo
           Q == P \union {n}
<1>1. IsFiniteSet(P) /\ IsFiniteSet(Nodes) /\ n \notin P /\ Q \subseteq Nodes /\ worklist' \ todo' = Q
    BY FS_Subset DEF RetryAssumption
<1> HIDE DEF P
<1>2. Cardinality(Q) = Cardinality(P) + 1
    BY <1>1, FS_AddElement
<1> HIDE DEF Q
<1>3. Cardinality(P) \in Nat /\ Cardinality(Q) \in Nat /\ Cardinality(Q) <= Cardinality(Nodes)
    BY <1>1, FS_Subset, FS_CardinalityType
<1> QED BY <1>1, <1>2, <1>3 DEF P

\* The types that a visit of node n may touch, with fresh at most one higher.
LEMMA VisitTypes ==
    ASSUME RetryAssumption, TypeOK, NEW n \in Nodes, Visit(n)
    PROVE  /\ late' \in BOOLEAN /\ cancelled' \in BOOLEAN /\ cooling' \subseteq Breakers
           /\ spent' \subseteq Slices
           /\ outcome' \in [Nodes -> {"none", "open", "settled"}]
           /\ capped' \subseteq Hypothesis /\ legsDone' \subseteq Warranting
           /\ proven' \subseteq Nodes /\ sideProven' \subseteq Nodes
           /\ investigated' \in 0..Scaled(MaxNodes) /\ legsRun' \in 0..Scaled(MaxLegs)
           /\ fresh' \in {fresh, fresh + 1} /\ exhausted' \in BOOLEAN
           /\ progress' \in BOOLEAN /\ legsSent' \in [Nodes -> 0..2]
<1>1. Scaled(MaxNodes) \in Nat /\ Scaled(MaxLegs) \in Nat
    BY ScaledType DEF Scaled, TypeOK, RetryAssumption
<1>2. CASE SkipOverBudget(n)
    BY <1>2 DEF SkipOverBudget, TypeOK, env, ledger, findings, Eligible, LegsDue
<1>3. CASE Resume(n)
    BY <1>1, <1>3 DEF Resume, DoAgent, DoLegs, TypeOK, env, ledger, findings
<1>4. CASE SkipLate(n)
    BY <1>4 DEF SkipLate, TypeOK, env, ledger, findings
<1>5. CASE Probe(n)
  <2>1. PICK leg \in LegResults(n), agent \in AgentResults(n), found \in BOOLEAN :
          /\ RunLegs(n, leg)
          /\ LET skipped == agent = "not_run" /\ leg # "confirmed"
                 confirmed == leg = "confirmed" \/ agent = "confirmed"
                 settles == agent # "raised" /\ (confirmed \/ agent = "verdict")
             IN  /\ IF skipped \/ agent = "raised" THEN UNCHANGED outcome ELSE Recorded(n, leg, agent)
                 /\ capped' = IF agent = "exhausted_steps" /\ round >= StepCapRound
                              THEN capped \union {n} ELSE capped
                 /\ IF confirmed THEN Prove(n, agent = "confirmed") ELSE UNCHANGED findings
                 /\ fresh' = IF skipped THEN fresh ELSE fresh + 1
                 /\ exhausted' = (exhausted \/ (skipped /\ Eligible(n)))
                 /\ progress' = (progress \/ (round > 0 /\ (settles \/ confirmed \/ found)))
          /\ MayTrip(agent \in {"error", "raised"})
      BY <1>5 DEF Probe
  <2>2. outcome' \in [Nodes -> {"none", "open", "settled"}]
      BY <2>1 DEF Recorded, TypeOK
  <2>3. capped' \subseteq Hypothesis
      BY <2>1 DEF AgentResults, DoAgent, Eligible, TypeOK
  <2>4. /\ legsRun' \in 0..Scaled(MaxLegs) /\ legsDone' \subseteq Warranting
        /\ legsSent' \in [Nodes -> 0..2]
    <3>1. leg # "not_run" => DoLegs(n)
        BY <2>1 DEF LegResults
    <3> QED BY <1>1, <2>1, <3>1 DEF RunLegs, DoLegs, LegsDue, TypeOK
  <2>5. proven' \subseteq Nodes /\ sideProven' \subseteq Nodes
      BY <2>1 DEF Prove, findings, TypeOK
  <2>6. exhausted' \in BOOLEAN /\ progress' \in BOOLEAN
      BY <2>1 DEF TypeOK
  <2>7. fresh' \in {fresh, fresh + 1} /\ cooling' \subseteq Breakers
      BY <2>1 DEF MayTrip, Breakers, TypeOK
  <2>8. /\ investigated' \in 0..Scaled(MaxNodes)
        /\ late' \in BOOLEAN /\ cancelled' \in BOOLEAN /\ spent' \subseteq Slices
      BY <1>1, <1>5 DEF Probe, DoAgent, TypeOK
  <2> QED BY <2>2, <2>3, <2>4, <2>5, <2>6, <2>7, <2>8
<1> QED BY <1>2, <1>3, <1>4, <1>5 DEF Visit

\* All captures that any review looks at.
AllCaptures == Captures \union ChainCaptures

LEMMA CapturesFinite == ASSUME RetryAssumption PROVE IsFiniteSet(AllCaptures)
BY FS_Union DEF RetryAssumption, AllCaptures

\* One more capture seen.
LEMMA SeenCount ==
    ASSUME RetryAssumption, NEW S \in SUBSET AllCaptures, NEW c \in AllCaptures \ S
    PROVE  /\ Cardinality(S \union {c}) = Cardinality(S) + 1
           /\ Cardinality(S) \in Nat /\ Cardinality(S \union {c}) <= Cardinality(AllCaptures)
<1> DEFINE Q == S \union {c}
<1>1. IsFiniteSet(S) /\ IsFiniteSet(AllCaptures) /\ Q \subseteq AllCaptures /\ c \notin S
    BY CapturesFinite, FS_Subset
<1>2. Cardinality(Q) = Cardinality(S) + 1
    BY <1>1, FS_AddElement
<1> HIDE DEF Q
<1>3. Cardinality(S) \in Nat /\ Cardinality(Q) <= Cardinality(AllCaptures)
    BY <1>1, FS_Subset, FS_CardinalityType
<1> QED BY <1>1, <1>2, <1>3 DEF Q

\* A sweep starts from nothing, in a round of any number.
LEMMA NewSweepTypes ==
    ASSUME RetryAssumption, NewSweep, round' \in 0..RoundBound
    PROVE  /\ phase' = "sweep" /\ phase' \in Phases
           /\ worklist' \subseteq Nodes /\ todo' = worklist' /\ exhausted' = FALSE
           /\ investigated' \in 0..Scaled(MaxNodes)' /\ legsRun' \in 0..Scaled(MaxLegs)'
           /\ fresh' = 0 /\ fresh' \in 0..Cardinality(Nodes)
           /\ fresh' <= Cardinality(worklist' \ todo')
<1>1. 0 \in 0..Scaled(MaxNodes)' /\ 0 \in 0..Scaled(MaxLegs)'
    BY ScaledType DEF Scaled, RetryAssumption
<1>2. Cardinality(Nodes) \in Nat
    BY FS_CardinalityType DEF RetryAssumption
<1>3. worklist' \ todo' = {} /\ fresh' = 0
    BY DEF NewSweep
<1>4. Cardinality(worklist' \ todo') = 0
    BY <1>3, FS_EmptySet
<1>5. phase' = "sweep" /\ phase' \in Phases
    BY Zenon DEF NewSweep, Phases
<1>6. 0 \in 0..Cardinality(Nodes)
    BY <1>2
<1>7. fresh' <= Cardinality(worklist' \ todo')
    BY <1>3, <1>4
<1>8. /\ worklist' \subseteq Nodes /\ todo' = worklist' /\ exhausted' = FALSE
      /\ investigated' = 0 /\ legsRun' = 0
    BY DEF NewSweep
<1>9. fresh' \in 0..Cardinality(Nodes)
    BY <1>3, <1>6
<1>10. investigated' \in 0..Scaled(MaxNodes)' /\ legsRun' \in 0..Scaled(MaxLegs)'
    BY <1>1, <1>8
<1> QED BY <1>3, <1>5, <1>7, <1>8, <1>9, <1>10, Zenon

\* What has been seen and reviewed are counts.
LEMMA SeenTypes ==
    ASSUME RetryAssumption, TypeOK
    PROVE  /\ Cardinality(AllCaptures) \in Nat /\ Cardinality(seen) \in Nat
           /\ 0 \in 0..Cardinality(AllCaptures) /\ 0 <= Cardinality(seen)
<1>1. IsFiniteSet(AllCaptures) /\ seen \subseteq AllCaptures
    BY CapturesFinite DEF TypeOK, AllCaptures
<1>2. Cardinality(AllCaptures) \in Nat /\ Cardinality(seen) \in Nat
    BY <1>1, FS_CardinalityType, FS_Subset
<1> QED BY <1>2

\* A new round starts from nothing, with larger budgets.
LEMMA StartTypes ==
    ASSUME RetryAssumption, TypeOK, StartRound
    PROVE  (TypeOK /\ CountsAreTrue)'
<1>1. round' \in 0..RoundBound
    BY DEF StartRound, TypeOK, RetryAssumption
<1>2. NewSweep /\ progress' = FALSE /\ reviewed' = 0
    BY DEF StartRound
<1>3. UNCHANGED <<pass, sideRounds, stoppedBy, late, spent, cancelled, cooling, outcome, capped, legsDone,
                  legsSent, proven, sideProven, seen, failed, idle>>
    BY DEF StartRound, env, ledger, findings
<1>4. reviewed' \in 0..Cardinality(AllCaptures) /\ reviewed' <= Cardinality(seen')
    BY <1>2, <1>3, SeenTypes
<1>5. /\ phase' \in Phases /\ worklist' \subseteq Nodes /\ todo' \subseteq worklist'
      /\ exhausted' \in BOOLEAN /\ investigated' \in 0..Scaled(MaxNodes)'
      /\ legsRun' \in 0..Scaled(MaxLegs)' /\ fresh' \in 0..Cardinality(Nodes)
    BY <1>1, <1>2, NewSweepTypes
<1>6. fresh' <= Cardinality(worklist' \ todo')
    BY <1>1, <1>2, NewSweepTypes, Zenon
<1>7. CountsAreTrue'
    BY <1>4, <1>6 DEF CountsAreTrue
<1>8. progress' \in BOOLEAN
    BY <1>2
<1> QED BY <1>1, <1>3, <1>4, <1>5, <1>7, <1>8 DEF TypeOK, AllCaptures

\* So does the sweep of a re-crawl or of a chain round.
LEMMA SideTypes ==
    ASSUME RetryAssumption, TypeOK, CountsAreTrue, Recrawl \/ ChainRound
    PROVE  (TypeOK /\ CountsAreTrue)'
<1>1. /\ NewSweep /\ UNCHANGED round /\ pass' \in Passes
      /\ UNCHANGED <<stoppedBy, late, spent, cancelled, cooling, outcome, capped, legsDone,
                     legsSent, proven, sideProven, seen, failed, reviewed, progress, idle>>
    BY DEF Recrawl, ChainRound, env, ledger, findings, reviewVars, Passes
<1>2. sideRounds' \in 0..(MaxRecrawls + MaxChains)
    BY DEF Recrawl, ChainRound, TypeOK, RetryAssumption
<1>3. round' \in 0..RoundBound
    BY <1>1 DEF TypeOK
<1>4. /\ phase' \in Phases /\ worklist' \subseteq Nodes /\ todo' \subseteq worklist'
      /\ exhausted' \in BOOLEAN /\ investigated' \in 0..Scaled(MaxNodes)'
      /\ legsRun' \in 0..Scaled(MaxLegs)' /\ fresh' \in 0..Cardinality(Nodes)
    BY <1>1, <1>3, NewSweepTypes
<1>5. fresh' <= Cardinality(worklist' \ todo')
    BY <1>1, <1>3, NewSweepTypes, Zenon
<1>6. CountsAreTrue'
    BY <1>1, <1>5 DEF CountsAreTrue
<1> QED BY <1>1, <1>2, <1>3, <1>4, <1>6 DEF TypeOK, AllCaptures

\* The other steps of round 0 change where it stands and what is proven.
LEMMA FirstRoundTypes ==
    ASSUME RetryAssumption, TypeOK, CountsAreTrue, ReviewAll \/ BeginRetries
    PROVE  (TypeOK /\ CountsAreTrue)'
<1>1. /\ phase' \in Phases /\ pass' \in Passes /\ spent' = {} /\ sideRounds' = 0
      /\ proven' \subseteq Nodes
      /\ reviewed' \in {reviewed, 0}
      /\ UNCHANGED <<round, stoppedBy, late, cancelled, cooling, outcome, capped, legsDone, legsSent,
                     sideProven, worklist, todo, investigated, legsRun, fresh, exhausted,
                     seen, failed, progress, idle>>
    BY DEF ReviewAll, BeginRetries, ledger, findings, sweepVars, reviewVars, Phases, Passes, TypeOK
<1>2. reviewed' \in 0..Cardinality(AllCaptures) /\ reviewed' <= Cardinality(seen')
    BY <1>1, SeenTypes DEF TypeOK, CountsAreTrue, AllCaptures
<1>3. sideRounds' \in 0..(MaxRecrawls + MaxChains) /\ spent' \subseteq Slices
    BY <1>1 DEF RetryAssumption
<1>4. UNCHANGED <<Scaled(MaxNodes), Scaled(MaxLegs)>>
    BY <1>1 DEF Scaled
<1> QED BY <1>1, <1>2, <1>3, <1>4 DEF TypeOK, CountsAreTrue, AllCaptures

\* Types and counts are kept by every step.
LEMMA TypeNext ==
    ASSUME RetryAssumption, TypeOK, CountsAreTrue, [Next]_vars
    PROVE  (TypeOK /\ CountsAreTrue)'
<1>1. ASSUME NEW n \in Nodes, Visit(n) PROVE (TypeOK /\ CountsAreTrue)'
  <2>1. /\ n \in todo /\ todo' = todo \ {n}
        /\ UNCHANGED <<phase, pass, round, sideRounds, stoppedBy, worklist, seen, failed, reviewed, idle>>
      BY <1>1 DEF Visit, reviewVars, place
  <2>2. fresh' \in {fresh, fresh + 1}
      BY <1>1, VisitTypes
  <2>3. fresh' \in 0..Cardinality(Nodes) /\ fresh' <= Cardinality(worklist' \ todo')
    <3>1. /\ Cardinality(worklist' \ todo') = Cardinality(worklist \ todo) + 1
          /\ Cardinality(worklist' \ todo') \in Nat
          /\ Cardinality(worklist' \ todo') <= Cardinality(Nodes)
          /\ Cardinality(worklist \ todo) \in Nat
        BY <2>1, PassedCount DEF TypeOK
    <3>2. fresh \in Nat /\ fresh <= Cardinality(worklist \ todo) /\ Cardinality(Nodes) \in Nat
        BY FS_CardinalityType DEF TypeOK, CountsAreTrue, RetryAssumption
    <3> QED BY <2>2, <3>1, <3>2
  <2>4. UNCHANGED <<Scaled(MaxNodes), Scaled(MaxLegs)>>
      BY <2>1 DEF Scaled
  <2>5. TypeOK'
      BY <1>1, <2>1, <2>3, <2>4, VisitTypes DEF TypeOK
  <2> QED BY <2>1, <2>3, <2>5 DEF CountsAreTrue
<1>2. ASSUME EndSweep PROVE (TypeOK /\ CountsAreTrue)'
  <2>1. /\ phase' \in Phases
        /\ seen' \subseteq seen /\ failed' \subseteq seen' /\ reviewed' \in {reviewed, 0}
        /\ UNCHANGED seen \/ reviewed' = 0
        /\ proven' \subseteq Nodes /\ sideProven' \subseteq Nodes
        /\ UNCHANGED <<pass, round, sideRounds, stoppedBy, late, spent, cancelled, cooling,
                       outcome, capped, legsDone, legsSent, worklist, todo, investigated, legsRun,
                       fresh, exhausted, progress, idle>>
    <3>1. UNCHANGED <<pass, round, sideRounds, stoppedBy, env, ledger, sweepVars, progress, idle>>
        BY <1>2 DEF EndSweep
    <3>2. CASE EndSweepOfRoutes
        BY <3>1, <3>2 DEF EndSweepOfRoutes, Merge, TypeOK, Phases, env, ledger, findings, sweepVars, reviewVars
    <3>3. CASE EndSweepToReview
        BY <3>1, <3>3 DEF EndSweepToReview, Reopen, TypeOK, Phases, env, ledger, findings, sweepVars
    <3> QED BY <1>2, <3>2, <3>3 DEF EndSweep
  <2>2. Cardinality(seen') \in Nat
    <3>1. seen' \subseteq AllCaptures
        BY <2>1 DEF TypeOK, AllCaptures
    <3> QED BY <3>1, CapturesFinite, FS_CardinalityType, FS_Subset
  <2>3. reviewed' \in 0..Cardinality(AllCaptures) /\ reviewed' <= Cardinality(seen')
      BY <2>1, <2>2, SeenTypes DEF TypeOK, CountsAreTrue, AllCaptures
  <2>4. UNCHANGED <<Scaled(MaxNodes), Scaled(MaxLegs)>>
      BY <2>1 DEF Scaled
  <2> QED BY <2>1, <2>3, <2>4 DEF TypeOK, CountsAreTrue, AllCaptures
<1>3. ASSUME NEW c \in AllCaptures, Review(c) PROVE (TypeOK /\ CountsAreTrue)'
  <2>1. /\ c \in AllCaptures \ seen /\ seen' = seen \union {c} /\ reviewed' = reviewed + 1
        /\ cooling' \subseteq Breakers /\ progress' \in BOOLEAN /\ failed' \subseteq seen'
        /\ UNCHANGED <<place, late, spent, cancelled, ledger, findings, sweepVars, idle>>
      BY <1>3 DEF Review, MayTrip, TypeOK, Breakers
  <2>2. reviewed' \in 0..Cardinality(AllCaptures) /\ reviewed' <= Cardinality(seen')
    <3>1. /\ Cardinality(seen') = Cardinality(seen) + 1
          /\ Cardinality(seen) \in Nat /\ Cardinality(seen') <= Cardinality(AllCaptures)
        BY <2>1, SeenCount DEF TypeOK, AllCaptures
    <3>2. reviewed \in Nat /\ reviewed <= Cardinality(seen) /\ Cardinality(AllCaptures) \in Nat
        BY SeenTypes DEF TypeOK, CountsAreTrue, AllCaptures
    <3> QED BY <2>1, <3>1, <3>2
  <2>3. seen' \subseteq AllCaptures
      BY <2>1 DEF TypeOK, AllCaptures
  <2> QED BY <2>1, <2>2, <2>3
          DEF TypeOK, CountsAreTrue, Scaled, place, ledger, findings, sweepVars, AllCaptures
<1>4. ASSUME EndReview PROVE (TypeOK /\ CountsAreTrue)'
  <2>1. proven' \subseteq Nodes /\ sideProven' \subseteq Nodes /\ phase' \in Phases
      BY <1>4 DEF EndReview, Merge, findings, TypeOK, Phases
  <2>2. UNCHANGED <<pass, round, sideRounds, stoppedBy, env, ledger, sweepVars, reviewVars, progress, idle>>
      BY <1>4 DEF EndReview
  <2> QED BY <2>1, <2>2
          DEF TypeOK, CountsAreTrue, Scaled, env, ledger, sweepVars, reviewVars
<1>5. ASSUME EndRound PROVE (TypeOK /\ CountsAreTrue)'
  <2>1. idle' \in 0..MaxIdle
      BY <1>5 DEF EndRound, TypeOK, RetryAssumption
  <2>2. phase' \in Phases /\ stoppedBy' \in StopReasons
      BY <1>5 DEF EndRound, TypeOK, Phases, StopReasons
  <2>3. UNCHANGED <<pass, round, sideRounds, env, ledger, findings, sweepVars, reviewVars, progress>>
      BY <1>5 DEF EndRound
  <2> QED BY <2>1, <2>2, <2>3
          DEF TypeOK, CountsAreTrue, Scaled, env, ledger, findings, sweepVars, reviewVars
<1>6. ASSUME Stop \/ Wait \/ (EndWait /\ ~StartRound) PROVE (TypeOK /\ CountsAreTrue)'
  <2>1. /\ phase' \in Phases /\ stoppedBy' \in StopReasons
        /\ UNCHANGED <<pass, round, sideRounds, env, ledger, findings, sweepVars, reviewVars, progress, idle>>
      BY <1>6 DEF Stop, StopNow, Wait, EndWait, TypeOK, Phases, StopReasons
  <2> QED BY <2>1
          DEF TypeOK, CountsAreTrue, Scaled, env, ledger, findings, sweepVars, reviewVars
<1>7. ASSUME Environment PROVE (TypeOK /\ CountsAreTrue)'
  <2>1. /\ late' \in BOOLEAN /\ cancelled' \in BOOLEAN /\ cooling' \subseteq Breakers
        /\ spent' \subseteq Slices
      BY <1>7 DEF Environment, Deadline, SliceEnds, Slice, CancelRun, TripShared, Cool, TypeOK,
                  Breakers, Slices
  <2>2. UNCHANGED <<place, ledger, findings, sweepVars, reviewVars, progress, idle>>
      BY <1>7 DEF Environment
  <2> QED BY <2>1, <2>2 DEF TypeOK, CountsAreTrue, Scaled, place, ledger, findings, sweepVars, reviewVars
<1>8. CASE UNCHANGED vars
    BY <1>8 DEF vars, TypeOK, CountsAreTrue, Scaled, place, env, ledger, findings, sweepVars, reviewVars
<1>9. CASE Loop
  <2>1. \/ StartRound
        \/ Stop \/ Wait \/ (EndWait /\ ~StartRound)
      BY <1>9 DEF Loop, GoRound, EndWait
  <2> QED BY <1>6, <2>1, StartTypes
<1>10. CASE FirstRound
    BY <1>10, SideTypes, FirstRoundTypes DEF FirstRound
<1> QED BY <1>1, <1>2, <1>3, <1>4, <1>5, <1>7, <1>8, <1>9, <1>10
        DEF Next, Sweep, ReviewCaptures, AllCaptures

-----------------------------------------------------------------------------
(***************************************************************************)
(* Verdicts                                                                *)
(***************************************************************************)

\* In a retry round only a probe of an unsettled node changes the ledger's outcomes.
LEMMA VisitKeepsVerdicts ==
    ASSUME RetryAssumption, TypeOK, round > 0, NEW n \in Nodes, Visit(n), NEW m \in Settled
    PROVE  m \in Settled' /\ outcome'[m] = outcome[m]
<1>1. CASE ~Probe(n)
    BY <1>1 DEF Visit, SkipOverBudget, Resume, SkipLate, ledger, Settled
<1>2. CASE Probe(n)
  <2>1. m # n
      BY <1>2 DEF Probe, Resumed
  <2>2. \/ UNCHANGED outcome
        \/ \E x \in {"settled", "open"} : outcome' = [outcome EXCEPT ![n] = x]
      BY <1>2 DEF Probe, Recorded
  <2>3. outcome'[m] = outcome[m]
    <3>1. m \in Nodes /\ outcome \in [Nodes -> {"none", "open", "settled"}]
        BY DEF Settled, TypeOK, RetryAssumption
    <3> QED BY <2>1, <2>2, <3>1
  <2>4. capped \subseteq capped'
      BY <1>2 DEF Probe
  <2> QED BY <2>3, <2>4 DEF Settled
<1> QED BY <1>1, <1>2

\* A verdict stands through every step of the rounds' sweeps, reviews and waits.
LEMMA StepKeepsVerdicts ==
    ASSUME RetryAssumption, TypeOK, [Next]_vars, round > 0, NEW m \in Settled
    PROVE  m \in Settled' /\ outcome'[m] = outcome[m]
<1>1. CASE \E n \in Nodes : Visit(n)
    BY <1>1, VisitKeepsVerdicts
<1>2. CASE ~\E n \in Nodes : Visit(n)
  <2>1. UNCHANGED ledger
      BY <1>2 DEF Next, Sweep, ReviewCaptures, FirstRound, Loop, EndSweep, Review, EndReview, EndRound,
                  Recrawl, ReviewAll, ChainRound, BeginRetries, Stop, GoRound,
                  Wait, EndWait, StartRound, Environment, vars
  <2> QED BY <2>1 DEF ledger, Settled
<1> QED BY <1>1, <1>2

-----------------------------------------------------------------------------
(***************************************************************************)
(* The invariant holds                                                     *)
(***************************************************************************)

\* A run starts with every node still to be visited.
LEMMA InitInv == ASSUME RetryAssumption, Init PROVE RetryInv
<1>1. 0 \in 0..RoundBound /\ 0 \in 0..MaxIdle /\ 0 \in 0..(MaxRecrawls + MaxChains)
    BY DEF RetryAssumption
<1>2. 0 \in 0..Scaled(MaxNodes) /\ 0 \in 0..Scaled(MaxLegs)
    BY <1>1, ScaledType DEF Init, Scaled, RetryAssumption
<1>3. Cardinality(Nodes) \in Nat /\ Cardinality(AllCaptures) \in Nat
    BY CapturesFinite, FS_CardinalityType DEF RetryAssumption
<1>4. Cardinality(seen) = 0 /\ Cardinality(worklist \ todo) = 0
  <2>1. seen = {} /\ worklist \ todo = {}
      BY DEF Init
  <2> QED BY <2>1, FS_EmptySet
<1>5. CountsAreTrue
    BY <1>4 DEF Init, CountsAreTrue
<1>6. TypeOK
  <2>1. /\ phase \in Phases /\ pass \in Passes /\ stoppedBy \in StopReasons
        /\ late \in BOOLEAN /\ cancelled \in BOOLEAN /\ exhausted \in BOOLEAN /\ progress \in BOOLEAN
      BY Zenon DEF Init, Phases, Passes, StopReasons
  <2>2. outcome \in [Nodes -> {"none", "open", "settled"}] /\ legsSent \in [Nodes -> 0..2]
      BY DEF Init
  <2>3. /\ spent \subseteq Slices /\ cooling \subseteq Breakers
        /\ capped \subseteq Hypothesis /\ legsDone \subseteq Warranting
        /\ proven \subseteq Nodes /\ sideProven \subseteq Nodes
        /\ worklist \subseteq Nodes /\ todo \subseteq worklist
        /\ seen \subseteq AllCaptures /\ failed \subseteq seen
      BY DEF Init
  <2>4. /\ round \in 0..RoundBound /\ idle \in 0..MaxIdle /\ sideRounds \in 0..(MaxRecrawls + MaxChains)
        /\ investigated \in 0..Scaled(MaxNodes) /\ legsRun \in 0..Scaled(MaxLegs)
        /\ fresh \in 0..Cardinality(Nodes) /\ reviewed \in 0..Cardinality(AllCaptures)
      BY <1>1, <1>2, <1>3 DEF Init
  <2> QED BY <2>1, <2>2, <2>3, <2>4 DEF TypeOK, AllCaptures
<1>7. OnePhaseAtATime /\ RoundsComeLast /\ ReviewsStartClean /\ NothingLeftToDo
    BY DEF Init, OnePhaseAtATime, RoundsComeLast, ReviewsStartClean, NothingLeftToDo
<1>8. AttemptsAreRemembered /\ LegsSentOnce
    BY DEF Init, AttemptsAreRemembered, LegsSentOnce
<1>9. PassedNodesAreSettled
    BY DEF Init, PassedNodesAreSettled
<1> QED BY <1>5, <1>6, <1>7, <1>8, <1>9 DEF RetryInv

\* A visit sends the legs of a node that is not remembered, and remembers it.
LEMMA VisitRemembersLegs ==
    ASSUME TypeOK, AttemptsAreRemembered, LegsSentOnce, NEW n \in Nodes, Visit(n)
    PROVE  (AttemptsAreRemembered /\ LegsSentOnce)'
<1>1. CASE ~Probe(n)
    BY <1>1 DEF Visit, SkipOverBudget, Resume, SkipLate, ledger, AttemptsAreRemembered, LegsSentOnce
<1>2. CASE Probe(n)
  <2>1. PICK leg \in LegResults(n) : RunLegs(n, leg)
      BY <1>2 DEF Probe
  <2>2. CASE leg \in {"nothing", "confirmed"}
    <3>1. n \notin legsDone
        BY <2>1, <2>2 DEF LegResults, DoLegs, LegsDue
    <3>2. legsSent \in [Nodes -> 0..2] /\ legsSent[n] = 0
        BY <3>1 DEF TypeOK, AttemptsAreRemembered
    <3>3. legsSent' = [legsSent EXCEPT ![n] = @ + 1] /\ legsDone' = legsDone \union {n}
        BY <2>1, <2>2, <3>2 DEF RunLegs
    <3> QED BY <3>2, <3>3 DEF AttemptsAreRemembered, LegsSentOnce
  <2>3. CASE leg \notin {"nothing", "confirmed"}
    <3>1. legsSent' = legsSent /\ legsDone' = legsDone
        BY <2>1, <2>3 DEF RunLegs
    <3> QED BY <3>1 DEF AttemptsAreRemembered, LegsSentOnce
  <2> QED BY <2>2, <2>3
<1> QED BY <1>1, <1>2

\* What a visit in a retry round that runs nothing, with time to spare and no budget in
\* its way, says of its node.
LEMMA VisitPassesSettled ==
    ASSUME RetryAssumption, TypeOK, RoundsComeLast, NEW n \in Nodes, Visit(n), round > 0,
           ~late', fresh' = 0, ~exhausted', n \in Hypothesis
    PROVE  n \in Settled' \union proven'
<1>1. proven \subseteq proven'
    BY DEF Visit, SkipOverBudget, Resume, SkipLate, Probe, Prove, findings
<1>2. fresh \in Nat
    BY FS_CardinalityType DEF TypeOK, RetryAssumption
<1>3. Eligible(n) \/ n \in proven
    BY DEF Eligible, Side, RoundsComeLast
<1>4. CASE SkipOverBudget(n)
    BY <1>1, <1>3, <1>4 DEF SkipOverBudget
<1>5. CASE Resume(n)
  <2>1. n \in Settled
      BY <1>5 DEF Resume, Resumed
  <2> QED BY <2>1, VisitKeepsVerdicts
<1>6. CASE SkipLate(n)
    BY <1>6 DEF SkipLate, OutOfTime, env
<1>7. CASE Probe(n)
  <2>1. fresh' = fresh \/ fresh' = fresh + 1
      BY <1>7 DEF Probe
  <2>2. fresh' # fresh + 1
      BY <1>2
  <2>3. exhausted' = (exhausted \/ Eligible(n))
      BY <1>7, <2>2 DEF Probe
  <2> QED BY <1>1, <1>3, <2>3
<1> QED BY <1>4, <1>5, <1>6, <1>7 DEF Visit

\* The conjuncts of the invariant that are neither types nor counts.
Rest ==
    /\ OnePhaseAtATime /\ RoundsComeLast /\ AttemptsAreRemembered /\ PassedNodesAreSettled
    /\ ReviewsStartClean /\ LegsSentOnce /\ NothingLeftToDo

\* A visit keeps the invariant.
LEMMA VisitInv ==
    ASSUME RetryAssumption, RetryInv, NEW n \in Nodes, Visit(n)
    PROVE  Rest'
<1>1. (AttemptsAreRemembered /\ LegsSentOnce)'
    BY VisitRemembersLegs DEF RetryInv
<1>2. /\ UNCHANGED <<phase, pass, round, stoppedBy, worklist>>
      /\ todo' = todo \ {n} /\ n \in todo /\ phase = "sweep"
    BY DEF Visit, place
<1>3. (OnePhaseAtATime /\ RoundsComeLast /\ ReviewsStartClean /\ NothingLeftToDo)'
    BY <1>2 DEF RetryInv, OnePhaseAtATime, RoundsComeLast, ReviewsStartClean, NothingLeftToDo
<1>4. PassedNodesAreSettled'
  <2> SUFFICES ASSUME round > 0, ~late', fresh' = 0, ~exhausted',
                      NEW h \in Hypothesis \intersect (worklist \ todo')
               PROVE  h \in Settled' \union proven'
      BY <1>2 DEF PassedNodesAreSettled
  <2>1. CASE h = n
      BY <2>1, VisitPassesSettled DEF RetryInv
  <2>2. CASE h # n
    <3>1. ~late /\ ~exhausted
      <4>1. late' = late
          BY DEF Visit, SkipOverBudget, Resume, SkipLate, Probe, env
      <4>2. exhausted => exhausted'
          BY Zenon DEF Visit, SkipOverBudget, Resume, SkipLate, Probe
      <4> QED BY <4>1, <4>2
    <3>2. fresh = 0
      <4>1. fresh' = fresh \/ fresh' = fresh + 1
          BY VisitTypes DEF RetryInv
      <4>2. fresh \in Nat
          BY FS_CardinalityType DEF RetryInv, TypeOK, RetryAssumption
      <4> QED BY <4>1, <4>2
    <3>3. h \in Settled \union proven
        BY <1>2, <2>2, <3>1, <3>2 DEF RetryInv, PassedNodesAreSettled
    <3>4. proven \subseteq proven'
        BY DEF Visit, SkipOverBudget, Resume, SkipLate, Probe, Prove, findings
    <3> QED BY <3>3, <3>4, VisitKeepsVerdicts DEF RetryInv
  <2> QED BY <2>1, <2>2
<1> QED BY <1>1, <1>3, <1>4 DEF Rest

\* A round's review that is over with nothing reviewed, and time to spare, has left no
\* capture of the rounds unreviewed or failed.
LEMMA NothingLeftUnreviewed ==
    ASSUME RetryAssumption, TypeOK, RoundsComeLast, phase = "review", pass = "retry", ReviewsStartClean,
           ReviewsOver, ~late, reviewed = 0, MaxReviews > 0
    PROVE  Captures \subseteq seen \ failed
<1>1. Scaled(MaxReviews) \in Nat /\ Scaled(MaxReviews) > 0
    BY ScaledType DEF Scaled, TypeOK, RetryAssumption
<1>2. ~(reviewed >= Scaled(MaxReviews))
    BY <1>1
<1>3. ~OutOfTime
    BY DEF OutOfTime, RoundsComeLast
<1>4. Captures \subseteq seen /\ failed = {}
    BY <1>2, <1>3 DEF ReviewsOver, ReviewsStartClean, Reviewable
<1> QED BY <1>4

\* The end of a round keeps the invariant: a round that stops for want of work has none.
LEMMA EndRoundInv ==
    ASSUME RetryAssumption, RetryInv, EndRound
    PROVE  Rest'
<1>1. /\ phase = "review" /\ pass = "retry" /\ ReviewsOver /\ phase' \in {"stopped", "between"}
      /\ phase' # "stopped" => stoppedBy' = stoppedBy
      /\ stoppedBy' = "nothing_left" => NothingLeft \/ stoppedBy = "nothing_left"
    BY DEF EndRound
<1>2. UNCHANGED <<pass, round, late, outcome, capped, legsDone, legsSent, proven,
                  worklist, todo, fresh, exhausted, seen, failed, reviewed>>
    BY DEF EndRound, env, ledger, findings, sweepVars, reviewVars
<1>3. todo = {} /\ stoppedBy = "none" /\ round > 0
    BY <1>1 DEF RetryInv, OnePhaseAtATime, RoundsComeLast
<1>4. OnePhaseAtATime' /\ RoundsComeLast' /\ ReviewsStartClean'
    BY <1>1, <1>2, <1>3 DEF OnePhaseAtATime, RoundsComeLast, ReviewsStartClean
<1>5. (AttemptsAreRemembered /\ LegsSentOnce /\ PassedNodesAreSettled)'
    BY <1>2 DEF RetryInv, AttemptsAreRemembered, LegsSentOnce, PassedNodesAreSettled, Settled
<1>6. NothingLeftToDo'
  <2> SUFFICES ASSUME stoppedBy' = "nothing_left", ~late', Growth > 1, MaxNodes > 0, MaxReviews > 0
               PROVE  (/\ Hypothesis \intersect worklist \subseteq Settled \union proven
                       /\ Captures \subseteq seen \ failed)'
      BY DEF NothingLeftToDo
  <2>1. fresh = 0 /\ reviewed = 0 /\ ~exhausted /\ ~late
    <3>1. NothingLeft /\ ~late
        BY <1>1, <1>2, <1>3
    <3> QED BY <3>1 DEF NothingLeft, RetryAssumption
  <2>2. Hypothesis \intersect worklist \subseteq Settled \union proven
      BY <1>3, <2>1 DEF RetryInv, PassedNodesAreSettled
  <2>3. Captures \subseteq seen \ failed
      BY <1>1, <2>1, NothingLeftUnreviewed DEF RetryInv
  <2> QED BY <1>2, <2>2, <2>3 DEF Settled
<1> QED BY <1>4, <1>5, <1>6 DEF Rest

\* A step that leaves the ledger's memory of legs alone keeps what is said of it.
LEMMA LegsKept ==
    ASSUME RetryInv, UNCHANGED <<legsDone, legsSent>>
    PROVE  (AttemptsAreRemembered /\ LegsSentOnce)'
BY DEF RetryInv, AttemptsAreRemembered, LegsSentOnce

\* A step of round 0 keeps the invariant: what it says of rounds does not apply yet.
LEMMA FirstRoundInv ==
    ASSUME RetryAssumption, RetryInv, EndReview \/ FirstRound
    PROVE  Rest'
<1>1. /\ phase \in {"review", "recrawling", "chaining"} /\ pass # "retry"
      /\ UNCHANGED <<round, stoppedBy, ledger>>
      /\ \/ phase' = "sweep" /\ pass' \in {"recrawl", "chain"}
         \/ phase' = "review" /\ pass' = "main" /\ UNCHANGED todo
         \/ phase' = "chaining" /\ UNCHANGED <<pass, todo>>
         \/ phase' = "between" /\ pass' = "retry" /\ UNCHANGED todo
  <2>1. pass # "retry"
      BY DEF EndReview, FirstRound, Recrawl, ReviewAll, ChainRound, BeginRetries, RetryInv, RoundsComeLast
  <2> QED BY <2>1 DEF EndReview, FirstRound, Recrawl, ReviewAll, ChainRound, BeginRetries, NewSweep,
                      sweepVars
<1>2. todo = {} /\ stoppedBy = "none" /\ ~(round > 0)
    BY <1>1 DEF RetryInv, OnePhaseAtATime, RoundsComeLast
<1>3. (OnePhaseAtATime /\ RoundsComeLast /\ PassedNodesAreSettled /\ ReviewsStartClean /\ NothingLeftToDo)'
    BY <1>1, <1>2 DEF OnePhaseAtATime, RoundsComeLast, PassedNodesAreSettled, ReviewsStartClean,
                      NothingLeftToDo
<1>4. UNCHANGED <<legsDone, legsSent>>
    BY <1>1 DEF ledger
<1> QED BY <1>3, <1>4, LegsKept DEF Rest

\* Every step keeps the invariant.
LEMMA NextInv ==
    ASSUME RetryAssumption, RetryInv, [Next]_vars
    PROVE  RetryInv'
<1>1. (TypeOK /\ CountsAreTrue)'
    BY TypeNext DEF RetryInv
<1>2. ASSUME NEW n \in Nodes, Visit(n) PROVE Rest'
    BY <1>2, VisitInv
<1>3. ASSUME EndSweep PROVE Rest'
  <2>1. /\ phase = "sweep" /\ todo = {}
        /\ \/ pass # "retry" /\ phase' \in {"recrawling", "review"}
           \/ pass = "retry" /\ phase' = "review" /\ failed' = {} /\ UNCHANGED proven
        /\ UNCHANGED <<pass, round, stoppedBy, late, outcome, capped, legsDone, legsSent,
                       worklist, todo, fresh, exhausted>>
      BY <1>3 DEF EndSweep, EndSweepOfRoutes, EndSweepToReview, Reopen, env, ledger, findings, sweepVars
  <2>2. stoppedBy = "none" /\ (pass # "retry" => ~(round > 0))
      BY <2>1 DEF RetryInv, OnePhaseAtATime, RoundsComeLast
  <2>3. PassedNodesAreSettled'
      BY <2>1, <2>2 DEF RetryInv, PassedNodesAreSettled, Settled
  <2>4. (OnePhaseAtATime /\ RoundsComeLast /\ ReviewsStartClean /\ NothingLeftToDo)'
      BY <2>1, <2>2 DEF RetryInv, OnePhaseAtATime, RoundsComeLast, ReviewsStartClean, NothingLeftToDo
  <2> QED BY <2>1, <2>3, <2>4, LegsKept DEF Rest
<1>4. ASSUME NEW c \in AllCaptures, Review(c) PROVE Rest'
  <2>1. /\ phase = "review" /\ reviewed' = reviewed + 1
        /\ UNCHANGED <<phase, pass, round, stoppedBy, late, outcome, capped, legsDone, legsSent, proven,
                       worklist, todo, fresh, exhausted>>
      BY <1>4 DEF Review, place, ledger, findings, sweepVars
  <2>2. stoppedBy = "none" /\ todo = {}
      BY <2>1 DEF RetryInv, OnePhaseAtATime
  <2>3. PassedNodesAreSettled'
      BY <2>1 DEF RetryInv, PassedNodesAreSettled, Settled
  <2>4. reviewed' # 0
    <3>1. reviewed \in Nat
        BY SeenTypes DEF RetryInv, TypeOK
    <3> QED BY <2>1, <3>1
  <2>5. (OnePhaseAtATime /\ RoundsComeLast /\ ReviewsStartClean /\ NothingLeftToDo)'
      BY <2>1, <2>2, <2>4 DEF RetryInv, OnePhaseAtATime, RoundsComeLast, ReviewsStartClean, NothingLeftToDo
  <2> QED BY <2>1, <2>3, <2>5, LegsKept DEF Rest
<1>5. ASSUME EndRound PROVE Rest'
    BY <1>5, EndRoundInv
<1>6. ASSUME StartRound, phase \in {"between", "waiting"} PROVE Rest'
  <2>1. /\ phase' = "sweep" /\ todo' = worklist' /\ round' > 0
        /\ UNCHANGED <<pass, stoppedBy, legsDone, legsSent>>
      BY <1>6 DEF StartRound, NewSweep, ledger, RetryInv, TypeOK, RetryAssumption
  <2>2. stoppedBy = "none" /\ pass = "retry"
      BY <1>6 DEF RetryInv, OnePhaseAtATime, RoundsComeLast
  <2>3. (PassedNodesAreSettled /\ OnePhaseAtATime /\ RoundsComeLast /\ ReviewsStartClean /\ NothingLeftToDo)'
      BY <2>1, <2>2 DEF PassedNodesAreSettled, OnePhaseAtATime, RoundsComeLast, ReviewsStartClean,
                        NothingLeftToDo
  <2> QED BY <2>1, <2>3, LegsKept DEF Rest
<1>7. ASSUME Stop \/ Wait \/ (EndWait /\ ~StartRound) PROVE Rest'
  <2>1. /\ phase \in {"between", "waiting"} /\ phase' \in {"between", "waiting", "stopped"}
        /\ UNCHANGED <<pass, round, late, outcome, capped, legsDone, legsSent, proven,
                       worklist, todo, fresh, exhausted>>
        /\ phase' # "stopped" => UNCHANGED stoppedBy
        /\ stoppedBy' = "nothing_left" => stoppedBy = "nothing_left"
      BY <1>7 DEF Stop, StopNow, Wait, EndWait, env, ledger, findings, sweepVars
  <2>2. stoppedBy = "none" /\ todo = {}
      BY <2>1 DEF RetryInv, OnePhaseAtATime
  <2>3. PassedNodesAreSettled'
      BY <2>1 DEF RetryInv, PassedNodesAreSettled, Settled
  <2>4. (OnePhaseAtATime /\ RoundsComeLast /\ ReviewsStartClean /\ NothingLeftToDo)'
      BY <2>1, <2>2 DEF RetryInv, OnePhaseAtATime, RoundsComeLast, ReviewsStartClean, NothingLeftToDo
  <2> QED BY <2>1, <2>3, <2>4, LegsKept DEF Rest
<1>8. ASSUME Environment \/ UNCHANGED vars PROVE Rest'
  <2>1. /\ ~late' => ~late
        /\ UNCHANGED <<phase, pass, round, stoppedBy, outcome, capped, legsDone, legsSent, proven,
                       worklist, todo, fresh, exhausted, seen, failed, reviewed>>
      BY <1>8 DEF Environment, Deadline, SliceEnds, CancelRun, TripShared, Cool, vars, place, env,
                  ledger, findings, sweepVars, reviewVars
  <2>2. (OnePhaseAtATime /\ RoundsComeLast /\ ReviewsStartClean)'
      BY <2>1 DEF RetryInv, OnePhaseAtATime, RoundsComeLast, ReviewsStartClean
  <2>3. (PassedNodesAreSettled /\ NothingLeftToDo)'
      BY <2>1 DEF RetryInv, PassedNodesAreSettled, NothingLeftToDo, Settled
  <2> QED BY <2>1, <2>2, <2>3, LegsKept DEF Rest
<1>9. Rest'
  <2>1. GoRound \/ EndWait => \/ StartRound /\ phase \in {"between", "waiting"}
                              \/ EndWait /\ ~StartRound
      BY DEF GoRound, EndWait
  <2>2. CASE \E n \in Nodes : Visit(n)
      BY <1>2, <2>2
  <2>3. CASE EndSweep
      BY <1>3, <2>3
  <2>4. CASE EndRound \/ \E c \in AllCaptures : Review(c)
      BY <1>4, <1>5, <2>4
  <2>5. CASE Loop
      BY <1>6, <1>7, <2>1, <2>5 DEF Loop
  <2>6. CASE EndReview \/ FirstRound
      BY <2>6, FirstRoundInv
  <2>7. CASE Environment \/ UNCHANGED vars
      BY <1>8, <2>7
  <2> QED BY <2>2, <2>3, <2>4, <2>5, <2>6, <2>7 DEF Next, Sweep, ReviewCaptures, AllCaptures
<1> QED BY <1>1, <1>9 DEF RetryInv, Rest

-----------------------------------------------------------------------------
(***************************************************************************)
(* What holds of every run                                                 *)
(***************************************************************************)

\* The ledger, the rounds' counters and the breakers keep their types, and a round's
\* counters never pass the budgets of that round.
THEOREM RetryTypeOK == Spec => []TypeOK
<1>1. Init => TypeOK /\ CountsAreTrue
    BY RetryAssumption, InitInv DEF RetryInv
<1>2. TypeOK /\ CountsAreTrue /\ [Next]_vars => (TypeOK /\ CountsAreTrue)'
    BY RetryAssumption, TypeNext
<1> QED BY <1>1, <1>2, PTL DEF Spec

\* The inductive invariant holds of every run.
THEOREM RetryInvariance == Spec => []RetryInv
<1>1. Init => RetryInv
    BY RetryAssumption, InitInv
<1>2. RetryInv /\ [Next]_vars => RetryInv'
    BY RetryAssumption, NextInv
<1> QED BY <1>1, <1>2, PTL DEF Spec

\* Shape-driven legs already attempted are not sent again, in any sweep of the run: the
\* main one, a re-crawl's, a chain round's or a retry round's.
THEOREM LegsAreSentOnce == Spec => []LegsSentOnce
<1>1. RetryInv => LegsSentOnce
    BY DEF RetryInv
<1> QED BY <1>1, RetryInvariance, PTL

\* With time to spare the rounds stop for want of work only when every node of the last
\* sweep that has a probe is settled or proven, and every capture of the rounds was
\* reviewed without a failed call.
THEOREM RoundsStopWithNothingLeft == Spec => []NothingLeftToDo
<1>1. RetryInv => NothingLeftToDo
    BY DEF RetryInv
<1> QED BY <1>1, RetryInvariance, PTL

\* From the first retry round on a node settled in the ledger, by whichever sweep, is
\* never recorded again, whatever a later and larger round could find.
THEOREM SettledNodesStand == Spec => VerdictsStand
<1> DEFINE Stand == round > 0 => \A n \in Settled : n \in Settled' /\ outcome'[n] = outcome[n]
<1>1. TypeOK /\ [Next]_vars => [Stand]_vars
    BY RetryAssumption, StepKeepsVerdicts
<1> QED BY <1>1, RetryTypeOK, PTL DEF Spec, VerdictsStand

=============================================================================
