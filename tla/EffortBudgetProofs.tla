-------------------------- MODULE EffortBudgetProofs --------------------------
(***************************************************************************)
(* The accounts of the effort budget, for any number of runs and calls and *)
(* any cap.                                                                *)
(*                                                                         *)
(* The argument: every step that moves an estimate moves reserved and one  *)
(* view's reservation by the same amount, so the clamps never bite         *)
(* (ReservedByInFlight); admission is then a test of what will be held, and *)
(* a settlement under its estimate only moves tokens from reserved to      *)
(* spent or unmeasured.                                                    *)
(***************************************************************************)
EXTENDS EffortBudget, TallyLemmas

\* Reservations alone stay within the cap while nobody overrides it.
ReservedWithinCap == ~MayOverspend => reserved <= Cap

Accounts == TypeOK /\ ReservedByInFlight /\ RunsAddUp
Limits == ReservedWithinCap /\ CapHolds /\ OvershootBounded
IInv == Accounts /\ Limits

\* Every run's calls are finitely many.
LEMMA CallsFinite ==
    ASSUME BudgetAssumption
    PROVE  \A r \in Runs : IsFiniteSet(CallsOf(r)) /\ CallsOf(r) \subseteq Calls
<1>1. IsFiniteSet(Calls) /\ \A r \in Runs : CallsOf(r) \in SUBSET Calls
    BY DEF BudgetAssumption, CallsOf
<1> QED BY <1>1, FS_Subset

LEMMA InitAccounts == ASSUME BudgetAssumption, Init PROVE Accounts
<1>1. TypeOK
  <2>1. 0 \in Tokens
      BY DEF BudgetAssumption, Tokens
  <2> QED BY <2>1 DEF Init, TypeOK
<1>2. ReservedByInFlight
  <2>1. \A c \in Calls : estimate[c] = 0
      BY DEF Init
  <2>2. Tally(estimate, Calls) = 0 /\ \A r \in Runs : Tally(estimate, CallsOf(r)) = 0
      BY <2>1, TallyZero DEF CallsOf
  <2> QED BY <2>1, <2>2 DEF Init, ReservedByInFlight
<1>3. RunsAddUp
  <2>1. (\A r \in Runs : runSpent[r] = 0) /\ \A r \in Runs : runUnmeasured[r] = 0
      BY DEF Init
  <2>2. Tally(runSpent, Runs) = 0 /\ Tally(runUnmeasured, Runs) = 0
      BY <2>1, TallyZero
  <2> QED BY <2>2 DEF Init, RunsAddUp
<1> QED BY <1>1, <1>2, <1>3 DEF Accounts

\* The estimate of one call is part of what the aggregate and its run hold.
LEMMA EstimateIsReserved ==
    ASSUME BudgetAssumption, Accounts, NEW c \in Calls
    PROVE  /\ estimate[c] \in Nat
           /\ estimate[c] <= reserved
           /\ estimate[c] <= runReserved[RunOf[c]]
<1>1. RunOf[c] \in Runs /\ c \in CallsOf(RunOf[c])
    BY DEF BudgetAssumption, CallsOf
<1>2. \A d \in Calls : estimate[d] \in Nat
    BY DEF Accounts, TypeOK, Tokens
<1>3. estimate[c] <= Tally(estimate, Calls)
    BY <1>2, TallyMember DEF BudgetAssumption
<1>4. estimate[c] <= Tally(estimate, CallsOf(RunOf[c]))
    BY <1>1, <1>2, CallsFinite, TallyMember
<1> QED BY <1>1, <1>2, <1>3, <1>4 DEF Accounts, ReservedByInFlight

\* Moving one call's estimate moves both reservations by the difference.
LEMMA EstimateMoves ==
    ASSUME BudgetAssumption, Accounts, NEW c \in Calls,
           NatOn(estimate', Calls), SameBut(estimate, estimate', Calls, c),
           reserved' = reserved - estimate[c] + estimate'[c],
           SameBut(runReserved, runReserved', Runs, RunOf[c]),
           runReserved'[RunOf[c]] = runReserved[RunOf[c]] - estimate[c] + estimate'[c]
    PROVE  /\ reserved' = Tally(estimate', Calls)
           /\ \A r \in Runs : runReserved'[r] = Tally(estimate', CallsOf(r))
<1>1. NatOn(estimate, Calls)
    BY DEF Accounts, TypeOK, Tokens, NatOn
<1>2. Tally(estimate', Calls) = Tally(estimate, Calls) - estimate[c] + estimate'[c]
    BY <1>1, TallyUpdate DEF BudgetAssumption
<1>3. ASSUME NEW r \in Runs PROVE runReserved'[r] = Tally(estimate', CallsOf(r))
  <2>0. runReserved \in [Runs -> Nat] /\ runReserved[r] = Tally(estimate, CallsOf(r))
      BY DEF Accounts, TypeOK, ReservedByInFlight
  <2>1. CASE r = RunOf[c]
    <3>1. c \in CallsOf(r)
        BY <2>1 DEF CallsOf
    <3>2. Tally(estimate', CallsOf(r)) = Tally(estimate, CallsOf(r)) - estimate[c] + estimate'[c]
      <4>1. IsFiniteSet(CallsOf(r)) /\ CallsOf(r) \subseteq Calls
          BY CallsFinite
      <4>2. /\ NatOn(estimate, CallsOf(r)) /\ NatOn(estimate', CallsOf(r))
            /\ SameBut(estimate, estimate', CallsOf(r), c)
          BY <1>1, CallsFinite DEF NatOn, SameBut
      <4> QED BY <3>1, <4>1, <4>2, TallyUpdate
    <3> QED BY <2>0, <2>1, <3>2
  <2>2. CASE r # RunOf[c]
    <3>1. c \in Calls \ CallsOf(r)
        BY <2>2 DEF CallsOf
    <3>2. Tally(estimate', CallsOf(r)) = Tally(estimate, CallsOf(r))
        BY <3>1, TallySame DEF CallsOf, SameBut
    <3>3. runReserved'[r] = runReserved[r]
        BY <2>2 DEF SameBut
    <3> QED BY <2>0, <3>2, <3>3
  <2> QED BY <2>1, <2>2
<1> QED BY <1>2, <1>3 DEF Accounts, ReservedByInFlight

\* Charging n to a run charges it to the sum over the runs.
LEMMA ChargeAddsUp ==
    ASSUME BudgetAssumption, NEW f, NEW g, NatOn(f, Runs), NatOn(g, Runs),
           NEW r \in Runs, NEW n \in Nat, SameBut(f, g, Runs, r), g[r] = f[r] + n
    PROVE  Tally(g, Runs) = Tally(f, Runs) + n
<1>1. Tally(g, Runs) = Tally(f, Runs) - f[r] + g[r]
    BY TallyUpdate DEF BudgetAssumption
<1>2. f[r] \in Nat
    BY DEF NatOn
<1>3. Tally(f, Runs) \in Nat
    BY TallyType DEF BudgetAssumption, NatOn
<1> QED BY <1>1, <1>2, <1>3

-----------------------------------------------------------------------------

\* No step changes the mode or the kind of a call site, or forgets an underestimate.
LEMMA SetupFixed ==
    ASSUME [Next]_vars
    PROVE  /\ metered' = metered /\ hard' = hard /\ Checked' = Checked
           /\ underestimated => underestimated'
<1>1. UNCHANGED setup
    BY DEF Next, vars, setup
<1>2. ASSUME NEW c \in Calls, NEW n \in Tokens,
             Reserve(c, n) \/ Settle(c) \/ Release(c) \/ Check(c) \/ Record(c), underestimated
      PROVE  underestimated'
    BY <1>2 DEF Reserve, Settle, Release, Check, Record
<1>3. ASSUME NEW c \in Calls, Settle(c) \/ Release(c) \/ Check(c) \/ Record(c), underestimated
      PROVE  underestimated'
    BY <1>3 DEF Settle, Release, Check, Record
<1>4. underestimated => underestimated'
    BY <1>2, <1>3 DEF Next, vars, ConfirmOverspend, Expire
<1> QED BY <1>1, <1>4 DEF setup, Checked

LEMMA NextTypeOK == ASSUME BudgetAssumption, Accounts, [Next]_vars PROVE TypeOK'
<1> USE DEF Accounts, TypeOK
<1>0. metered' \subseteq Calls /\ hard' \in BOOLEAN
    BY SetupFixed
<1>1. ASSUME NEW c \in Calls, NEW n \in Tokens, Reserve(c, n) PROVE TypeOK'
    BY <1>0, <1>1 DEF Reserve, BudgetAssumption, Tokens
<1>2. ASSUME NEW c \in Calls, Settle(c) PROVE TypeOK'
  <2>1. PICK known \in Tokens, completed \in BOOLEAN, counted \in BOOLEAN :
            /\ reserved' = Clamp(reserved - estimate[c])
            /\ runReserved' = [runReserved EXCEPT ![RunOf[c]] = Clamp(@ - estimate[c])]
            /\ spent' = spent + known
            /\ runSpent' = [runSpent EXCEPT ![RunOf[c]] = @ + known]
            /\ unmeasured' = unmeasured + Unmeasured(c, known, completed, counted)
            /\ runUnmeasured' = [runUnmeasured EXCEPT
                                    ![RunOf[c]] = @ + Unmeasured(c, known, completed, counted)]
      BY <1>0, <1>2 DEF Settle
  <2>2. Unmeasured(c, known, completed, counted) \in Nat /\ known \in Nat
      BY DEF Unmeasured, Clamp, Tokens
  <2>3. reserved' \in Nat /\ runReserved' \in [Runs -> Nat]
      BY <2>1 DEF Clamp, BudgetAssumption, Tokens
  <2>4. spent' \in Nat /\ unmeasured' \in Nat /\ runSpent' \in [Runs -> Nat] /\ runUnmeasured' \in [Runs -> Nat]
      BY <2>1, <2>2 DEF BudgetAssumption
  <2>5. estimate' \in [Calls -> Tokens]
      BY <1>0, <1>2 DEF Settle, Tokens, BudgetAssumption
  <2> QED BY <1>0, <1>2, <2>3, <2>4, <2>5 DEF Settle
<1>3. ASSUME NEW c \in Calls, Release(c) PROVE TypeOK'
    BY <1>0, <1>3 DEF Release, Clamp, BudgetAssumption, Tokens
<1>4. ASSUME NEW c \in Calls, Check(c) PROVE TypeOK'
    BY <1>0, <1>4 DEF Check, totals, views
<1>5. ASSUME NEW c \in Calls, Record(c) PROVE TypeOK'
    BY <1>0, <1>5 DEF Record, BudgetAssumption, Tokens
<1>6. ASSUME ConfirmOverspend \/ Expire PROVE TypeOK'
    BY <1>0, <1>6 DEF ConfirmOverspend, Expire, totals, views
<1>7. CASE UNCHANGED vars
    BY <1>0, <1>7 DEF vars
<1> QED BY <1>1, <1>2, <1>3, <1>4, <1>5, <1>6, <1>7 DEF Next

\* How a call's end changes its estimate and both reservations: the clamps are
\* subtractions.
LEMMA EndGivesBack ==
    ASSUME BudgetAssumption, Accounts, NEW c \in Calls, c \in metered \intersect inFlight,
           estimate' = [estimate EXCEPT ![c] = 0],
           inFlight' = inFlight \ {c}, metered' = metered,
           reserved' = Clamp(reserved - estimate[c]),
           runReserved' = [runReserved EXCEPT ![RunOf[c]] = Clamp(@ - estimate[c])]
    PROVE  /\ reserved' = reserved - estimate[c]
           /\ ReservedByInFlight'
<1>1. /\ RunOf[c] \in Runs /\ estimate[c] \in Nat
      /\ estimate[c] <= reserved /\ estimate[c] <= runReserved[RunOf[c]]
      /\ reserved \in Nat /\ runReserved[RunOf[c]] \in Nat
    BY EstimateIsReserved DEF BudgetAssumption, Accounts, TypeOK
<1>2. estimate'[c] = 0 /\ NatOn(estimate', Calls) /\ SameBut(estimate, estimate', Calls, c)
    BY DEF Accounts, TypeOK, NatOn, SameBut, Tokens
<1>3. reserved' = reserved - estimate[c]
    BY <1>1 DEF Clamp
<1>4. /\ SameBut(runReserved, runReserved', Runs, RunOf[c])
      /\ runReserved'[RunOf[c]] = runReserved[RunOf[c]] - estimate[c]
    BY <1>1 DEF SameBut, Accounts, TypeOK, Clamp
<1>5. /\ reserved' = reserved - estimate[c] + estimate'[c]
      /\ runReserved'[RunOf[c]] = runReserved[RunOf[c]] - estimate[c] + estimate'[c]
    BY <1>1, <1>2, <1>3, <1>4
<1>6. /\ reserved' = Tally(estimate', Calls)
      /\ \A r \in Runs : runReserved'[r] = Tally(estimate', CallsOf(r))
    BY <1>2, <1>4, <1>5, EstimateMoves, Zenon
<1>7. \A d \in Calls : estimate'[d] > 0 => d \in metered \intersect inFlight'
    BY <1>2 DEF Accounts, ReservedByInFlight, SameBut
<1> QED BY <1>3, <1>6, <1>7 DEF ReservedByInFlight, CallsOf

LEMMA NextReservedByInFlight == ASSUME BudgetAssumption, Accounts, [Next]_vars PROVE ReservedByInFlight'
<1>0. metered' = metered
    BY SetupFixed
<1>1. ASSUME NEW c \in Calls, NEW n \in Tokens, Reserve(c, n) PROVE ReservedByInFlight'
  <2>1. c \in metered \ inFlight /\ estimate[c] = 0 /\ RunOf[c] \in Runs
      BY <1>1 DEF Reserve, Accounts, TypeOK, ReservedByInFlight, BudgetAssumption, Tokens
  <2>2. estimate'[c] = n /\ NatOn(estimate', Calls) /\ SameBut(estimate, estimate', Calls, c)
      BY <1>1 DEF Reserve, Accounts, TypeOK, NatOn, SameBut, Tokens
  <2>3. /\ SameBut(runReserved, runReserved', Runs, RunOf[c])
        /\ reserved' = reserved + n
        /\ runReserved'[RunOf[c]] = runReserved[RunOf[c]] + n
      BY <1>1, <2>1 DEF Reserve, SameBut, Accounts, TypeOK
  <2>4. /\ reserved' = reserved - estimate[c] + estimate'[c]
        /\ runReserved'[RunOf[c]] = runReserved[RunOf[c]] - estimate[c] + estimate'[c]
      BY <2>1, <2>2, <2>3 DEF Accounts, TypeOK, Tokens
  <2>5. /\ reserved' = Tally(estimate', Calls)
        /\ \A r \in Runs : runReserved'[r] = Tally(estimate', CallsOf(r))
      BY <2>2, <2>3, <2>4, EstimateMoves, Zenon
  <2>6. \A d \in Calls : estimate'[d] > 0 => d \in metered \intersect inFlight'
      BY <1>0, <1>1, <2>1, <2>2 DEF Accounts, ReservedByInFlight, SameBut, Reserve
  <2> QED BY <1>0, <2>5, <2>6 DEF ReservedByInFlight, CallsOf
<1>2. ASSUME NEW c \in Calls, Settle(c) \/ Release(c) PROVE ReservedByInFlight'
  <2>1. /\ c \in metered \intersect inFlight
        /\ estimate' = [estimate EXCEPT ![c] = 0]
        /\ inFlight' = inFlight \ {c}
        /\ reserved' = Clamp(reserved - estimate[c])
        /\ runReserved' = [runReserved EXCEPT ![RunOf[c]] = Clamp(@ - estimate[c])]
      BY <1>2 DEF Settle, Release
  <2> QED BY <1>0, <2>1, EndGivesBack
<1>3. ASSUME NEW c \in Calls, Check(c) \/ Record(c) PROVE ReservedByInFlight'
    BY <1>0, <1>3 DEF Check, Record, Checked, totals, views, Accounts, ReservedByInFlight, CallsOf
<1>4. ASSUME ConfirmOverspend \/ Expire \/ UNCHANGED vars PROVE ReservedByInFlight'
    BY <1>0, <1>4 DEF ConfirmOverspend, Expire, vars, totals, views, Accounts, ReservedByInFlight, CallsOf
<1> QED BY <1>1, <1>2, <1>3, <1>4 DEF Next

LEMMA NextRunsAddUp == ASSUME BudgetAssumption, Accounts, [Next]_vars PROVE RunsAddUp'
<1>0. TypeOK'
    BY NextTypeOK
<1>1. CASE UNCHANGED <<spent, unmeasured, runSpent, runUnmeasured>>
    BY <1>1 DEF Accounts, RunsAddUp
<1>2. ASSUME NEW r \in Runs, NEW n \in Nat, NEW m \in Nat,
             spent' = spent + n, runSpent' = [runSpent EXCEPT ![r] = @ + n],
             unmeasured' = unmeasured + m, runUnmeasured' = [runUnmeasured EXCEPT ![r] = @ + m]
      PROVE  RunsAddUp'
  <2>1. /\ NatOn(runSpent, Runs) /\ NatOn(runSpent', Runs)
        /\ SameBut(runSpent, runSpent', Runs, r) /\ runSpent'[r] = runSpent[r] + n
      BY <1>0, <1>2 DEF Accounts, TypeOK, NatOn, SameBut
  <2>2. Tally(runSpent', Runs) = Tally(runSpent, Runs) + n
      BY <2>1, ChargeAddsUp, Zenon
  <2>3. /\ NatOn(runUnmeasured, Runs) /\ NatOn(runUnmeasured', Runs)
        /\ SameBut(runUnmeasured, runUnmeasured', Runs, r)
        /\ runUnmeasured'[r] = runUnmeasured[r] + m
      BY <1>0, <1>2 DEF Accounts, TypeOK, NatOn, SameBut
  <2>4. Tally(runUnmeasured', Runs) = Tally(runUnmeasured, Runs) + m
      BY <2>3, ChargeAddsUp, Zenon
  <2> QED BY <1>2, <2>2, <2>4 DEF RunsAddUp, Accounts
<1>3. ASSUME NEW c \in Calls, Settle(c) PROVE RunsAddUp'
  <2>1. PICK known \in Tokens, completed \in BOOLEAN, counted \in BOOLEAN :
            /\ spent' = spent + known
            /\ runSpent' = [runSpent EXCEPT ![RunOf[c]] = @ + known]
            /\ unmeasured' = unmeasured + Unmeasured(c, known, completed, counted)
            /\ runUnmeasured' = [runUnmeasured EXCEPT
                                    ![RunOf[c]] = @ + Unmeasured(c, known, completed, counted)]
      BY <1>3 DEF Settle
  <2>2. /\ RunOf[c] \in Runs /\ known \in Nat
        /\ Unmeasured(c, known, completed, counted) \in Nat
      BY DEF BudgetAssumption, Unmeasured, Clamp, Tokens, Accounts, TypeOK
  <2> QED BY <1>2, <2>1, <2>2
<1>4. ASSUME NEW c \in Calls, Record(c) PROVE RunsAddUp'
  <2>1. PICK n \in Tokens :
            spent' = spent + n /\ runSpent' = [runSpent EXCEPT ![RunOf[c]] = @ + n]
      BY <1>4 DEF Record
  <2>2. RunOf[c] \in Runs /\ n \in Nat /\ 0 \in Nat
      BY DEF BudgetAssumption, Tokens
  <2>3. /\ unmeasured' = unmeasured + 0
        /\ runUnmeasured' = [runUnmeasured EXCEPT ![RunOf[c]] = @ + 0]
      BY <1>4, <2>2 DEF Record, Accounts, TypeOK
  <2> QED BY <1>2, <2>1, <2>2, <2>3
<1>5. ASSUME NEW c \in Calls, NEW n \in Tokens, Reserve(c, n) \/ Release(c) \/ Check(c) PROVE RunsAddUp'
    BY <1>1, <1>5 DEF Reserve, Release, Check, totals, views
<1>6. ASSUME ConfirmOverspend \/ Expire \/ UNCHANGED vars PROVE RunsAddUp'
    BY <1>1, <1>6 DEF ConfirmOverspend, Expire, vars, totals, views
<1>7. ASSUME NEW c \in Calls, Release(c) \/ Check(c) PROVE RunsAddUp'
    BY <1>1, <1>7 DEF Release, Check, totals, views
<1> QED BY <1>3, <1>4, <1>5, <1>6, <1>7 DEF Next

\* A settlement under its estimate only moves tokens out of the reservation.
LEMMA SettleConserves ==
    ASSUME BudgetAssumption, Accounts, NEW c \in Calls, Settle(c), ~underestimated'
    PROVE  /\ spent' + unmeasured' + reserved' <= spent + unmeasured + reserved
           /\ reserved' <= reserved
<1>1. PICK known \in Tokens, completed \in BOOLEAN, counted \in BOOLEAN :
          /\ underestimated' = (underestimated \/ known > estimate[c])
          /\ reserved' = Clamp(reserved - estimate[c])
          /\ spent' = spent + known
          /\ unmeasured' = unmeasured + Unmeasured(c, known, completed, counted)
    BY DEF Settle
<1>2. estimate[c] \in Nat /\ estimate[c] <= reserved /\ reserved \in Nat /\ spent \in Nat /\ unmeasured \in Nat
    BY EstimateIsReserved DEF Accounts, TypeOK
<1>0. ~(known > estimate[c])
    BY <1>1, Zenon
<1>3. known + Unmeasured(c, known, completed, counted) <= estimate[c]
    BY <1>0, <1>2 DEF Unmeasured, Clamp, Tokens
<1>4. Unmeasured(c, known, completed, counted) \in Nat
    BY <1>1, <1>2 DEF Unmeasured, Clamp, Tokens
<1>5. reserved' = reserved - estimate[c]
    BY <1>1, <1>2 DEF Clamp
<1> HIDE DEF Unmeasured
<1> QED BY <1>1, <1>2, <1>3, <1>4, <1>5 DEF Tokens

LEMMA RoomOf ==
    ASSUME BudgetAssumption
    PROVE  /\ Room(Checked) \in Nat
           /\ Room(Checked \intersect inFlight) \in Nat
           /\ Room(Checked \intersect inFlight) <= Room(Checked)
<1> DEFINE open == Cardinality(Checked \intersect inFlight)
           all == Cardinality(Checked)
<1>1. IsFiniteSet(Checked) /\ Checked \intersect inFlight \in SUBSET Checked
    BY FS_Subset DEF BudgetAssumption, Checked
<1>2. all \in Nat /\ open \in Nat /\ open <= all
    BY <1>1, FS_Subset, FS_CardinalityType
<1>3. MaxTokens \in Nat
    BY DEF BudgetAssumption
<1> HIDE DEF open, all
<1>4. MaxTokens * open \in Nat /\ MaxTokens * all \in Nat /\ MaxTokens * open <= MaxTokens * all
    BY <1>2, <1>3
<1> QED BY <1>4 DEF Room, open, all

\* A checked call that starts takes one call's room, and gives it back at its end.
LEMMA RoomTaken ==
    ASSUME BudgetAssumption, NEW S, IsFiniteSet(S), NEW c, c \notin S
    PROVE  Room(S \union {c}) = Room(S) + MaxTokens
<1>1. Cardinality(S \union {c}) = Cardinality(S) + 1 /\ Cardinality(S) \in Nat
    BY FS_AddElement, FS_CardinalityType
<1>2. \A k \in Nat : MaxTokens * (k + 1) = MaxTokens * k + MaxTokens
    BY DEF BudgetAssumption
<1> QED BY <1>1, <1>2 DEF Room

\* Room for the checked calls not in flight: at least one call's, when there is one.
LEMMA RoomLeft ==
    ASSUME BudgetAssumption, NEW c \in Checked \ inFlight
    PROVE  Room(Checked \intersect inFlight) + MaxTokens <= Room(Checked)
<1> DEFINE T == Checked \intersect inFlight
<1>1. IsFiniteSet(Checked) /\ IsFiniteSet(T) /\ T \union {c} \in SUBSET Checked /\ c \notin T
    BY FS_Subset DEF BudgetAssumption, Checked
<1>2. Cardinality(T \union {c}) <= Cardinality(Checked)
    BY <1>1, FS_Subset
<1>3. Cardinality(T \union {c}) \in Nat /\ Cardinality(Checked) \in Nat /\ MaxTokens \in Nat
    BY <1>1, FS_AddElement, FS_CardinalityType DEF BudgetAssumption
<1>4. Room(T \union {c}) <= Room(Checked)
  <2> DEFINE a == Cardinality(T \union {c})
             b == Cardinality(Checked)
  <2>1. a \in Nat /\ b \in Nat /\ a <= b
      BY <1>2, <1>3
  <2> HIDE DEF a, b
  <2>2. MaxTokens * a <= MaxTokens * b
      BY <1>3, <2>1
  <2> QED BY <2>2 DEF Room, a, b
<1>5. Room(T \union {c}) = Room(T) + MaxTokens
    BY <1>1, RoomTaken
<1> QED BY <1>4, <1>5

\* The arithmetic of the limits: k is the cap, o the room of the open checked
\* calls, a that of all of them.
LEMMA UnderCap ==
    \A s, u, r, k, o, a \in Nat : s + u + r <= k /\ o <= a => s + u + r + o <= 2 * k + a
OBVIOUS

LEMMA NoMore ==
    \A s, u, r, s1, u1, r1, k \in Nat :
        s1 + u1 + r1 <= s + u + r /\ s + u + r <= k => s1 + u1 + r1 <= k
OBVIOUS

LEMMA NoMoreWithRoom ==
    \A s, u, r, s1, u1, r1, o, k \in Nat :
        s1 + u1 + r1 <= s + u + r /\ s + u + r + o <= k => s1 + u1 + r1 + o <= k
OBVIOUS

LEMMA LessReserved ==
    \A s, u, r, r1 \in Nat : r1 <= r => s + u + r1 <= s + u + r
OBVIOUS

LEMMA AtMost == \A r, r1, k \in Nat : r1 <= r /\ r <= k => r1 <= k
OBVIOUS

\* A checked call starts below the cap, and its tokens fit the room it took.
LEMMA StartsBelowCap ==
    \A s, u, r, k, o, a, m \in Nat :
        s + u < k /\ r <= k /\ o + m <= a => s + u + r + (o + m) <= 2 * k + a
OBVIOUS

LEMMA SpendsRoom ==
    \A s, u, r, n, k, o, m \in Nat :
        n <= m /\ s + u + r + (o + m) <= k => (s + n) + u + r + o <= k
OBVIOUS

LEMMA LimitTypes ==
    ASSUME BudgetAssumption, IInv, [Next]_vars
    PROVE  /\ spent \in Nat /\ unmeasured \in Nat /\ reserved \in Nat
           /\ spent' \in Nat /\ unmeasured' \in Nat /\ reserved' \in Nat
           /\ Cap \in Nat /\ MaxTokens \in Nat /\ 2 * Cap + Room(Checked) \in Nat
           /\ Room(Checked) \in Nat /\ Room(Checked \intersect inFlight) \in Nat
           /\ Room(Checked \intersect inFlight) <= Room(Checked)
<1>1. Accounts
    BY DEF IInv
<1>2. /\ spent \in Nat /\ unmeasured \in Nat /\ reserved \in Nat
      /\ spent' \in Nat /\ unmeasured' \in Nat /\ reserved' \in Nat
    BY <1>1, NextTypeOK DEF Accounts, TypeOK
<1>3. /\ Room(Checked) \in Nat /\ Room(Checked \intersect inFlight) \in Nat
      /\ Room(Checked \intersect inFlight) <= Room(Checked)
    BY <1>1, RoomOf DEF Accounts
<1>4. Cap \in Nat /\ MaxTokens \in Nat
    BY DEF BudgetAssumption
<1> QED BY <1>2, <1>3, <1>4

\* A step after which everything held fits under the cap, unless overridden.
LEMMA AdmissionKeepsLimits ==
    ASSUME BudgetAssumption, IInv, [Next]_vars,
           inFlight' \intersect Checked = inFlight \intersect Checked,
           ~MayOverspend' => spent' + unmeasured' + reserved' <= Cap
    PROVE  Limits'
<1>1. Checked' = Checked /\ Checked \intersect inFlight' = Checked \intersect inFlight
    BY SetupFixed
<1>2. CapHolds'
    BY DEF CapHolds
<1>3. ~MayOverspend' => reserved' <= Cap
  <2>1. \A s, u, r, k \in Nat : s + u + r <= k => r <= k
      OBVIOUS
  <2> QED BY <2>1, LimitTypes
<1>4. ~MayOverspend' =>
        spent' + unmeasured' + reserved' + Room(Checked \intersect inFlight) <= 2 * Cap + Room(Checked)
    BY UnderCap, LimitTypes
<1>5. Room(Checked)' = Room(Checked) /\ Room(Checked \intersect inFlight)' = Room(Checked \intersect inFlight)
    BY <1>1 DEF Room
<1> QED BY <1>2, <1>3, <1>4, <1>5 DEF Limits, ReservedWithinCap, OvershootBounded

\* A step that frees or moves reservations keeps every limit.
LEMMA ShrinkingKeepsLimits ==
    ASSUME BudgetAssumption, IInv, [Next]_vars,
           inFlight' \intersect Checked = inFlight \intersect Checked,
           MayOverspend' <=> MayOverspend,
           reserved' <= reserved,
           ~underestimated' => spent' + unmeasured' + reserved' <= spent + unmeasured + reserved
    PROVE  Limits'
<1>1. Checked' = Checked /\ Checked \intersect inFlight' = Checked \intersect inFlight
    BY SetupFixed
<1>2. ~MayOverspend' => reserved' <= Cap
    BY AtMost, LimitTypes DEF IInv, Limits, ReservedWithinCap
<1>3. ~underestimated' /\ Checked = {} /\ ~MayOverspend' => spent' + unmeasured' + reserved' <= Cap
    BY SetupFixed, NoMore, LimitTypes DEF IInv, Limits, CapHolds
<1>4. ~underestimated' /\ ~MayOverspend' =>
        spent' + unmeasured' + reserved' + Room(Checked \intersect inFlight) <= 2 * Cap + Room(Checked)
  <2>1. ~underestimated' /\ ~MayOverspend' =>
          spent + unmeasured + reserved + Room(Checked \intersect inFlight) <= 2 * Cap + Room(Checked)
      BY SetupFixed DEF IInv, Limits, OvershootBounded
  <2> QED BY <2>1, NoMoreWithRoom, LimitTypes
<1>5. Room(Checked)' = Room(Checked) /\ Room(Checked \intersect inFlight)' = Room(Checked \intersect inFlight)
    BY <1>1 DEF Room
<1> QED BY <1>1, <1>2, <1>3, <1>4, <1>5 DEF Limits, ReservedWithinCap, CapHolds, OvershootBounded

LEMMA NextLimits == ASSUME BudgetAssumption, IInv, [Next]_vars PROVE Limits'
<1> DEFINE open == Checked \intersect inFlight
<1>0. /\ Accounts /\ metered' = metered /\ hard' = hard /\ Checked' = Checked
      /\ underestimated => underestimated'
    BY SetupFixed DEF IInv
<1>1. ASSUME NEW c \in Calls, NEW n \in Tokens, Reserve(c, n) PROVE Limits'
  <2>1. inFlight' \intersect Checked = inFlight \intersect Checked
      BY <1>1 DEF Reserve, Checked
  <2>2. ~MayOverspend => spent + unmeasured + (reserved + n) <= Cap
    <3>1. n \in Nat
        BY DEF Tokens, BudgetAssumption
    <3>2. ~MayOverspend => ~(spent + unmeasured + reserved + n > Cap)
        BY <1>1 DEF Reserve, TokenFull
    <3>3. \A s, u, r, k, m \in Nat : ~(s + u + r + m > k) => s + u + (r + m) <= k
        OBVIOUS
    <3> QED BY <3>1, <3>2, <3>3, LimitTypes
  <2>3. (MayOverspend' <=> MayOverspend) /\ spent' = spent /\ unmeasured' = unmeasured /\ reserved' = reserved + n
      BY <1>0, <1>1 DEF Reserve, MayOverspend
  <2>4. ~MayOverspend' => spent' + unmeasured' + reserved' <= Cap
      BY <2>2, <2>3
  <2> QED BY <2>1, <2>4, AdmissionKeepsLimits
<1>2. ASSUME NEW c \in Calls, Check(c) PROVE Limits'
  <2>1. c \in Checked \ inFlight /\ inFlight' = inFlight \union {c}
      BY <1>2 DEF Check
  <2>2. open' = open \union {c} /\ Checked' = Checked /\ c \notin open
      BY <1>0, <2>1 DEF Checked
  <2>3. Room(open) + MaxTokens <= Room(Checked)
      BY <2>1, RoomLeft
  <2>4. Room(open)' = Room(open) + MaxTokens
    <3>1. open \in SUBSET Calls
        BY DEF Checked
    <3>2. IsFiniteSet(open)
        BY <3>1, FS_Subset DEF BudgetAssumption
    <3>3. Room(open \union {c}) = Room(open) + MaxTokens
        BY <2>2, <3>2, RoomTaken
    <3> QED BY <2>2, <3>3 DEF Room
  <2>5. UNCHANGED <<spent, unmeasured, reserved, confirmed, underestimated>> /\ Checked # {}
      BY <1>2, <2>1 DEF Check, totals
  <2>6. (MayOverspend' <=> MayOverspend) /\ (~MayOverspend => ~(spent + unmeasured >= Cap))
      BY <1>0, <1>2, <2>5 DEF Check, Exhausted, MayOverspend
  <2>7. ~MayOverspend => spent + unmeasured < Cap
    <3>1. \A s, u, k \in Nat : ~(s + u >= k) => s + u < k
        OBVIOUS
    <3> QED BY <2>6, <3>1, LimitTypes
  <2>8. ~MayOverspend => spent + unmeasured + reserved + (Room(open) + MaxTokens) <= 2 * Cap + Room(Checked)
      BY <2>3, <2>7, StartsBelowCap, LimitTypes DEF IInv, Limits, ReservedWithinCap
  <2>9. Room(Checked)' = Room(Checked)
      BY <2>2 DEF Room
  <2> QED BY <2>2, <2>4, <2>5, <2>6, <2>8, <2>9
          DEF IInv, Limits, ReservedWithinCap, CapHolds, OvershootBounded
<1>3. ASSUME NEW c \in Calls, Record(c) PROVE Limits'
  <2>1. PICK n \in Tokens : spent' = spent + n
      BY <1>3 DEF Record
  <2>2. c \in open /\ inFlight' = inFlight \ {c} /\ Checked' = Checked
      BY <1>0, <1>3 DEF Record, Checked
  <2>3. Room(open) = Room(open)' + MaxTokens /\ Room(open)' \in Nat
    <3> DEFINE rest == Checked \intersect inFlight'
    <3>1. rest \in SUBSET Calls
        BY DEF Checked
    <3>2. IsFiniteSet(rest) /\ c \notin rest /\ open = rest \union {c} /\ open' = rest
        BY <2>2, <3>1, FS_Subset DEF BudgetAssumption
    <3> HIDE DEF rest, open
    <3>3. Room(rest \union {c}) = Room(rest) + MaxTokens
        BY <3>2, RoomTaken
    <3>4. Room(rest) \in Nat
      <4>1. Cardinality(rest) \in Nat /\ MaxTokens \in Nat
          BY <3>2, FS_CardinalityType DEF BudgetAssumption
      <4> QED BY <4>1 DEF Room
    <3>5. Room(open)' = Room(rest)
        BY <3>2 DEF Room
    <3> QED BY <3>2, <3>3, <3>4, <3>5
  <2>4. UNCHANGED <<unmeasured, reserved, confirmed, underestimated>> /\ Checked # {}
      BY <1>3, <2>2 DEF Record
  <2>5. (MayOverspend' <=> MayOverspend) /\ Room(Checked)' = Room(Checked)
      BY <1>0, <2>2, <2>4 DEF MayOverspend, Room
  <2>6. n \in Nat /\ n <= MaxTokens
      BY DEF Tokens, BudgetAssumption
  <2>7. ~underestimated /\ ~MayOverspend =>
          spent + unmeasured + reserved + (Room(open)' + MaxTokens) <= 2 * Cap + Room(Checked)
      BY <2>3 DEF IInv, Limits, OvershootBounded
  <2>8. ~underestimated /\ ~MayOverspend =>
          (spent + n) + unmeasured + reserved + Room(open)' <= 2 * Cap + Room(Checked)
    <3> HIDE DEF open
    <3> QED BY <2>3, <2>6, <2>7, SpendsRoom, LimitTypes
  <2> QED BY <2>1, <2>2, <2>4, <2>5, <2>8
          DEF IInv, Limits, ReservedWithinCap, CapHolds, OvershootBounded
<1>4. ASSUME NEW c \in Calls, Settle(c) \/ Release(c) PROVE Limits'
  <2>1. inFlight' \intersect Checked = inFlight \intersect Checked
      BY <1>4 DEF Settle, Release, Checked
  <2>2. MayOverspend' <=> MayOverspend
      BY <1>0, <1>4 DEF Settle, Release, MayOverspend
  <2>3. reserved' <= reserved
    <3>1. reserved' = Clamp(reserved - estimate[c])
        BY <1>4 DEF Settle, Release
    <3>2. estimate[c] \in Nat
        BY <1>0, EstimateIsReserved
    <3>3. \A r, n \in Nat : Clamp(r - n) <= r
        BY DEF Clamp
    <3> QED BY <3>1, <3>2, <3>3, LimitTypes
  <2>4. CASE Settle(c)
    <3>1. ~underestimated' => spent' + unmeasured' + reserved' <= spent + unmeasured + reserved
        BY <1>0, <2>4, SettleConserves
    <3> QED BY <2>1, <2>2, <2>3, <3>1, ShrinkingKeepsLimits
  <2>5. CASE Release(c)
    <3>1. spent' = spent /\ unmeasured' = unmeasured
        BY <2>5 DEF Release
    <3>2. spent + unmeasured + reserved' <= spent + unmeasured + reserved
        BY <2>3, LessReserved, LimitTypes
    <3> QED BY <2>1, <2>2, <2>3, <3>1, <3>2, ShrinkingKeepsLimits
  <2> QED BY <1>4, <2>4, <2>5
<1>5. ASSUME ConfirmOverspend PROVE Limits'
  <2>1. MayOverspend' \/ (hard /\ ~MayOverspend /\ ~MayOverspend')
      BY <1>0, <1>5 DEF ConfirmOverspend, MayOverspend, Accounts, TypeOK
  <2>2. UNCHANGED <<spent, unmeasured, reserved, inFlight, underestimated>>
      BY <1>5 DEF ConfirmOverspend, totals
  <2> QED BY <1>0, <2>1, <2>2
          DEF IInv, Limits, ReservedWithinCap, CapHolds, OvershootBounded, Checked, MayOverspend, Room
<1>6. ASSUME Expire \/ UNCHANGED vars PROVE Limits'
  <2>1. UNCHANGED <<spent, unmeasured, reserved, inFlight, confirmed, underestimated>>
      BY <1>6 DEF Expire, totals, vars
  <2> QED BY <1>0, <2>1
          DEF IInv, Limits, ReservedWithinCap, CapHolds, OvershootBounded, Checked, MayOverspend, Room
<1> QED BY <1>1, <1>2, <1>3, <1>4, <1>5, <1>6 DEF Next

-----------------------------------------------------------------------------

LEMMA Invariance == Spec => []IInv
<1>1. Init => IInv
  <2> SUFFICES ASSUME Init PROVE IInv
      OBVIOUS
  <2>1. Accounts
      BY InitAccounts, BudgetAssumption
  <2>2. spent = 0 /\ reserved = 0 /\ unmeasured = 0 /\ Cap \in Nat
      BY BudgetAssumption DEF Init, BudgetAssumption
  <2>3. Room(Checked \intersect inFlight) <= Room(Checked) /\ Room(Checked) \in Nat
        /\ Room(Checked \intersect inFlight) \in Nat
      BY RoomOf, BudgetAssumption
  <2> QED BY <2>1, <2>2, <2>3 DEF IInv, Limits, ReservedWithinCap, CapHolds, OvershootBounded
<1>2. IInv /\ [Next]_vars => IInv'
  <2> SUFFICES ASSUME IInv, [Next]_vars PROVE IInv'
      OBVIOUS
  <2>1. Accounts'
      BY NextTypeOK, NextReservedByInFlight, NextRunsAddUp, BudgetAssumption DEF IInv, Accounts
  <2> QED BY <2>1, NextLimits, BudgetAssumption DEF IInv
<1> QED BY <1>1, <1>2, PTL DEF Spec

\* The ledger's numbers stay natural whatever order the calls end in.
THEOREM BudgetTypeOK == Spec => []TypeOK
BY Invariance, PTL DEF IInv, Accounts

\* reserve / commit / release on the aggregate and on each run's view pair up:
\* what is reserved is what the calls in flight reserved.
THEOREM ReservationsPairUp == Spec => []ReservedByInFlight
BY Invariance, PTL DEF IInv, Accounts

\* The receipts of the run views add up to the operator's aggregate budget.
THEOREM ReceiptsAddUp == Spec => []RunsAddUp
BY Invariance, PTL DEF IInv, Accounts

\* metered calls with truthful estimates never take a hard budget past its cap.
THEOREM HardCap == Spec => []CapHolds
BY Invariance, PTL DEF IInv, Limits

\* Calls that only ask allow() overshoot by at most one cap and one call each.
THEOREM BoundedOvershoot == Spec => []OvershootBounded
BY Invariance, PTL DEF IInv, Limits

=============================================================================
