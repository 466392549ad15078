--------------------------- MODULE WorkQueueProofs ---------------------------
(***************************************************************************)
(* What holds of the work queue for every set of items, workers and        *)
(* engagements, any dependency graph and any cap.                          *)
(*                                                                         *)
(* The argument: a row leaves "leased" through exactly one of complete,    *)
(* fail and reclaim, and enters it through lease alone, so the attempts of *)
(* a row are the leases it was given (AttemptAccounting); a row is leased  *)
(* only over done dependencies, and nothing undoes a done row.  Until a    *)
(* lease lapses under its worker, lease cannot pick a row some worker      *)
(* holds, so a hand and a row agree on the attempt (HeldIsCurrent).        *)
(***************************************************************************)
EXTENDS WorkQueue, TallyLemmas

IInv == TypeOK /\ BudgetWithinCap /\ DependenciesDone /\ AttemptAccounting /\ DeadMeansExhausted /\ HeldIsCurrent

\* Reclaiming changes only leased rows whose lease lapsed, and makes them pending.
LEMMA ReclaimedStatusType ==
    ASSUME TypeOK, NEW e
    PROVE  /\ ReclaimedStatus(e) \in [Items -> Statuses]
           /\ \A i \in Items : ReclaimedStatus(e)[i] # status[i] =>
                 /\ status[i] = "leased" /\ lapsed[i]
                 /\ ReclaimedStatus(e)[i] = "pending"
BY DEF ReclaimedStatus, LapsedOf, ItemsOf, TypeOK, Statuses

LEMMA InitInv == QueueAssumption /\ Init => IInv
<1> SUFFICES ASSUME QueueAssumption, Init PROVE IInv
    OBVIOUS
<1>1. TypeOK /\ DependenciesDone /\ AttemptAccounting /\ DeadMeansExhausted /\ HeldIsCurrent
    BY DEF Init, TypeOK, DependenciesDone, AttemptAccounting, DeadMeansExhausted,
           HeldIsCurrent, Statuses, QueueAssumption
<1>2. BudgetWithinCap
  <2>1. \A e \in Engagements : ReservingItems(e) = {}
      BY DEF Init, ReservingItems, ItemsOf, BudgetStatuses
  <2>2. \A e \in Engagements : Tally(Reservation, ReservingItems(e)) = 0
      BY <2>1, TallyEmpty
  <2> QED BY <2>2 DEF BudgetWithinCap, EngagementBudgetReserved, QueueAssumption
<1> QED BY <1>1, <1>2 DEF IInv

-----------------------------------------------------------------------------
(***************************************************************************)
(* Each part of the invariant, over each action.                           *)
(***************************************************************************)

LEMMA NextTypeOK == QueueAssumption /\ TypeOK /\ [Next]_vars => TypeOK'
<1> SUFFICES ASSUME QueueAssumption, TypeOK, [Next]_vars PROVE TypeOK'
    OBVIOUS
<1> USE DEF TypeOK
<1>1. ASSUME NEW i \in Items, Enqueue(i) PROVE TypeOK'
  <2>1. Cardinality({j \in Items : status[j] # "absent"}) \in Nat
      BY FS_Subset, FS_CardinalityType DEF QueueAssumption
  <2> QED BY <1>1, <2>1 DEF Enqueue, Statuses
<1>2. ASSUME NEW i \in Items, Lapse(i) PROVE TypeOK'
    BY <1>2 DEF Lapse
<1>3. ASSUME NEW w \in Workers, Lease(w) PROVE TypeOK'
  <2>1. PICK i \in Runnable(ServedBy[w]) :
            /\ status' = [ReclaimedStatus(ServedBy[w]) EXCEPT ![i] = "leased"]
            /\ attempt' = [attempt EXCEPT ![i] = @ + 1]
            /\ held' = [held EXCEPT ![w] = [item |-> i, attempt |-> attempt[i] + 1]]
      BY <1>3 DEF Lease
  <2>2. i \in Items
      BY DEF Runnable, ItemsOf
  <2>3. status' \in [Items -> Statuses]
      BY <2>1, <2>2, ReclaimedStatusType DEF Statuses
  <2>4. attempt' \in [Items -> Nat] /\ held' \in [Workers -> Holding \union {Nothing}]
      BY <2>1, <2>2 DEF Holding
  <2>5. lapsed' \in [Items -> BOOLEAN] /\ reclaims' \in [Items -> Nat]
      BY <1>3 DEF Lease, TakeBack
  <2> QED BY <1>3, <2>3, <2>4, <2>5 DEF Lease
<1>4. ASSUME NEW w \in Workers, Complete(w) PROVE TypeOK'
    BY <1>4 DEF Complete, Holding, Statuses
<1>5. ASSUME NEW w \in Workers, Fail(w) PROVE TypeOK'
  <2>1. held[w].item \in Items /\ held[w].attempt \in Nat
      BY <1>5 DEF Fail, Holding
  <2>2. status' \in [Items -> Statuses]
      BY <1>5, <2>1 DEF Fail, Statuses
  <2>3. lapsed' \in [Items -> BOOLEAN] /\ failures' \in [Items -> Nat]
    <3>1. CASE status[held[w].item] = "leased"
      <4> DEFINE i == held[w].item
      <4>1. /\ lapsed' = [lapsed EXCEPT ![i] = FALSE]
            /\ failures' = [failures EXCEPT ![i] = failures[i] + 1]
          BY <1>5, <3>1 DEF Fail
      <4>2. i \in Items
          BY <2>1
      <4> HIDE DEF i
      <4> QED BY <4>1, <4>2
    <3>2. CASE status[held[w].item] # "leased"
        BY <1>5, <3>2 DEF Fail
    <3> QED BY <3>1, <3>2
  <2> QED BY <1>5, <2>2, <2>3 DEF Fail
<1>6. ASSUME NEW w \in Workers, Crash(w) PROVE TypeOK'
    BY <1>6 DEF Crash, rows
<1>7. ASSUME NEW e \in Engagements, Reclaim(e) PROVE TypeOK'
    BY <1>7, ReclaimedStatusType DEF Reclaim, TakeBack
<1>8. CASE UNCHANGED vars
    BY <1>8 DEF vars
<1> QED BY <1>1, <1>2, <1>3, <1>4, <1>5, <1>6, <1>7, <1>8 DEF Next

\* The columns of a settled row, which no step may change.
Unmoved(i) == status'[i] = status[i] /\ resultOf'[i] = resultOf[i] /\ attempt'[i] = attempt[i]

\* No step takes a row out of "done", whatever the worker that holds it does.
LEMMA DoneIsStable ==
    ASSUME QueueAssumption, TypeOK, [Next]_vars, NEW i \in Items, status[i] \in {"done", "dead"}
    PROVE  Unmoved(i)
<1> USE DEF TypeOK, Unmoved
<1>1. ASSUME NEW j \in Items, Enqueue(j) \/ Lapse(j) PROVE Unmoved(i)
    BY <1>1 DEF Enqueue, Lapse
<1>2. ASSUME NEW w \in Workers, Lease(w) PROVE Unmoved(i)
  <2>1. PICK j \in Runnable(ServedBy[w]) :
            /\ status' = [ReclaimedStatus(ServedBy[w]) EXCEPT ![j] = "leased"]
            /\ attempt' = [attempt EXCEPT ![j] = @ + 1]
      BY <1>2 DEF Lease
  <2>2. ReclaimedStatus(ServedBy[w])[i] = status[i]
      BY ReclaimedStatusType
  <2>3. j # i
      BY <2>2 DEF Runnable
  <2> QED BY <1>2, <2>1, <2>2, <2>3, ReclaimedStatusType DEF Lease
<1>3. ASSUME NEW w \in Workers, Complete(w) \/ Fail(w) PROVE Unmoved(i)
    BY <1>3 DEF Complete, Fail
<1>4. ASSUME NEW w \in Workers, Crash(w) PROVE Unmoved(i)
    BY <1>4 DEF Crash, rows
<1>5. ASSUME NEW e \in Engagements, Reclaim(e) PROVE Unmoved(i)
    BY <1>5, ReclaimedStatusType DEF Reclaim
<1>6. CASE UNCHANGED vars
    BY <1>6 DEF vars, rows
<1> QED BY <1>1, <1>2, <1>3, <1>4, <1>5, <1>6 DEF Next

LEMMA NextDependenciesDone ==
    QueueAssumption /\ TypeOK /\ DependenciesDone /\ [Next]_vars => DependenciesDone'
<1> SUFFICES ASSUME QueueAssumption, TypeOK, DependenciesDone, [Next]_vars,
                    NEW i \in Items, attempt'[i] > 0, NEW d \in DependsOn[i]
             PROVE  status'[d] = "done"
    BY DEF DependenciesDone
<1>0. d \in Items
    BY DEF QueueAssumption
<1>1. SUFFICES status[d] = "done"
    BY <1>0, DoneIsStable DEF Unmoved
<1>2. CASE attempt'[i] = attempt[i]
    BY <1>2 DEF DependenciesDone
<1>3. CASE attempt'[i] # attempt[i]
  <2>1. \E w \in Workers : Lease(w)
      BY <1>3 DEF Next, vars, rows, Enqueue, Lapse, Complete, Fail, Crash, Reclaim
  <2>2. PICK w \in Workers : Lease(w)
      BY <2>1
  <2>3. PICK j \in Runnable(ServedBy[w]) : attempt' = [attempt EXCEPT ![j] = @ + 1]
      BY <2>2 DEF Lease
  <2>4. i = j
      BY <1>3, <2>3 DEF TypeOK
  <2> QED BY <2>3, <2>4 DEF Runnable
<1> QED BY <1>2, <1>3

\* Only enqueue makes a row reserve: every other step keeps the rows of an
\* engagement that reserve among those that did.
LEMMA OnlyEnqueueReserves ==
    ASSUME QueueAssumption, TypeOK, [Next]_vars, ~ \E i \in Items : Enqueue(i), NEW e \in Engagements
    PROVE  ReservingItems(e)' \subseteq ReservingItems(e)
<1> SUFFICES ASSUME NEW i \in Items, status'[i] \in BudgetStatuses PROVE status[i] \in BudgetStatuses
    BY DEF ReservingItems, ItemsOf
<1> USE DEF TypeOK, BudgetStatuses
<1>1. ASSUME NEW w \in Workers, Lease(w) PROVE status[i] \in BudgetStatuses
  <2>1. PICK j \in Runnable(ServedBy[w]) : status' = [ReclaimedStatus(ServedBy[w]) EXCEPT ![j] = "leased"]
      BY <1>1 DEF Lease
  <2>2. ReclaimedStatus(ServedBy[w])[j] = "pending"
      BY DEF Runnable
  <2> QED BY <2>1, <2>2, ReclaimedStatusType
<1>2. ASSUME NEW w \in Workers, Complete(w) \/ Fail(w) PROVE status[i] \in BudgetStatuses
    BY <1>2 DEF Complete, Fail
<1>3. ASSUME NEW e2 \in Engagements, Reclaim(e2) PROVE status[i] \in BudgetStatuses
    BY <1>3, ReclaimedStatusType DEF Reclaim
<1> QED BY <1>1, <1>2, <1>3 DEF Next, vars, rows, Lapse, Crash

LEMMA NextBudgetWithinCap ==
    QueueAssumption /\ TypeOK /\ BudgetWithinCap /\ [Next]_vars => BudgetWithinCap'
<1> SUFFICES ASSUME QueueAssumption, TypeOK, BudgetWithinCap, [Next]_vars, NEW e \in Engagements
             PROVE  Tally(Reservation, ReservingItems(e)') <= BudgetCap
    BY DEF BudgetWithinCap, EngagementBudgetReserved
<1>1. Tally(Reservation, ReservingItems(e)) <= BudgetCap
    BY DEF BudgetWithinCap, EngagementBudgetReserved
<1>2. /\ IsFiniteSet(ReservingItems(e))
      /\ \A i \in ReservingItems(e) : Reservation[i] \in Nat
    BY FS_Subset DEF QueueAssumption, ReservingItems, ItemsOf
<1>3. ASSUME ReservingItems(e)' \subseteq ReservingItems(e)
      PROVE  Tally(Reservation, ReservingItems(e)') <= BudgetCap
  <2> DEFINE after == ReservingItems(e)'
  <2> HIDE DEF after
  <2>1. after \subseteq ReservingItems(e)
      BY <1>3 DEF after
  <2>2. /\ Tally(Reservation, after) <= Tally(Reservation, ReservingItems(e))
        /\ Tally(Reservation, after) \in Nat
        /\ Tally(Reservation, ReservingItems(e)) \in Nat
      BY <1>2, <2>1, TallySubset, TallyType, FS_Subset
  <2> QED BY <1>1, <2>2 DEF after, QueueAssumption
<1>4. ASSUME NEW i \in Items, Enqueue(i)
      PROVE  Tally(Reservation, ReservingItems(e)') <= BudgetCap
  <2>1. CASE EngagementOf[i] = e
    <3>1. ReservingItems(e)' = ReservingItems(e) \union {i} /\ i \notin ReservingItems(e)
        BY <1>4, <2>1 DEF Enqueue, ReservingItems, ItemsOf, BudgetStatuses, TypeOK
    <3>2. Tally(Reservation, ReservingItems(e) \union {i}) =
              Tally(Reservation, ReservingItems(e)) + Reservation[i]
        BY <1>2, <3>1, TallyAdd DEF QueueAssumption
    <3> QED BY <1>4, <2>1, <3>1, <3>2 DEF Enqueue, EngagementBudgetReserved
  <2>2. CASE EngagementOf[i] # e
    <3>1. ReservingItems(e)' \subseteq ReservingItems(e)
        BY <1>4, <2>2 DEF Enqueue, ReservingItems, ItemsOf, TypeOK
    <3> QED BY <1>3, <3>1
  <2> QED BY <2>1, <2>2
<1> QED BY <1>3, <1>4, OnlyEnqueueReserves

LEMMA NextAttemptAccounting ==
    QueueAssumption /\ TypeOK /\ AttemptAccounting /\ [Next]_vars => AttemptAccounting'
<1> SUFFICES ASSUME QueueAssumption, TypeOK, AttemptAccounting, [Next]_vars PROVE AttemptAccounting'
    OBVIOUS
<1> USE DEF TypeOK, AttemptAccounting
<1>1. ASSUME NEW i \in Items, Enqueue(i) \/ Lapse(i) PROVE AttemptAccounting'
    BY <1>1 DEF Enqueue, Lapse
<1>2. ASSUME NEW w \in Workers, Lease(w) PROVE AttemptAccounting'
  <2>1. PICK j \in Runnable(ServedBy[w]) :
            /\ status' = [ReclaimedStatus(ServedBy[w]) EXCEPT ![j] = "leased"]
            /\ attempt' = [attempt EXCEPT ![j] = @ + 1]
      BY <1>2 DEF Lease
  <2>2. j \in Items /\ ReclaimedStatus(ServedBy[w])[j] = "pending"
      BY DEF Runnable, ItemsOf
  <2>3. \A i \in Items : reclaims'[i] = IF i \in LapsedOf(ServedBy[w]) THEN reclaims[i] + 1 ELSE reclaims[i]
      BY <1>2 DEF Lease, TakeBack
  <2>4. failures' = failures
      BY <1>2 DEF Lease
  <2>5. \A i \in Items : i \in LapsedOf(ServedBy[w]) => status[i] = "leased"
      BY DEF LapsedOf
  <2> QED BY <2>1, <2>2, <2>3, <2>4, <2>5 DEF ReclaimedStatus
<1>3. ASSUME NEW w \in Workers, Complete(w) PROVE AttemptAccounting'
    BY <1>3 DEF Complete
<1>4. ASSUME NEW w \in Workers, Fail(w) PROVE AttemptAccounting'
  <2>1. held[w].item \in Items
      BY <1>4 DEF Fail, Holding
  <2>2. CASE status[held[w].item] = "leased"
      BY <1>4, <2>1, <2>2 DEF Fail
  <2>3. CASE status[held[w].item] # "leased"
      BY <1>4, <2>3 DEF Fail
  <2> QED BY <2>2, <2>3
<1>5. ASSUME NEW w \in Workers, Crash(w) PROVE AttemptAccounting'
    BY <1>5 DEF Crash, rows
<1>6. ASSUME NEW e \in Engagements, Reclaim(e) PROVE AttemptAccounting'
    BY <1>6 DEF Reclaim, TakeBack, ReclaimedStatus, LapsedOf
<1>7. CASE UNCHANGED vars
    BY <1>7 DEF vars
<1> QED BY <1>1, <1>2, <1>3, <1>4, <1>5, <1>6, <1>7 DEF Next

LEMMA NextDeadMeansExhausted ==
    QueueAssumption /\ TypeOK /\ DeadMeansExhausted /\ [Next]_vars => DeadMeansExhausted'
<1> SUFFICES ASSUME QueueAssumption, TypeOK, DeadMeansExhausted, [Next]_vars,
                    NEW i \in Items, status'[i] = "dead"
             PROVE  attempt'[i] >= MaxAttempts
    BY DEF DeadMeansExhausted
<1>1. CASE status[i] = "dead"
    BY <1>1, DoneIsStable DEF DeadMeansExhausted, Unmoved
<1>2. CASE status[i] # "dead"
  <2>1. \E w \in Workers : Fail(w)
    <3>1. ASSUME NEW w \in Workers, Lease(w) PROVE FALSE
      <4>1. PICK j \in Runnable(ServedBy[w]) : status' = [ReclaimedStatus(ServedBy[w]) EXCEPT ![j] = "leased"]
          BY <3>1 DEF Lease
      <4> QED BY <1>2, <4>1 DEF ReclaimedStatus
    <3>2. ASSUME NEW e \in Engagements, Reclaim(e) PROVE FALSE
        BY <1>2, <3>2 DEF Reclaim, ReclaimedStatus
    <3>3. ASSUME NEW j \in Items, Enqueue(j) PROVE FALSE
        BY <1>2, <3>3 DEF Enqueue, TypeOK
    <3>4. ASSUME NEW w \in Workers, Complete(w) PROVE FALSE
        BY <1>2, <3>4 DEF Complete, TypeOK
    <3>5. status' # status
        BY <1>2
    <3> QED BY <3>1, <3>2, <3>3, <3>4, <3>5 DEF Next, vars, rows, Lapse, Crash
  <2>2. PICK w \in Workers : Fail(w)
      BY <2>1
  <2> QED BY <1>2, <2>2 DEF Fail, TypeOK, QueueAssumption
<1> QED BY <1>1, <1>2

LEMMA LeaseKeepsHandsCurrent ==
    ASSUME QueueAssumption, TypeOK, HeldIsCurrent, NEW w \in Workers, Lease(w)
    PROVE  HeldIsCurrent'
<1> USE DEF TypeOK
<1>1. PICK i \in Runnable(ServedBy[w]) :
          /\ status' = [ReclaimedStatus(ServedBy[w]) EXCEPT ![i] = "leased"]
          /\ attempt' = [attempt EXCEPT ![i] = @ + 1]
          /\ lapsed' = [j \in Items |-> lapsed[j] /\ j \notin LapsedOf(ServedBy[w]) \union {i}]
          /\ held' = [held EXCEPT ![w] = [item |-> i, attempt |-> attempt[i] + 1]]
    BY DEF Lease
<1>2. i \in Items /\ ReclaimedStatus(ServedBy[w])[i] = "pending" /\ outlived' = outlived
    BY DEF Runnable, ItemsOf, Lease
<1>3. [item |-> i, attempt |-> attempt[i] + 1] # Nothing
    BY <1>2 DEF QueueAssumption
<1>4. \A j \in Items : lapsed'[j] <=> lapsed[j] /\ j \notin LapsedOf(ServedBy[w]) /\ j # i
    BY <1>1
<1>5. ASSUME NEW v \in Workers, v # w, held[v] # Nothing, held[v].item \notin outlived
      PROVE  held[v].item \in Items /\ held[v].item # i /\ HoldsCurrentLease(v, held[v].item)
  <2>1. HoldsCurrentLease(v, held[v].item) /\ held[v].item \in Items
      BY <1>5 DEF HeldIsCurrent, Holding
  <2> QED BY <2>1, <1>2 DEF HoldsCurrentLease, ReclaimedStatus, LapsedOf
<1>6. ASSUME NEW v \in Workers, held'[v] # Nothing, held'[v].item \notin outlived
      PROVE  HoldsCurrentLease(v, held[v].item)'
  <2>1. CASE v = w
    <3>1. ~lapsed'[i]
        BY <1>2, <1>4
    <3> QED BY <2>1, <3>1, <1>1, <1>2, <1>3, ReclaimedStatusType DEF HoldsCurrentLease
  <2>2. CASE v # w
    <3>1. held'[v] = held[v]
        BY <1>1, <2>2
    <3>2. held[v].item \in Items /\ held[v].item # i /\ HoldsCurrentLease(v, held[v].item)
        BY <1>5, <1>6, <2>2, <3>1
    <3>3. ReclaimedStatus(ServedBy[w])[held[v].item] = "leased"
        BY <3>2 DEF HoldsCurrentLease, ReclaimedStatus, LapsedOf
    <3> QED BY <1>1, <1>4, <3>1, <3>2, <3>3, ReclaimedStatusType DEF HoldsCurrentLease
  <2> QED BY <2>1, <2>2
<1>7. ASSUME NEW v \in Workers, NEW u \in Workers, held'[v] # Nothing, held'[u] # Nothing,
             held'[v].item = held'[u].item, held'[v].item \notin outlived
      PROVE  v = u
  <2>1. held'[w] = [item |-> i, attempt |-> attempt[i] + 1]
      BY <1>1
  <2>2. \A x \in Workers : x # w => held'[x] = held[x]
      BY <1>1
  <2> QED BY <1>5, <1>7, <2>1, <2>2 DEF HeldIsCurrent
<1>8. ASSUME NEW j \in Items \ outlived, status'[j] = "done" PROVE resultOf'[j] = attempt'[j]
  <2>1. j # i /\ status[j] = "done"
      BY <1>1, <1>2, <1>8, ReclaimedStatusType
  <2> QED BY <1>1, <2>1 DEF Lease, HeldIsCurrent
<1> QED BY <1>2, <1>6, <1>7, <1>8 DEF HeldIsCurrent

LEMMA NextHandsCurrent ==
    ASSUME QueueAssumption, TypeOK, HeldIsCurrent, [Next]_vars
    PROVE  HeldIsCurrent'
<1> USE DEF TypeOK
<1>0. \A w \in Workers : held[w] # Nothing => held[w].item \in Items
    BY DEF Holding
<1>1. ASSUME NEW i \in Items, Enqueue(i) PROVE HeldIsCurrent'
    BY <1>0, <1>1 DEF Enqueue, HeldIsCurrent, HoldsCurrentLease
<1>2. ASSUME NEW i \in Items, Lapse(i) PROVE HeldIsCurrent'
    BY <1>0, <1>2 DEF Lapse, HeldIsCurrent, HoldsCurrentLease
<1>3. ASSUME NEW w \in Workers, Lease(w) PROVE HeldIsCurrent'
    BY <1>3, LeaseKeepsHandsCurrent
<1>4. ASSUME NEW w \in Workers, Complete(w) \/ Fail(w) PROVE HeldIsCurrent'
  <2> DEFINE j == held[w].item
  <2>1. /\ j \in Items /\ held[w] # Nothing /\ outlived' = outlived
        /\ j \notin outlived => HoldsCurrentLease(w, j)
      BY <1>0, <1>4 DEF Complete, Fail, HeldIsCurrent
  <2>2. \A i \in Items : i # j => status'[i] = status[i] /\ lapsed'[i] = lapsed[i] /\ resultOf'[i] = resultOf[i]
      BY <1>4 DEF Complete, Fail
  <2>3. attempt' = attempt /\ held' = [held EXCEPT ![w] = Nothing]
      BY <1>4 DEF Complete, Fail
  <2>4. j \notin outlived /\ status'[j] = "done" => resultOf'[j] = attempt'[j]
      BY <1>4, <2>1, <2>3 DEF Complete, Fail, HoldsCurrentLease
  <2>5. \A v \in Workers : held'[v] # Nothing =>
           v # w /\ held'[v] = held[v] /\ (held[v].item \notin outlived => held[v].item # j)
      BY <2>1, <2>3 DEF HeldIsCurrent
  <2> HIDE DEF j
  <2>6. \A v \in Workers : held'[v] # Nothing /\ held'[v].item \notin outlived => HoldsCurrentLease(v, held[v].item)'
      BY <1>0, <2>2, <2>3, <2>5 DEF HeldIsCurrent, HoldsCurrentLease
  <2>7. \A i \in Items \ outlived : status'[i] = "done" => resultOf'[i] = attempt'[i]
      BY <2>2, <2>3, <2>4 DEF HeldIsCurrent
  <2>8. \A v, u \in Workers :
           /\ held'[v] # Nothing /\ held'[u] # Nothing
           /\ held'[v].item = held'[u].item /\ held'[v].item \notin outlived
           => v = u
      BY <2>5 DEF HeldIsCurrent
  <2> QED BY <2>1, <2>6, <2>7, <2>8 DEF HeldIsCurrent
<1>5. ASSUME NEW w \in Workers, Crash(w) PROVE HeldIsCurrent'
  <2>1. \A v \in Workers : held'[v] # Nothing => v # w /\ held'[v] = held[v]
      BY <1>5 DEF Crash
  <2> QED BY <1>5, <2>1 DEF Crash, rows, HeldIsCurrent, HoldsCurrentLease
<1>6. ASSUME NEW e \in Engagements, Reclaim(e) PROVE HeldIsCurrent'
  <2>1. \A i \in Items : i \notin LapsedOf(e) => status'[i] = status[i] /\ lapsed'[i] = lapsed[i]
      BY <1>6 DEF Reclaim, ReclaimedStatus
  <2>2. \A w \in Workers : held[w] # Nothing /\ held[w].item \notin outlived =>
           held[w].item \in Items \ LapsedOf(e)
      BY <1>0 DEF HeldIsCurrent, HoldsCurrentLease, LapsedOf
  <2>3. UNCHANGED <<attempt, resultOf, held, outlived>>
      BY <1>6 DEF Reclaim
  <2>4. \A i \in Items : status'[i] = "done" => status[i] = "done"
      BY <1>6, ReclaimedStatusType DEF Reclaim
  <2> QED BY <2>1, <2>2, <2>3, <2>4 DEF HeldIsCurrent, HoldsCurrentLease
<1>7. CASE UNCHANGED vars
    BY <1>7 DEF vars, rows, HeldIsCurrent, HoldsCurrentLease
<1> QED BY <1>1, <1>2, <1>3, <1>4, <1>5, <1>6, <1>7 DEF Next

-----------------------------------------------------------------------------

LEMMA NextInv == QueueAssumption /\ IInv /\ [Next]_vars => IInv'
<1> SUFFICES ASSUME QueueAssumption, IInv, [Next]_vars PROVE IInv'
    OBVIOUS
<1>1. TypeOK' /\ BudgetWithinCap' /\ DependenciesDone' /\ AttemptAccounting' /\ DeadMeansExhausted'
    BY NextTypeOK, NextBudgetWithinCap, NextDependenciesDone, NextAttemptAccounting, NextDeadMeansExhausted DEF IInv
<1> QED BY <1>1, NextHandsCurrent DEF IInv

LEMMA Invariance == Spec => []IInv
<1>1. Init => IInv
    BY InitInv, QueueAssumption
<1>2. IInv /\ [Next]_vars => IInv'
    BY NextInv, QueueAssumption
<1> QED BY <1>1, <1>2, PTL DEF Spec

\* Every column of work_items and every worker's hand keeps its type.
THEOREM QueueTypeOK == Spec => []TypeOK
BY Invariance, PTL DEF IInv

\* No interleaving of enqueues, retries and give-ups takes an engagement past its
\* cap: enqueue sums and inserts in one transaction, and nothing else reserves.
THEOREM ReservationsWithinCap == Spec => []BudgetWithinCap
BY Invariance, PTL DEF IInv

\* An item is only ever dispatched over dependencies that are done and stay done
\* (lease_next_work_item's filter on done_ids, against retries, crashes and late calls).
THEOREM DispatchOverDoneDependencies == Spec => []DependenciesDone
BY Invariance, PTL DEF IInv

\* Every attempt charged to an item is one failure, one reclaim, or its settled
\* or running lease: a crash costs one attempt and no step charges twice.
THEOREM AttemptsAreAccounted == Spec => []AttemptAccounting
BY Invariance, PTL DEF IInv

\* fail gives an item up only after max_attempts dispatches.
THEOREM GivenUpAfterAllAttempts == Spec => []DeadMeansExhausted
BY Invariance, PTL DEF IInv

\* Leases that outlive the work exclude: no two workers hold one item, and a
\* recorded result is the last attempt's.
THEOREM LeasesExclude == Spec => []HeldIsCurrent
BY Invariance, PTL DEF IInv

\* A done or dead row never changes again, so replay dispatches no finished work.
THEOREM SettledRowsAreFinal == Spec => SettledIsFinal
<1>1. ASSUME TypeOK, [Next]_vars
      PROVE  [\A i \in Items :
                status[i] \in {"done", "dead"} =>
                    /\ status'[i] = status[i]
                    /\ resultOf'[i] = resultOf[i]
                    /\ attempt'[i] = attempt[i]]_vars
    BY <1>1, DoneIsStable, QueueAssumption DEF Unmoved
<1> QED BY <1>1, QueueTypeOK, PTL DEF Spec, SettledIsFinal

-----------------------------------------------------------------------------
(***************************************************************************)
(* The queue implements DurableWork.  Besides TypeOK the mapping needs one *)
(* fact: a worker's hand names an attempt its item did have, so the result *)
(* a late complete records is the result of one of the tries.              *)
(***************************************************************************)

HandsInRange == \A w \in Workers : held[w] # Nothing => held[w].attempt \in 1..attempt[held[w].item]

LEMMA NextHandsInRange ==
    QueueAssumption /\ TypeOK /\ HandsInRange /\ [Next]_vars => HandsInRange'
<1> SUFFICES ASSUME QueueAssumption, TypeOK, HandsInRange, [Next]_vars,
                    NEW w \in Workers, held'[w] # Nothing
             PROVE  held'[w].attempt \in 1..attempt'[held'[w].item]
    BY DEF HandsInRange
<1> USE DEF TypeOK, Holding
<1>0. \/ UNCHANGED <<attempt, held>>
      \/ \E i \in Items : Enqueue(i)
      \/ \E v \in Workers : Lease(v) \/ Complete(v) \/ Fail(v) \/ Crash(v)
      \/ \E e \in Engagements : Reclaim(e)
    BY DEF Next, vars, rows, Lapse
<1>1. CASE held'[w] = held[w]
  <2>1. held[w].item \in Items /\ held[w].attempt \in 1..attempt[held[w].item]
      BY <1>1 DEF HandsInRange
  <2>2. attempt'[held[w].item] \in Nat /\ attempt'[held[w].item] >= attempt[held[w].item]
    <3>1. CASE attempt' = attempt
        BY <3>1, <2>1
    <3>2. CASE attempt' # attempt
      <4>1. PICK v \in Workers : Lease(v)
          BY <1>0, <3>2 DEF Enqueue, rows, Complete, Fail, Crash, Reclaim
      <4>2. PICK j \in Runnable(ServedBy[v]) : attempt' = [attempt EXCEPT ![j] = attempt[j] + 1]
          BY <4>1 DEF Lease
      <4> QED BY <4>2, <2>1 DEF Runnable, ItemsOf
    <3> QED BY <3>1, <3>2
  <2> QED BY <1>1, <2>1, <2>2
<1>2. CASE held'[w] # held[w]
  <2>1. PICK v \in Workers : Lease(v) \/ Complete(v) \/ Fail(v) \/ Crash(v)
      BY <1>0, <1>2 DEF Enqueue, Reclaim
  <2>0. Lease(w)
    <3>1. ASSUME Complete(v) \/ Fail(v) \/ Crash(v) PROVE FALSE
      <4>1. held' = [held EXCEPT ![v] = Nothing]
          BY <3>1 DEF Complete, Fail, Crash
      <4>2. CASE w = v
          BY <4>1, <4>2
      <4>3. CASE w # v
          BY <1>2, <4>1, <4>3
      <4> QED BY <4>2, <4>3
    <3>2. CASE Lease(v)
        BY <3>2, <1>2 DEF Lease
    <3> QED BY <2>1, <3>1, <3>2
  <2>2. PICK j \in Runnable(ServedBy[w]) :
            /\ attempt' = [attempt EXCEPT ![j] = attempt[j] + 1]
            /\ held' = [held EXCEPT ![w] = [item |-> j, attempt |-> attempt[j] + 1]]
      BY <2>0 DEF Lease
  <2> QED BY <2>2 DEF Runnable, ItemsOf
<1> QED BY <1>1, <1>2

\* Taking an engagement's lapsed leases back returns work of that engagement.
LEMMA ReclaimedIsReturned ==
    ASSUME TypeOK, NEW e \in Engagements
    PROVE  /\ \A i \in LapsedOf(e) : i \in Items /\ EngagementOf[i] = e /\ Phase[i] = "taken"
           /\ [i \in Items |-> PhaseOf(ReclaimedStatus(e)[i])] = Promised!Returned(LapsedOf(e))
BY DEF LapsedOf, ItemsOf, Phase, PhaseOf, ReclaimedStatus, Promised!Returned

LEMMA EnqueueAccepts ==
    ASSUME QueueAssumption, TypeOK, NEW i \in Items, Enqueue(i)
    PROVE  Promised!Accept(i)
<1> USE DEF TypeOK, Statuses
<1>1. Phase[i] = "absent" /\ Phase' = [Phase EXCEPT ![i] = "waiting"]
    BY DEF Enqueue, Phase, PhaseOf
<1>2. {j \in Promised!Siblings(i) : Phase[j] \in {"waiting", "taken", "done"}}
      = ReservingItems(EngagementOf[i])
    BY DEF Promised!Siblings, ReservingItems, ItemsOf, BudgetStatuses, Phase, PhaseOf
<1>3. Tally(Reservation, ReservingItems(EngagementOf[i]))
      = Promised!Tally(Reservation, ReservingItems(EngagementOf[i]))
    BY DEF Tally, Coins, Cardinality, Promised!Tally, Promised!Coins, Promised!Cardinality
<1> QED BY <1>1, <1>2, <1>3 DEF Enqueue, EngagementBudgetReserved, Promised!Accept

LEMMA LeaseTakes ==
    ASSUME QueueAssumption, TypeOK, NEW w \in Workers, Lease(w)
    PROVE  Promised!Next
<1> USE DEF TypeOK, Statuses
<1> DEFINE e == ServedBy[w]
<1>0. e \in Engagements
    BY DEF QueueAssumption
<1>1. PICK i \in Runnable(e) :
          /\ status' = [ReclaimedStatus(e) EXCEPT ![i] = "leased"]
          /\ attempt' = [attempt EXCEPT ![i] = attempt[i] + 1]
    BY DEF Lease
<1>2. i \in ItemsOf(e) /\ ReclaimedStatus(e)[i] = "pending"
      /\ DependsOn[i] \subseteq {d \in ItemsOf(e) : status[d] = "done"}
    BY DEF Runnable
<1>3. i \in Items /\ EngagementOf[i] = e
    BY <1>2 DEF ItemsOf
<1>4. \A d \in DependsOn[i] : Phase[d] = "done" /\ EngagementOf[d] = EngagementOf[i]
    BY <1>2, <1>3 DEF ItemsOf, Phase, PhaseOf
<1>5. Promised!Returned(LapsedOf(e))[i] = "waiting"
    BY <1>0, <1>2, <1>3, ReclaimedIsReturned DEF PhaseOf
<1>6. Phase' = [Promised!Returned(LapsedOf(e)) EXCEPT ![i] = "taken"]
  <2>1. Phase' = [[j \in Items |-> PhaseOf(ReclaimedStatus(e)[j])] EXCEPT ![i] = "taken"]
      BY <1>1, <1>3, ReclaimedStatusType DEF Phase, PhaseOf
  <2> QED BY <1>0, <2>1, ReclaimedIsReturned
<1>7. LapsedOf(e) \in SUBSET Promised!Siblings(i)
    BY <1>3 DEF LapsedOf, ItemsOf, Promised!Siblings
<1>8. \A j \in LapsedOf(e) : EngagementOf[j] = EngagementOf[i] /\ Phase[j] = "taken"
    BY <1>0, <1>3, ReclaimedIsReturned
<1>9. resultOf' = resultOf
    BY DEF Lease
<1>10. Promised!Take(i, LapsedOf(e))
    BY <1>1, <1>4, <1>5, <1>6, <1>8, <1>9 DEF Promised!Take
<1> QED BY <1>3, <1>7, <1>10 DEF Promised!Next

LEMMA ReclaimReturns ==
    ASSUME QueueAssumption, TypeOK, NEW e \in Engagements, Reclaim(e)
    PROVE  Promised!Next
<1>1. PICK i \in LapsedOf(e) : i \in Items /\ EngagementOf[i] = e
    BY ReclaimedIsReturned DEF Reclaim
<1>2. Phase' = Promised!Returned(LapsedOf(e)) /\ attempt' = attempt /\ resultOf' = resultOf
    BY ReclaimedIsReturned DEF Reclaim, Phase
<1>3. Promised!Return(EngagementOf[i], LapsedOf(e))
    BY <1>1, <1>2, ReclaimedIsReturned DEF Reclaim, Promised!Return
<1>4. LapsedOf(e) \in SUBSET Promised!Siblings(i)
    BY <1>1, ReclaimedIsReturned DEF Promised!Siblings
<1> QED BY <1>1, <1>3, <1>4 DEF Promised!Next

LEMMA CompleteSettles ==
    ASSUME QueueAssumption, TypeOK, HandsInRange, NEW w \in Workers, Complete(w)
    PROVE  [Promised!Next]_(Promised!vars)
<1> USE DEF TypeOK, Statuses
<1> DEFINE i == held[w].item
           t == held[w].attempt
<1>1. i \in Items /\ t \in 1..attempt[i]
    BY DEF Complete, HandsInRange, Holding
<1>2. CASE status[i] = "leased"
  <2>1. status' = [status EXCEPT ![i] = "done"]
      BY <1>2 DEF Complete
  <2>4. Phase[i] = "taken" /\ Phase' = [Phase EXCEPT ![i] = "done"]
    <3> HIDE DEF i
    <3> QED BY <1>1, <1>2, <2>1 DEF Phase, PhaseOf
  <2>2. resultOf' = [resultOf EXCEPT ![i] = t] /\ attempt' = attempt
      BY <1>2 DEF Complete
  <2> HIDE DEF i, t
  <2>3. Promised!Settle(i)
      BY <1>1, <2>2, <2>4 DEF Promised!Settle
  <2> QED BY <1>1, <2>3 DEF Promised!Next
<1>3. CASE status[i] # "leased"
    BY <1>3 DEF Complete, Phase, Promised!vars
<1> QED BY <1>2, <1>3

LEMMA FailReturnsOrGivesUp ==
    ASSUME QueueAssumption, TypeOK, NEW w \in Workers, Fail(w)
    PROVE  [Promised!Next]_(Promised!vars)
<1> USE DEF TypeOK, Statuses
<1> DEFINE i == held[w].item
<1>1. i \in Items
    BY DEF Fail, Holding
<1>0. attempt' = attempt /\ resultOf' = resultOf
    BY DEF Fail
<1>2. CASE status[i] = "leased" /\ attempt[i] < MaxAttempts
  <2>1. Phase[i] = "taken" /\ Phase' = Promised!Returned({i})
      BY <1>1, <1>2 DEF Fail, Phase, PhaseOf, Promised!Returned
  <2> HIDE DEF i
  <2>2. Promised!Return(EngagementOf[i], {i})
      BY <1>0, <1>1, <2>1 DEF Promised!Return
  <2>3. {i} \in SUBSET Promised!Siblings(i)
      BY <1>1 DEF Promised!Siblings
  <2> QED BY <1>1, <2>2, <2>3 DEF Promised!Next
<1>3. CASE status[i] = "leased" /\ ~(attempt[i] < MaxAttempts)
  <2>4. status' = [status EXCEPT ![i] = "dead"]
      BY <1>3 DEF Fail
  <2>1. Phase[i] = "taken" /\ Phase' = [Phase EXCEPT ![i] = "dead"]
    <3> HIDE DEF i
    <3> QED BY <1>1, <1>3, <2>4 DEF Phase, PhaseOf
  <2>2. attempt[i] >= MaxAttempts
      BY <1>1, <1>3 DEF QueueAssumption
  <2> HIDE DEF i
  <2>3. Promised!GiveUp(i)
      BY <1>0, <2>1, <2>2 DEF Promised!GiveUp
  <2> QED BY <1>1, <2>3 DEF Promised!Next
<1>4. CASE status[i] # "leased"
    BY <1>0, <1>4 DEF Fail, Phase, Promised!vars
<1> QED BY <1>2, <1>3, <1>4

LEMMA StepImplementsDurableWork ==
    QueueAssumption /\ TypeOK /\ HandsInRange /\ [Next]_vars => [Promised!Next]_(Promised!vars)
<1> SUFFICES ASSUME QueueAssumption, TypeOK, HandsInRange, [Next]_vars
             PROVE  [Promised!Next]_(Promised!vars)
    OBVIOUS
<1>1. ASSUME NEW i \in Items, Enqueue(i) PROVE Promised!Next
    BY <1>1, EnqueueAccepts DEF Promised!Next
<1>2. ASSUME NEW i \in Items, Lapse(i) PROVE UNCHANGED Promised!vars
    BY <1>2 DEF Lapse, Phase, Promised!vars
<1>3. ASSUME NEW w \in Workers, Crash(w) PROVE UNCHANGED Promised!vars
    BY <1>3 DEF Crash, rows, Phase, Promised!vars
<1>4. CASE UNCHANGED vars
    BY <1>4 DEF vars, Phase, Promised!vars
<1> QED BY <1>1, <1>2, <1>3, <1>4, LeaseTakes, ReclaimReturns, CompleteSettles, FailReturnsOrGivesUp DEF Next

\* The queue keeps its promise to callers for every set of items, workers and
\* engagements: whatever crashes, lapses or comes late, its transactions are
\* steps of DurableWork, on the rows of one engagement, or change no promise.
THEOREM QueueImplementsDurableWork == Spec => ImplementsDurableWork
<1>1. Init => Promised!Init
    BY DEF Init, Promised!Init, Phase, PhaseOf
<1>2. Init => HandsInRange
    BY DEF Init, HandsInRange
<1>3. TypeOK /\ HandsInRange /\ [Next]_vars => HandsInRange'
    BY NextHandsInRange, QueueAssumption
<1>4. TypeOK /\ HandsInRange /\ [Next]_vars => [Promised!Next]_(Promised!vars)
    BY StepImplementsDurableWork, QueueAssumption
<1>5. TypeOK /\ HandsInRange /\ [Next]_vars => [Promised!Next]_<<Phase, attempt, resultOf>>
    BY <1>4 DEF Promised!vars
<1> QED BY <1>1, <1>2, <1>3, <1>5, QueueTypeOK, PTL DEF Spec, ImplementsDurableWork, Promised!Spec, Promised!vars

=============================================================================
