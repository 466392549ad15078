------------------------------ MODULE WorkQueue ------------------------------
(***************************************************************************)
(* The durable work-item queue: harness/work_queue.py over the work_items  *)
(* table of harness/store.py.  Every operation is one BEGIN IMMEDIATE      *)
(* transaction, hence one action.  Rows outlive the worker processes; what *)
(* a worker holds in memory (the WorkItem that lease returned) does not.   *)
(*                                                                         *)
(* Time is abstracted to what the code tests: a lease is either live or    *)
(* lapsed (lease_expiry <= now).  created_at is the order of insertion.    *)
(***************************************************************************)
EXTENDS Integers, FiniteSets, Tally

CONSTANTS
    Items,              \* item ids: content hashes of the work, the proof identity
    Engagements,
    Workers,            \* worker processes, each with a queue object of one engagement
    EngagementOf,       \* the engagement hashed into an item's id
    ServedBy,           \* the engagement a worker's queue object is bound to
    Priority, DependsOn, Reservation,
    BudgetCap,          \* budget_cap of every queue object
    MaxAttempts,        \* max_attempts of every item
    MaxDisruptions,     \* bound of the model: crashes plus leases that lapse under their worker
    Nothing             \* the hand of a worker that holds no item

ASSUME QueueAssumption ==
    /\ IsFiniteSet(Items)
    /\ EngagementOf \in [Items -> Engagements]
    /\ ServedBy \in [Workers -> Engagements]
    /\ Priority \in [Items -> Int]
    /\ DependsOn \in [Items -> SUBSET Items]
    /\ Reservation \in [Items -> Nat]
    /\ BudgetCap \in Nat
    /\ MaxAttempts \in Nat \ {0}
    /\ MaxDisruptions \in Nat
    /\ Nothing \notin [item : Items, attempt : Nat]

VARIABLES
    status,       \* status column; "absent" before the row is inserted
    attempt,      \* attempt column
    lapsed,       \* lease_expiry <= now, for a leased row
    createdAt,    \* created_at column
    resultOf,     \* result_ref column: the attempt whose worker completed the item, 0 for none
    held,         \* the WorkItem each worker has in memory
    failures,     \* history: failed attempts recorded on an item
    reclaims,     \* history: times an item's lapsed lease was taken back
    outlived,     \* history: items whose lease lapsed under a worker still at work
    disruptions

rows == <<status, attempt, lapsed, createdAt, resultOf>>
vars == <<status, attempt, lapsed, createdAt, resultOf, held, failures, reclaims, outlived, disruptions>>

-----------------------------------------------------------------------------

Statuses == {"absent", "pending", "leased", "done", "dead"}
Holding == [item : Items, attempt : Nat]

\* Statuses that keep their budget reservation.
BudgetStatuses == {"pending", "leased", "done"}

ItemsOf(e) == {i \in Items : EngagementOf[i] = e}

ReservingItems(e) == {i \in ItemsOf(e) : status[i] \in BudgetStatuses}
EngagementBudgetReserved(e) == Tally(Reservation, ReservingItems(e))

\* Mutants of LapsedOf: the sweep forgets the engagement; it never finds a row.
LapsedAnywhere(e) == {i \in Items : status[i] = "leased" /\ lapsed[i]}
NeverLapsed(e) == {}

\* The rows an operation of engagement e finds with a lapsed lease, and the
\* status column once that operation has taken them back.
LapsedOf(e) == {i \in ItemsOf(e) : status[i] = "leased" /\ lapsed[i]}

ReclaimedStatus(e) == [i \in Items |-> IF i \in LapsedOf(e) THEN "pending" ELSE status[i]]

\* Mutants of Runnable: dependencies ignored; a leased row offered again.
RunnableAnyDependency(e) == {i \in ItemsOf(e) : ReclaimedStatus(e)[i] = "pending"}
RunnableLeasedToo(e) ==
    {i \in ItemsOf(e) :
        /\ ReclaimedStatus(e)[i] \in {"pending", "leased"}
        /\ DependsOn[i] \subseteq {d \in ItemsOf(e) : status[d] = "done"}}

\* Pending rows of e whose every dependency is a done row of e.
Runnable(e) ==
    {i \in ItemsOf(e) :
        /\ ReclaimedStatus(e)[i] = "pending"
        /\ DependsOn[i] \subseteq {d \in ItemsOf(e) : status[d] = "done"}}

\* ORDER BY priority DESC, created_at ASC.
Before(i, j) ==
    \/ Priority[i] > Priority[j]
    \/ Priority[i] = Priority[j] /\ createdAt[i] <= createdAt[j]

\* Worker w still owns the lease it was given.
HoldsCurrentLease(w, i) ==
    /\ held[w] # Nothing
    /\ held[w].item = i
    /\ status[i] = "leased"
    /\ attempt[i] = held[w].attempt
    /\ ~lapsed[i]

Init ==
    /\ status = [i \in Items |-> "absent"]
    /\ attempt = [i \in Items |-> 0]
    /\ lapsed = [i \in Items |-> FALSE]
    /\ createdAt = [i \in Items |-> 0]
    /\ resultOf = [i \in Items |-> 0]
    /\ held = [w \in Workers |-> Nothing]
    /\ failures = [i \in Items |-> 0]
    /\ reclaims = [i \in Items |-> 0]
    /\ outlived = {}
    /\ disruptions = 0

-----------------------------------------------------------------------------

\* Mutant of Enqueue: the cap is compared with what is reserved already.
EnqueueOneOver(i) ==
    /\ status[i] = "absent"
    /\ EngagementBudgetReserved(EngagementOf[i]) <= BudgetCap
    /\ status' = [status EXCEPT ![i] = "pending"]
    /\ createdAt' = [createdAt EXCEPT ![i] = 1]
    /\ UNCHANGED <<attempt, lapsed, resultOf, held, failures, reclaims, outlived, disruptions>>

\* enqueue: the existence check, the budget sum and the INSERT are one
\* transaction.  A duplicate or a refused row changes nothing.
Enqueue(i) ==
    /\ status[i] = "absent"
    /\ EngagementBudgetReserved(EngagementOf[i]) + Reservation[i] <= BudgetCap
    /\ status' = [status EXCEPT ![i] = "pending"]
    /\ createdAt' = [createdAt EXCEPT
                        ![i] = 1 + Cardinality({j \in Items : status[j] # "absent"})]
    /\ UNCHANGED <<attempt, lapsed, resultOf, held, failures, reclaims, outlived, disruptions>>

\* The UPDATE both reclaim_expired_leases and lease_next_work_item run.
TakeBack(e) ==
    reclaims' = [i \in Items |-> IF i \in LapsedOf(e) THEN reclaims[i] + 1 ELSE reclaims[i]]

\* lease: take back the engagement's lapsed leases, then claim the best
\* runnable row and count the attempt, in one transaction.
Lease(w) ==
    LET e == ServedBy[w]
    IN  /\ held[w] = Nothing
        /\ \E i \in Runnable(e) :
            /\ \A j \in Runnable(e) : Before(i, j)
            /\ status' = [ReclaimedStatus(e) EXCEPT ![i] = "leased"]
            /\ attempt' = [attempt EXCEPT ![i] = @ + 1]
            /\ lapsed' = [j \in Items |-> lapsed[j] /\ j \notin LapsedOf(e) \union {i}]
            /\ held' = [held EXCEPT ![w] = [item |-> i, attempt |-> attempt[i] + 1]]
        /\ TakeBack(e)
        /\ UNCHANGED <<createdAt, resultOf, failures, outlived, disruptions>>

\* reclaim: the explicit recovery entry point; also what a lease call that
\* finds nothing runnable leaves behind.
Reclaim(e) ==
    /\ LapsedOf(e) # {}
    /\ status' = ReclaimedStatus(e)
    /\ lapsed' = [i \in Items |-> lapsed[i] /\ i \notin LapsedOf(e)]
    /\ TakeBack(e)
    /\ UNCHANGED <<attempt, createdAt, resultOf, held, failures, outlived, disruptions>>

\* complete: WHERE item_id = ? AND status = 'leased'.  The statement does not
\* look at lease_owner or attempt; when the row is not leased it returns False.
Complete(w) ==
    /\ held[w] # Nothing
    /\ LET i == held[w].item
       IN  IF status[i] = "leased"
           THEN /\ status' = [status EXCEPT ![i] = "done"]
                /\ resultOf' = [resultOf EXCEPT ![i] = held[w].attempt]
                /\ lapsed' = [lapsed EXCEPT ![i] = FALSE]
           ELSE UNCHANGED <<status, resultOf, lapsed>>
    /\ held' = [held EXCEPT ![w] = Nothing]
    /\ UNCHANGED <<attempt, createdAt, failures, reclaims, outlived, disruptions>>

\* Mutant of Fail: a row that is pending again is failed too.
FailUnleased(w) ==
    /\ held[w] # Nothing
    /\ LET i == held[w].item
       IN  IF status[i] \in {"leased", "pending"}
           THEN /\ status' = [status EXCEPT
                                ![i] = IF attempt[i] < MaxAttempts THEN "pending" ELSE "dead"]
                /\ failures' = [failures EXCEPT ![i] = @ + 1]
                /\ lapsed' = [lapsed EXCEPT ![i] = FALSE]
           ELSE UNCHANGED <<status, failures, lapsed>>
    /\ held' = [held EXCEPT ![w] = Nothing]
    /\ UNCHANGED <<attempt, createdAt, resultOf, reclaims, outlived, disruptions>>

\* fail: pending again while attempts are left, dead afterwards.
Fail(w) ==
    /\ held[w] # Nothing
    /\ LET i == held[w].item
       IN  IF status[i] = "leased"
           THEN /\ status' = [status EXCEPT
                                ![i] = IF attempt[i] < MaxAttempts THEN "pending" ELSE "dead"]
                /\ failures' = [failures EXCEPT ![i] = @ + 1]
                /\ lapsed' = [lapsed EXCEPT ![i] = FALSE]
           ELSE UNCHANGED <<status, failures, lapsed>>
    /\ held' = [held EXCEPT ![w] = Nothing]
    /\ UNCHANGED <<attempt, createdAt, resultOf, reclaims, outlived, disruptions>>

\* The worker process dies between lease and complete; its row stays leased.
Crash(w) ==
    /\ held[w] # Nothing
    /\ disruptions < MaxDisruptions
    /\ held' = [held EXCEPT ![w] = Nothing]
    /\ disruptions' = disruptions + 1
    /\ UNCHANGED <<rows, failures, reclaims, outlived>>

\* The clock passes lease_expiry, of a crashed worker's lease or of one whose
\* worker takes longer than lease_seconds.
Lapse(i) ==
    /\ status[i] = "leased"
    /\ ~lapsed[i]
    /\ lapsed' = [lapsed EXCEPT ![i] = TRUE]
    /\ IF \E w \in Workers : HoldsCurrentLease(w, i)
       THEN /\ disruptions < MaxDisruptions
            /\ disruptions' = disruptions + 1
            /\ outlived' = outlived \union {i}
       ELSE UNCHANGED <<outlived, disruptions>>
    /\ UNCHANGED <<status, attempt, createdAt, resultOf, held, failures, reclaims>>

Next ==
    \/ \E i \in Items : Enqueue(i) \/ Lapse(i)
    \/ \E w \in Workers : Lease(w) \/ Complete(w) \/ Fail(w) \/ Crash(w)
    \/ \E e \in Engagements : Reclaim(e)

\* Workers keep asking for work and settle what they hold, and the clock runs.
Fairness ==
    /\ \A w \in Workers : WF_vars(Lease(w)) /\ WF_vars(Complete(w) \/ Fail(w))
    /\ \A i \in Items : WF_vars(Lapse(i))

Spec == Init /\ [][Next]_vars
FairSpec == Spec /\ Fairness

-----------------------------------------------------------------------------
(***************************************************************************)
(* Properties                                                              *)
(***************************************************************************)

\* Every column and every worker's hand has the type the schema and the
\* WorkItem dataclass give it.
TypeOK ==
    /\ status \in [Items -> Statuses]
    /\ attempt \in [Items -> Nat]
    /\ lapsed \in [Items -> BOOLEAN]
    /\ createdAt \in [Items -> Nat]
    /\ resultOf \in [Items -> Nat]
    /\ held \in [Workers -> Holding \union {Nothing}]
    /\ failures \in [Items -> Nat]
    /\ reclaims \in [Items -> Nat]
    /\ outlived \subseteq Items
    /\ disruptions \in Nat

\* What an engagement has reserved never exceeds the cap, whoever enqueues,
\* retries or gives up in between (enqueue_work_item: "cannot both slip past a
\* shared cap").
BudgetWithinCap == \A e \in Engagements : EngagementBudgetReserved(e) <= BudgetCap

\* An item that was ever dispatched had all its dependencies done, and they
\* still are: no retry, reclaim or late settlement undoes one.
DependenciesDone ==
    \A i \in Items : attempt[i] > 0 => \A d \in DependsOn[i] : status[d] = "done"

\* Each dispatch ends in exactly one recorded failure, one reclaim or the
\* settled row: "a crash costs at most one attempt" and none is charged twice.
AttemptAccounting ==
    \A i \in Items :
        attempt[i] = failures[i] + reclaims[i] + IF status[i] \in {"leased", "done"} THEN 1 ELSE 0

\* An item is given up only after max_attempts dispatches.
DeadMeansExhausted == \A i \in Items : status[i] = "dead" => attempt[i] >= MaxAttempts

\* As long as no lease of an item lapsed under its worker, a worker that holds
\* the item holds its current lease, no two workers act on it at a time and the
\* recorded result is the last attempt's, whatever crashed or was retried.
HeldIsCurrent ==
    /\ \A w \in Workers :
          held[w] # Nothing /\ held[w].item \notin outlived => HoldsCurrentLease(w, held[w].item)
    /\ \A w1, w2 \in Workers :
          /\ held[w1] # Nothing /\ held[w2] # Nothing
          /\ held[w1].item = held[w2].item /\ held[w1].item \notin outlived
          => w1 = w2
    /\ \A i \in Items \ outlived : status[i] = "done" => resultOf[i] = attempt[i]

\* A settled row is final: no reclaim, late complete or late fail changes it,
\* so replay cannot dispatch finished work again.
SettledIsFinal ==
    [][\A i \in Items :
        status[i] \in {"done", "dead"} =>
            /\ status'[i] = status[i]
            /\ resultOf'[i] = resultOf[i]
            /\ attempt'[i] = attempt[i]]_vars

\* What the rows of the table say to a caller that knows of no leases.
PhaseOf(s) == CASE s = "pending" -> "waiting" [] s = "leased" -> "taken" [] OTHER -> s
Phase == [i \in Items |-> PhaseOf(status[i])]

Promised == INSTANCE DurableWork WITH phase <- Phase, tries <- attempt, result <- resultOf

\* The queue keeps the promise of DurableWork whatever crashes, lapses or comes
\* late: each transaction takes accepted work whose dependencies are done, puts
\* it back, settles it once with the outcome of one of its own attempts, or
\* gives it up with the attempts used up, and never touches a settled item or,
\* while it does that, another engagement's.
ImplementsDurableWork == Promised!Spec

\* complete "returns True only on the leased -> done transition; False if the
\* item is ... reclaimed ... under a stale worker": a row becomes done by the
\* hand of the worker that holds its current attempt.
StaleWorkerRefused ==
    [][\A i \in Items : status[i] # "done" /\ status'[i] = "done" => resultOf'[i] = attempt[i]]_vars

\* Crash recovery loses no work: in the end every enqueued item is done, dead,
\* or waits for a dependency that will never be done.
NoWorkIsLost ==
    <>[](\A i \in Items :
            \/ status[i] \in {"absent", "done", "dead"}
            \/ /\ status[i] = "pending"
               /\ \E d \in DependsOn[i] : status[d] # "done" \/ EngagementOf[d] # EngagementOf[i])

=============================================================================
