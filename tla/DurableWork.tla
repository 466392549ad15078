----------------------------- MODULE DurableWork -----------------------------
(***************************************************************************)
(* What the work-item queue promises, without rows, leases, owners, clocks *)
(* or worker processes: accepted work is taken, and comes back or is       *)
(* settled once.  WorkQueue implements it (ImplementsDurableWork).         *)
(***************************************************************************)
EXTENDS Integers, Tally

CONSTANTS Items, EngagementOf, DependsOn, Reservation, BudgetCap, MaxAttempts

VARIABLES
    phase,     \* where each piece of work stands
    tries,     \* how often it was taken
    result     \* the try whose outcome was recorded, 0 while none was

vars == <<phase, tries, result>>

Phases == {"absent", "waiting", "taken", "done", "dead"}

Siblings(i) == {j \in Items : EngagementOf[j] = EngagementOf[i]}

Init ==
    /\ phase = [i \in Items |-> "absent"]
    /\ tries = [i \in Items |-> 0]
    /\ result = [i \in Items |-> 0]

\* The work of one engagement that is accepted and not given up fits its cap.
Accept(i) ==
    /\ phase[i] = "absent"
    /\ Tally(Reservation, {j \in Siblings(i) : phase[j] \in {"waiting", "taken", "done"}})
           + Reservation[i] <= BudgetCap
    /\ phase' = [phase EXCEPT ![i] = "waiting"]
    /\ UNCHANGED <<tries, result>>

\* Work an engagement's holders lost, or failed with tries left, waits again.
Returned(back) == [i \in Items |-> IF i \in back THEN "waiting" ELSE phase[i]]

Return(e, back) ==
    /\ back # {}
    /\ \A i \in back : EngagementOf[i] = e /\ phase[i] = "taken"
    /\ phase' = Returned(back)
    /\ UNCHANGED <<tries, result>>

\* A piece of work is taken, once everything it depends on is done; lost work
\* of the same engagement may come back in the same step.
Take(i, back) ==
    /\ \A j \in back : EngagementOf[j] = EngagementOf[i] /\ phase[j] = "taken"
    /\ Returned(back)[i] = "waiting"
    /\ \A d \in DependsOn[i] : phase[d] = "done" /\ EngagementOf[d] = EngagementOf[i]
    /\ phase' = [Returned(back) EXCEPT ![i] = "taken"]
    /\ tries' = [tries EXCEPT ![i] = tries[i] + 1]
    /\ UNCHANGED result

\* The outcome of one of the tries becomes the outcome, for good.
Settle(i) ==
    /\ phase[i] = "taken"
    /\ \E t \in 1..tries[i] : result' = [result EXCEPT ![i] = t]
    /\ phase' = [phase EXCEPT ![i] = "done"]
    /\ UNCHANGED tries

\* Only work whose tries are used up is given up.
GiveUp(i) ==
    /\ phase[i] = "taken"
    /\ tries[i] >= MaxAttempts
    /\ phase' = [phase EXCEPT ![i] = "dead"]
    /\ UNCHANGED <<tries, result>>

Next ==
    \/ \E i \in Items : Accept(i) \/ Settle(i) \/ GiveUp(i)
    \/ \E i \in Items : \E back \in SUBSET Siblings(i) :
            Take(i, back) \/ Return(EngagementOf[i], back)

Spec == Init /\ [][Next]_vars

=============================================================================
