--------------------------- MODULE MCEffortBudget ---------------------------
(* Three concurrent calls of two runs, over a budget the size of two of them. *)
EXTENDS EffortBudget, TLC

CONSTANTS c1, c2, c3, r1, r2

MCRunOf == (c1 :> r1) @@ (c2 :> r1) @@ (c3 :> r2)
=============================================================================
