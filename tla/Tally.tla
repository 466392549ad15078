-------------------------------- MODULE Tally --------------------------------
(***************************************************************************)
(* The sum of f[x] over a finite set S, for f with natural values, as the  *)
(* number of unit coins: x contributes the f[x] pairs <<x, 1>> to          *)
(* <<x, f[x]>>.  It is the value of FiniteSetsExt's MapThenSumSet; defined *)
(* by cardinality rather than by a fold so that what the budgets add up to *)
(* can be proved without induction (see TallyLemmas).                      *)
(***************************************************************************)
EXTENDS Naturals, FiniteSets

Coins(f, x) == {x} \X (1..f[x])

Tally(f, S) == Cardinality(UNION {Coins(f, x) : x \in S})
=============================================================================
