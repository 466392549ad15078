---------------------------- MODULE MCRetryRounds ----------------------------
(* A node with a hypothesis and legs and one with a hypothesis only, and three  *)
(* captures, one of them a chain round's alone, under budgets that fit one of   *)
(* them in a sweep or review of round 0.                                        *)
EXTENDS RetryRounds

CONSTANTS both, agentOnly, c1, c2, c3
=============================================================================
