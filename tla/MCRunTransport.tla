---------------------------- MODULE MCRunTransport ----------------------------
(* A small instance of RunTransport: three calls that share a budget of three, *)
(* a driver's share of one, one finding, two hosts in scope and one outside,   *)
(* and a resolver with three answers.                                          *)
EXTENDS RunTransport, TLC

CONSTANTS c1, c2, c3, u1, u2, u3, u4, h1, h2, h3, f1, a1, a2, a3

MCHostOf == (u1 :> h1) @@ (u2 :> h2) @@ (u3 :> h3) @@ (u4 :> h1)
MCFindingOf == [c \in Calls |-> f1]
MCCeilingOf == (c1 :> 1) @@ (c2 :> 2) @@ (c3 :> 1)
MCTargetOf == [c \in Calls |-> u1]
=============================================================================
