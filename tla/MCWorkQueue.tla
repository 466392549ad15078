---------------------------- MODULE MCWorkQueue ----------------------------
(* A small instance of WorkQueue: engagement e1 has two workers and a chain   *)
(* i1 <- i2 with an item i4 that competes with them for the cap; engagement   *)
(* e2 has one worker and one item.                                            *)
EXTENDS WorkQueue, TLC

CONSTANTS i1, i2, i3, i4, w1, w2, w3, e1, e2, none

MCItems == {i1, i2, i3, i4}
MCEngagementOf == (i1 :> e1) @@ (i2 :> e1) @@ (i3 :> e2) @@ (i4 :> e1)
MCServedBy == (w1 :> e1) @@ (w2 :> e1) @@ (w3 :> e2)
MCPriority == (i1 :> 0) @@ (i2 :> 1) @@ (i3 :> 0) @@ (i4 :> 0)
MCDependsOn == (i1 :> {}) @@ (i2 :> {i1}) @@ (i3 :> {}) @@ (i4 :> {})
MCReservation == (i1 :> 2) @@ (i2 :> 1) @@ (i3 :> 2) @@ (i4 :> 2)
=============================================================================
