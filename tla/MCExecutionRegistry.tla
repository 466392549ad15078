------------------------- MODULE MCExecutionRegistry -------------------------
(* Small instances of ExecutionRegistry: two or three calls of one check, a    *)
(* call of another check and an audit that decides both, for two cases, three  *)
(* at a time.                                                                  *)
EXTENDS ExecutionRegistry

CONSTANTS c1, c2, c3, c4, c5, k1, k2, e1, e2

MCKeysOf == [c \in Callers |-> CASE c = c5 -> {k1, k2} [] c = c4 -> {k2} [] OTHER -> {k1}]
MCCaseOf == [c \in Callers |-> IF c \in {c3, c5} THEN e2 ELSE e1]
=============================================================================
