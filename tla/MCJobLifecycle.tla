--------------------------- MODULE MCJobLifecycle ---------------------------
(* Two servers with a job each and a third started in between or after them:   *)
(* enough for two crashes, a server that recovers the rows of both, a process  *)
(* id given twice, and a contended cap.                                        *)
EXTENDS JobLifecycle, TLC

CONSTANTS j1, j2, s1, s2, s3, p1, p2

MCOwnerOf == (j1 :> s1) @@ (j2 :> s2)
=============================================================================
