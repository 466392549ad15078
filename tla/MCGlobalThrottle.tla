-------------------------- MODULE MCGlobalThrottle --------------------------
(* Three callers, a rate below one request a second and one above it: a second *)
(* is two ticks and a request takes four tokens.                               *)
EXTENDS GlobalThrottle, TLC

CONSTANTS c1, c2, c3

=============================================================================
