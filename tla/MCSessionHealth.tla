--------------------------- MODULE MCSessionHealth ---------------------------
(* Two sends of one session over a private route, a refused one and one with   *)
(* objects of both kinds, and a window that two denied routes fill.            *)
EXTENDS SessionHealth

Calls == {"s1", "s2"}
PrivateRoutes == {"own", "mixed"}
RefusedRoutes == {"others", "mixed"}
=============================================================================
