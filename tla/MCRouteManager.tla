--------------------------- MODULE MCRouteManager ---------------------------
(* RouteManager with a text whose endpoint is a name, one whose endpoint is  *)
(* the address h1 and one that has none; a1 has a pinned client without /32, *)
(* a2 pins h2 and also advertises it, along with a network.                  *)
EXTENDS RouteManager

CONSTANTS t1, t2, t3, a1, a2, h1, h2, n1

MCEndpointOf   == [t \in Texts |-> CASE t = t1 -> Name [] t = t2 -> h1 [] t = t3 -> None]
MCPinnedOf     == [a \in AppConfigs |-> {h2}]
MCBareOf       == [a \in AppConfigs |-> IF a = a1 THEN {h2} ELSE {}]
MCAdvertisedOf == [a \in AppConfigs |-> IF a = a1 THEN {n1} ELSE {n1, h2}]
=============================================================================
