---------------------------- MODULE MCRoutingStack ----------------------------
(* RoutingStack with two tunnel configs whose endpoints differ, and two app   *)
(* configs: a1 advertises the network n1; a2 advertises n1 and the host e2,   *)
(* which is also the endpoint of w2, and pins the client e1.                  *)
EXTENDS RoutingStack

CONSTANTS w1, w2, a1, a2, e1, e2, n1

MCEndpointsOf  == [w \in WgConfigs |-> IF w = w1 THEN {e1} ELSE {e2}]
MCPinnedOf     == [a \in AppConfigs |-> IF a = a1 THEN {} ELSE {e1}]
MCAdvertisedOf == [a \in AppConfigs |-> IF a = a1 THEN {n1} ELSE {n1, e2}]
===============================================================================
