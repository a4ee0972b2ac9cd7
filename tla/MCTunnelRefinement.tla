------------------------- MODULE MCTunnelRefinement -------------------------
(* WireGuardManager, and the tunnel it implements, with three configs: c1 has *)
(* an address and an MTU of its own, c2 another address and the default MTU,  *)
(* c3 neither.                                                                *)
EXTENDS TunnelRefinement

CONSTANTS c1, c2, c3, a1, a2

MCAddressesOf == [c \in Configs |-> CASE c = c1 -> {a1} [] c = c2 -> {a2} [] c = c3 -> {}]
MCMTUOf       == [c \in Configs |-> IF c = c1 THEN 1280 ELSE 0]
=============================================================================
