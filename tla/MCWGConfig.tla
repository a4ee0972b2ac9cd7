------------------------------ MODULE MCWGConfig ------------------------------
(* WGConfig with a config of two peers, both with an endpoint, and edits that *)
(* add a key, a comment, a line that does not parse or one that is too long.  *)
EXTENDS WGConfig, TLC

CONSTANTS k1, k2, k3, k4, addr, mtu, e1, e2

MCAccepts ==
  [d \in Directives |->
     CASE d \in isSensitiveDirective -> Keys
       [] d = Address -> {addr} [] d = MTU -> {mtu}
       [] d = Endpoint -> {e1, e2} [] OTHER -> {}]

Header(s) == [kind |-> "header", key |-> s, val |-> Empty]
Dir(k, v) == [kind |-> "directive", key |-> k, val |-> v]

OnePeer  == <<Header(Interface), Dir("privatekey", k1), Dir("address", addr),
              Header(Peer), Dir("publickey", k2), Dir("presharedkey", k3)>>
TwoPeers == <<Header(Interface), Dir("privatekey", k1), Dir("mtu", mtu),
              Header(Peer), Dir("publickey", k2), Dir("endpoint", e1),
              Header(Peer), Dir("publickey", k3), Dir("endpoint", e2)>>

MCPlaced == {TwoPeers}
MCPastes == {OnePeer, [OnePeer EXCEPT ![2].val = Redacted]}
MCLines ==
  {Dir("publickey", k4), Dir("privatekey", k4), Dir("publickey", Redacted),
   [kind |-> "comment", key |-> "#", val |-> Redacted],
   [kind |-> "comment", key |-> ";", val |-> k4],
   [kind |-> "junk", key |-> "", val |-> Empty],
   [kind |-> "long", key |-> "allowedips", val |-> Empty]}
UserSymmetry == Permutations(Users)
===============================================================================
