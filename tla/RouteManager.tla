---------------------------- MODULE RouteManager ----------------------------
(***************************************************************************)
(* RouteApplyManager (internal/supervisor/routes.go), one step per file it *)
(* reads, name it resolves and `ip` command it runs.  Apply gives every    *)
(* endpoint address, then every pinned client, a host route through eth0,  *)
(* and then routes the advertised networks to wg0; PinClient adds one host *)
(* route.  Between any two steps the files may be saved, the name of the   *)
(* endpoint may get other addresses, and the device may die.               *)
(*                                                                         *)
(* The module also shows that this implements routes.apply and             *)
(* routes.pin_client of SupervisorActions.  A config there is a text       *)
(* together with the addresses its endpoint has, so a change of the name's *)
(* addresses counts as a save of wg0.conf.                                 *)
(***************************************************************************)
EXTENDS Naturals, FiniteSets

CONSTANTS
  Texts,         \* contents of wg0.conf that ValidateConfig accepts
  AppConfigs,    \* contents of app.yaml that Load, ValidateManagedPaths and
                 \* Generate accept
  Hosts, V6,     \* IPv4 addresses, and IPv6 ones, which are not routed
  Nets,          \* networks, each of which contains every host
  Name,          \* the endpoint is a name to be resolved
  Resolutions,   \* the sets of addresses that Name may have, {} if unresolved
  None,          \* no endpoint, no file, no address
  Garbled,       \* an app.yaml that Load refuses
  EndpointOf,    \* Texts -> the endpoint that ParseConfig returns
  PinnedOf,      \* AppConfigs -> Runtime.PinnedClientRoutes
  BareOf,        \* those written without /32, which ValidateRuntime accepts and
                 \* Apply does not
  AdvertisedOf   \* AppConfigs -> BIRD.AdvertisedRoutes

Prefixes == Hosts \cup Nets

ASSUME RouteAssumption ==
  /\ Hosts \cap Nets = {} /\ Hosts \cap V6 = {}
  /\ Resolutions \subseteq SUBSET (Hosts \cup V6)
  /\ {None, Name} \cap (Hosts \cup V6 \cup Texts \cup AppConfigs) = {}
  /\ None \notin Texts \X SUBSET Hosts
  /\ Garbled \notin AppConfigs \cup {None}
  /\ EndpointOf \in [Texts -> Hosts \cup V6 \cup {Name, None}]
  /\ PinnedOf \in [AppConfigs -> SUBSET Hosts]
  /\ \A a \in AppConfigs : BareOf[a] \subseteq PinnedOf[a]
  /\ AdvertisedOf \in [AppConfigs -> (SUBSET Prefixes) \ {{}}]

VARIABLES
  appFile, wgFile,   \* app.yaml and wg0.conf
  dns,               \* the addresses that Name has
  dev,               \* wg0: "absent" or "up"
  peer,              \* the address that `wg setconf` gave the device's peer
  wconf,             \* history: the device's text and the addresses it had then
  table,             \* routing table: the device each prefix is routed to
  pc, act, res,      \* next step; the operation, or the last one; its result
  cfg, text, ips,    \* app.yaml, wg0.conf and the endpoint's addresses as read
  todo,              \* routes still to be put, by kind
  pinned,            \* history: ips of the Apply that last put a tunnel route,
                     \* less what it advertises
  routed,            \* history: the configs of the last Apply that left one
  before,            \* history: table before the operation, less what died
  view               \* history: wg0.conf and its addresses as the operation saw
                     \* them, and as they are before it has looked

fileVars == <<appFile, wgFile, dns>>
device   == <<dev, peer, wconf>>
readVars == <<cfg, text, ips>>
history  == <<routed, before, view>>
vars     == <<fileVars, device, table, pc, act, res, readVars, todo, pinned, history>>

NoRoutes == [endpoint |-> {}, pin |-> {}, net |-> {}]

TypeOK ==
  /\ appFile \in AppConfigs \cup {None, Garbled} /\ wgFile \in Texts \cup {None}
  /\ dns \in Resolutions
  /\ dev \in {"absent", "up"}
  /\ peer \in Hosts \cup {None}
  /\ wconf \in (Texts \X SUBSET Hosts) \cup {None}
  /\ table \in [Prefixes -> {"none", "eth0", "wg0"}]
  /\ pc \in {"idle", "load", "read", "resolve", "gateway", "replace", "setconf"}
  /\ act \in {"none", "apply", "pin", "start"} /\ res \in {"none", "ok", "error"}
  /\ cfg \in AppConfigs \cup {None} /\ text \in Texts \cup {None}
  /\ ips \subseteq Hosts
  /\ todo \in [endpoint : SUBSET Hosts, pin : SUBSET Hosts, net : SUBSET Prefixes]
  /\ pinned \subseteq Hosts
  /\ routed \in ((Texts \X SUBSET Hosts) \X AppConfigs) \cup {<<>>}
  /\ before \in [Prefixes -> {"none", "eth0", "wg0"}]
  /\ view \in (Texts \X SUBSET Hosts) \cup {None}

----------------------------------------------------------------------------
(* The endpoint's addresses *)

\* Mutant of endpointAddrs: IPv6 answers are kept.
endpointAddrsAll(endpoint, answers) ==
  CASE endpoint \in Hosts -> {endpoint}
    [] endpoint = Name -> answers
    [] OTHER -> {}

\* IPv4 addresses of an endpoint while Name has the addresses answers; {} is
\* every error of endpointAddrs.
endpointAddrs(endpoint, answers) ==
  CASE endpoint \in Hosts -> {endpoint}
    [] endpoint = Name -> answers \cap Hosts
    [] OTHER -> {}

\* wg0.conf as it is, with the addresses its endpoint has now.
ViewOf(t, answers) ==
  IF t = None THEN None ELSE <<t, endpointAddrs(EndpointOf[t], answers)>>

Init ==
  /\ appFile \in AppConfigs \cup {None, Garbled} /\ wgFile \in Texts \cup {None}
  /\ dns \in Resolutions
  /\ dev = "absent" /\ peer = None /\ wconf = None
  /\ table = [p \in Prefixes |-> "none"]
  /\ pc = "idle" /\ act = "none" /\ res = "none"
  /\ cfg = None /\ text = None /\ ips = {} /\ todo = NoRoutes
  /\ pinned = {} /\ routed = <<>> /\ before = table /\ view = ViewOf(wgFile, dns)

----------------------------------------------------------------------------
(* The manager *)

Return(r) == pc' = "idle" /\ res' = r

Fail == Return("error") /\ UNCHANGED <<device, table, readVars, todo, pinned>>

\* PinClient is given the address of a client, parsed.
Begin(a, client) ==
  /\ pc = "idle"
  /\ pc' = IF a = "start" THEN "setconf" ELSE "load"
  /\ act' = a /\ res' = "none"
  /\ cfg' = None /\ text' = None /\ ips' = {}
  /\ todo' = [NoRoutes EXCEPT !.pin = IF a = "pin" THEN {client} ELSE {}]
  /\ UNCHANGED <<fileVars, device, table, pinned>>

\* Load takes AppConfigs and None and rejects Garbled.  None is what Generate then
\* rejects: a missing file, which loads as the defaults without an ASN, or one
\* whose BIRD settings are bad.  PinClient, without Generate, goes on with it.
Loads == appFile \in AppConfigs \/ (appFile = None /\ act = "pin")

LoadApp ==
  /\ pc = "load"
  /\ \/ /\ Loads
        /\ cfg' = appFile
        /\ pc' = IF act = "pin" THEN "gateway" ELSE "read"
        /\ UNCHANGED <<device, table, res, text, ips, todo, pinned>>
     \/ ~Loads /\ Fail
  /\ UNCHANGED <<fileVars, act>>

ReadWG ==
  /\ pc = "read"
  /\ \/ /\ wgFile # None
        /\ text' = wgFile
        /\ pc' = "resolve"
        /\ UNCHANGED <<device, table, res, cfg, ips, todo, pinned>>
     \/ wgFile = None /\ Fail
  /\ UNCHANGED <<fileVars, act>>

\* The name is resolved a second time, `wg setconf` having done so before.
Resolve ==
  /\ pc = "resolve"
  /\ \/ /\ ips' = endpointAddrs(EndpointOf[text], dns) /\ ips' # {}
        /\ todo' = [endpoint |-> ips', pin |-> PinnedOf[cfg], net |-> AdvertisedOf[cfg]]
        /\ pc' = "gateway"
        /\ UNCHANGED <<device, table, res, cfg, text, pinned>>
     \/ Fail
  /\ UNCHANGED <<fileVars, act>>

\* Mutant of kind: the advertised networks come first.
kindNetFirst == IF todo.net # {} THEN "net"
                ELSE IF todo.endpoint # {} THEN "endpoint" ELSE "pin"

\* The kind of the route that is next.
kind == IF todo.endpoint # {} THEN "endpoint"
        ELSE IF todo.pin # {} THEN "pin" ELSE "net"

\* `ip route show default`, run anew for each host route unless app.yaml names
\* a gateway.  Which gateway the route then has is left out.
ShowDefault ==
  /\ pc = "gateway"
  /\ \/ pc' = "replace" /\ UNCHANGED <<device, table, res, readVars, todo, pinned>>
     \/ Fail
  /\ UNCHANGED <<fileVars, act>>

\* `ip route replace`; the operation ends with its last route.
Put(p, d) ==
  /\ table' = [table EXCEPT ![p] = d]
  /\ todo' = [todo EXCEPT ![kind] = @ \ {p}]
  /\ IF todo' = NoRoutes THEN Return("ok")
     ELSE /\ pc' = IF todo'.endpoint \cup todo'.pin # {} THEN "gateway" ELSE "replace"
          /\ UNCHANGED res
  /\ UNCHANGED <<device, readVars>>

\* Mutant of applyHostRoute: a route that cannot be put is passed over.
applyHostRouteGoesOn ==
  /\ pc = "replace" /\ kind # "net"
  /\ \E h \in todo[kind] : Put(h, "eth0") \/ Put(h, table[h])
  /\ UNCHANGED <<fileVars, act, pinned>>

\* Apply refuses a pinned client without /32 before it runs a command for it.
applyHostRoute ==
  /\ pc = "replace" /\ kind # "net"
  /\ \/ \E h \in todo[kind] :
          /\ act = "apply" /\ kind = "pin" => h \notin BareOf[cfg]
          /\ Put(h, "eth0")
          /\ UNCHANGED pinned
     \/ Fail
  /\ UNCHANGED <<fileVars, act>>

applyNet ==
  /\ pc = "replace" /\ kind = "net"
  /\ \/ \E p \in todo.net :
          /\ dev = "up"
          /\ Put(p, "wg0")
          /\ pinned' = ips \ AdvertisedOf[cfg]
     \/ Fail
  /\ UNCHANGED <<fileVars, act>>

\* wg.start: `wg setconf` resolves the name and takes one of its addresses.
SetConf ==
  /\ pc = "setconf"
  /\ \/ /\ wgFile # None
        /\ dev' = "up" /\ wconf' = ViewOf(wgFile, dns)
        /\ peer' \in (IF wconf'[2] = {} THEN {None} ELSE wconf'[2])
        /\ Return("ok")
        /\ UNCHANGED <<table, readVars, todo, pinned>>
     \/ wgFile = None /\ Fail
  /\ UNCHANGED <<fileVars, act>>

----------------------------------------------------------------------------
(* Files, names, and the device *)

managerVars == <<pc, act, res, readVars, todo, pinned>>

SaveApp(a) ==
  /\ appFile' = a
  /\ UNCHANGED <<wgFile, dns, device, table, managerVars>>

SaveWg(t) ==
  /\ wgFile' = t
  /\ UNCHANGED <<appFile, dns, device, table, managerVars>>

\* The name gets other addresses, or none.
Rename(answers) ==
  /\ dns' = answers
  /\ UNCHANGED <<appFile, wgFile, device, table, managerVars>>

WithoutWg0(t) == [p \in Prefixes |-> IF t[p] = "wg0" THEN "none" ELSE t[p]]

\* The device is deleted or dies, and its routes with it.
DeviceDies ==
  /\ dev = "up"
  /\ dev' = "absent" /\ peer' = None /\ wconf' = None
  /\ table' = WithoutWg0(table)
  /\ UNCHANGED <<fileVars, managerVars>>

----------------------------------------------------------------------------

\* Tunnel routes that the operation has put and that are still there.
Left == IF ips = {} THEN {} ELSE {p \in AdvertisedOf[cfg] \ todo'.net : table'[p] = "wg0"}

Remember ==
  /\ routed' = IF pc # "idle" /\ pc' = "idle" /\ Left # {} THEN <<view, cfg>> ELSE routed
  /\ before' = IF pc = "idle" \/ pc' = "idle" THEN table'
               ELSE IF dev' = dev THEN before ELSE WithoutWg0(before)
  /\ view' = IF pc # "idle" /\ (pc' = "idle" \/ ips # {}) THEN view
             ELSE IF pc' = "idle" /\ <<wgFile, dns>>' = <<wgFile, dns>> THEN view
             ELSE ViewOf(IF pc' # "idle" /\ text' # None THEN text' ELSE wgFile', dns')

Next ==
  /\ \/ \E a \in {"apply", "start"} : Begin(a, None)
     \/ \E h \in Hosts : Begin("pin", h)
     \/ LoadApp \/ ReadWG \/ Resolve \/ ShowDefault \/ applyHostRoute \/ applyNet
     \/ SetConf
     \/ \E a \in AppConfigs \cup {None, Garbled} : SaveApp(a)
     \/ \E t \in Texts \cup {None} : SaveWg(t)
     \/ \E answers \in Resolutions : Rename(answers)
     \/ DeviceDies
  /\ Remember

Spec == Init /\ [][Next]_vars

----------------------------------------------------------------------------
(* Properties *)

\* routes.go:92-117: at every moment, between any two commands of an Apply and
\* after any failure, if a route leads into the tunnel then the addresses that
\* the endpoint had for the Apply that put it have host routes outside.
PinnedBeforeRouted ==
  (\E p \in Prefixes : table[p] = "wg0") => \A e \in pinned : table[e] = "eth0"

\* routes.go:91-119: an Apply that reports success has put every route of the
\* settings it read, and as long as its device lives and nothing else is run they
\* are all there: no command it skipped, no route that a later command of its own
\* replaced, none lost with a device that died in the middle.
AppliedMeansRouted ==
  pc = "idle" /\ act = "apply" /\ res = "ok" /\ dev = "up"
    => /\ \A p \in AdvertisedOf[cfg] : table[p] = "wg0"
       /\ \A h \in (ips \cup PinnedOf[cfg]) \ AdvertisedOf[cfg] : table[h] = "eth0"

Host == INSTANCE SupervisorActions WITH
  WgConfigs <- Texts \X SUBSET Hosts, NoConfig <- None,
  EndpointsOf <- [c \in Texts \X SUBSET Hosts |-> c[2]],
  Faulty <- {"routes.apply", "routes.pin_client"},
  wgFile <- view, appFile <- IF appFile = Garbled THEN None ELSE appFile,
  table <- before, bird <- "down", spare <- FALSE, fresh <- FALSE

RouteStep ==
  IF pc # "idle" /\ pc' = "idle"
  THEN CASE act = "apply" -> Host!applyRoutes(cfg, res' = "ok")
         [] act = "pin"   -> Host!pinClientRoute(cfg, res' = "ok")
         [] act = "start" -> Host!startWG(res' = "ok")
  ELSE \/ UNCHANGED Host!hostVars
       \/ Host!SaveWg(view') \/ Host!SaveApp(IF appFile' = Garbled THEN None ELSE appFile')
       \/ Host!DeviceDies

\* routes.go:67-169 against the route actions that the composed system is built
\* on: Apply and PinClient, with every file, name and device that changes
\* between their commands, amount to one step taken when they return.
ImplementsRoutes == [][RouteStep]_vars

\* README.md:116-118: the peer's endpoint is pinned to the underlay "so the
\* tunnel's own UDP transport does not get routed back into `wg0`": when
\* routes.apply has succeeded on the text that the device runs.
PeerOutsideTunnel ==
  pc = "idle" /\ act = "apply" /\ res = "ok" /\ peer # None /\ wconf[1] = text
    => \/ table[peer] = "eth0" \/ peer \in AdvertisedOf[cfg]
       \/ \A n \in Nets : table[n] # "wg0"
==============================================================================
