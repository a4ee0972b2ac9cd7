------------------------- MODULE RouteManagerProofs -------------------------
(***************************************************************************)
(* Proofs about RouteManager for any configs, hosts, networks and          *)
(* addresses of the endpoint's name: the endpoint is pinned before         *)
(* anything is routed into the tunnel, an Apply that reports success has   *)
(* put every route, and the manager implements the route actions that the  *)
(* composed system is built on.                                            *)
(***************************************************************************)
EXTENDS RouteManager, TLAPS

\* The stage at which the commands of an Apply run.
Applying == pc # "idle" /\ ips # {}

\* What an operation has read by the time it is at a step.
Control ==
  /\ pc = "load" => act \in {"apply", "pin"} /\ cfg = None /\ text = None
  /\ pc = "read" => act = "apply" /\ cfg \in AppConfigs /\ text = None
  /\ pc = "resolve" => act = "apply" /\ cfg \in AppConfigs /\ text \in Texts
  /\ pc = "setconf" => act = "start" /\ text = None
  /\ pc \in {"load", "read", "resolve", "setconf"} => ips = {}
  /\ pc \in {"gateway", "replace"} =>
       \/ act = "apply" /\ ips # {} /\ cfg \in AppConfigs /\ text \in Texts
       \/ act = "pin" /\ ips = {} /\ text = None
  /\ pc # "idle" /\ act = "pin" => \E h \in Hosts : todo = [NoRoutes EXCEPT !.pin = {h}]

\* The view is of wg0.conf, or of the text that was read of it, as long as the
\* endpoint is not resolved; after that it is what the Apply works with.
Viewed ==
  /\ Applying => view = <<text, ips>>
  /\ pc # "idle" /\ ips = {} => view = ViewOf(IF text = None THEN wgFile ELSE text, dns)

\* Routes that the Apply has put: hosts outside and prefixes inside the tunnel.
HostsPut == (ips \ todo.endpoint) \cup (PinnedOf[cfg] \ todo.pin)
NetsPut  == AdvertisedOf[cfg] \ todo.net

\* An Apply puts its routes in order, and the table is the one before it with
\* these changes, less what was lost with the device.
InOrder ==
  Applying =>
    /\ todo.endpoint \subseteq ips /\ todo.pin \subseteq PinnedOf[cfg]
    /\ todo.net # {} /\ todo.net \subseteq AdvertisedOf[cfg]
    /\ todo.endpoint # {} => todo.pin = PinnedOf[cfg]
    /\ todo.endpoint \cup todo.pin # {} => todo.net = AdvertisedOf[cfg]

Progress ==
  /\ ~Applying => table = before
  /\ Applying => \A p \in Prefixes :
       table[p] = IF p \in NetsPut THEN IF dev = "up" THEN "wg0" ELSE "none"
                  ELSE IF p \in HostsPut THEN "eth0" ELSE before[p]

Inv == TypeOK /\ Control /\ Viewed /\ InOrder /\ Progress /\ PinnedBeforeRouted

USE RouteAssumption

----------------------------------------------------------------------------
(* Operators *)

\* endpointAddrs returns IPv4 addresses, so a view is of known hosts.
LEMMA AddrsType ==
  ASSUME NEW e, NEW answers
  PROVE  endpointAddrs(e, answers) \subseteq Hosts
BY DEF endpointAddrs

LEMMA ViewType ==
  ASSUME NEW t \in Texts \cup {None}, NEW answers
  PROVE  /\ ViewOf(t, answers) \in (Texts \X SUBSET Hosts) \cup {None}
         /\ t \in Texts => /\ ViewOf(t, answers) \in Texts \X SUBSET Hosts
                           /\ ViewOf(t, answers) # None
                           /\ ViewOf(t, answers) = <<t, endpointAddrs(EndpointOf[t], answers)>>
         /\ ViewOf(None, answers) = None
BY AddrsType DEF ViewOf

\* Losing the device drops its routes and leaves the others alone.
LEMMA DropsOnlyWg0 ==
  ASSUME NEW t \in [Prefixes -> {"none", "eth0", "wg0"}]
  PROVE  /\ WithoutWg0(t) \in [Prefixes -> {"none", "eth0", "wg0"}]
         /\ \A p \in Prefixes : WithoutWg0(t)[p] = IF t[p] = "wg0" THEN "none" ELSE t[p]
BY DEF WithoutWg0

Routes == [endpoint : SUBSET Hosts, pin : SUBSET Hosts, net : SUBSET Prefixes]

\* What `ip route replace` for p leaves to be done.
LEMMA Remaining ==
  ASSUME todo \in Routes, NEW p, todo' = [todo EXCEPT ![kind] = @ \ {p}]
  PROVE  /\ todo' \in Routes
         /\ todo'.endpoint = IF kind = "endpoint" THEN todo.endpoint \ {p} ELSE todo.endpoint
         /\ todo'.pin = IF kind = "pin" THEN todo.pin \ {p} ELSE todo.pin
         /\ todo'.net = IF kind = "net" THEN todo.net \ {p} ELSE todo.net
<1>1. CASE kind = "endpoint"
  BY <1>1 DEF Routes
<1>2. CASE kind = "pin"
  BY <1>2 DEF Routes
<1>3. CASE kind = "net"
  BY <1>3 DEF Routes
<1> QED
  BY <1>1, <1>2, <1>3 DEF kind

----------------------------------------------------------------------------
(* What every step keeps of the history *)

USE DEF fileVars, device, readVars, history, managerVars

\* Only an Apply that has read both files and resolved the endpoint puts routes.
LEMMA ApplyingHasRead ==
  ASSUME Inv, Applying
  PROVE  /\ pc \in {"gateway", "replace"} /\ act = "apply"
         /\ cfg \in AppConfigs /\ text \in Texts
         /\ view = <<text, ips>> /\ view \in Texts \X SUBSET Hosts
<1>1. pc \in {"gateway", "replace"} /\ act = "apply" /\ cfg \in AppConfigs /\ text \in Texts
  BY DEF Inv, TypeOK, Control, Applying
<1>2. view = <<text, ips>> /\ ips \in SUBSET Hosts
  BY DEF Inv, TypeOK, Viewed
<1> QED
  BY <1>1, <1>2

LEMMA RememberType ==
  ASSUME Inv, Remember, wgFile' \in Texts \cup {None}, text' \in Texts \cup {None},
         table' \in [Prefixes -> {"none", "eth0", "wg0"}]
  PROVE  /\ routed' \in ((Texts \X SUBSET Hosts) \X AppConfigs) \cup {<<>>}
         /\ before' \in [Prefixes -> {"none", "eth0", "wg0"}]
         /\ view' \in (Texts \X SUBSET Hosts) \cup {None}
<1>1. ASSUME Applying
      PROVE  <<view, cfg>> \in (Texts \X SUBSET Hosts) \X AppConfigs
  BY <1>1, ApplyingHasRead
<1>2. pc # "idle" /\ Left # {} => Applying
  BY DEF Left, Applying
<1>3. routed' \in ((Texts \X SUBSET Hosts) \X AppConfigs) \cup {<<>>}
  BY <1>1, <1>2 DEF Remember, Inv, TypeOK
<1>4. before' \in [Prefixes -> {"none", "eth0", "wg0"}]
  BY DropsOnlyWg0 DEF Remember, Inv, TypeOK
<1>5. view' \in (Texts \X SUBSET Hosts) \cup {None}
  BY ViewType DEF Remember, Inv, TypeOK
<1> QED
  BY <1>3, <1>4, <1>5

\* The view is settled by the Resolve of an Apply and follows the files before.
LEMMA RememberView ==
  ASSUME Inv, Remember,
         pc' # "idle" /\ Applying => text' = text /\ ips' = ips,
         pc' # "idle" /\ ~Applying /\ ips' # {} =>
           text' \in Texts /\ ips' = endpointAddrs(EndpointOf[text'], dns')
  PROVE  Viewed'
<1>1. CASE pc' = "idle"
  BY <1>1 DEF Viewed, Applying
<1>2. CASE pc' # "idle" /\ Applying
  BY <1>2 DEF Remember, Inv, Viewed, Applying
<1>3. CASE pc' # "idle" /\ ~Applying
  <2>1. view' = ViewOf(IF text' # None THEN text' ELSE wgFile', dns')
    BY <1>3 DEF Remember, Applying
  <2>2. CASE ips' = {}
    BY <1>3, <2>1, <2>2 DEF Viewed, Applying
  <2>3. CASE ips' # {}
    BY <1>3, <2>1, <2>3, ViewType DEF Viewed, Applying
  <2> QED
    BY <2>2, <2>3
<1> QED
  BY <1>1, <1>2, <1>3

\* A failed command ends the operation with what it has done so far.
LEMMA FailInv ==
  ASSUME Inv, Remember, pc # "idle", Fail, UNCHANGED <<fileVars, act>>
  PROVE  Inv'
<1> USE DEF Fail, Return
<1>1. TypeOK'
  BY RememberType DEF Inv, TypeOK
<1>2. Control' /\ Viewed' /\ InOrder'
  BY DEF Control, Viewed, InOrder, Applying
<1>3. Progress'
  BY DEF Progress, Applying, Remember
<1>4. PinnedBeforeRouted'
  BY DEF Inv, PinnedBeforeRouted
<1> QED
  BY <1>1, <1>2, <1>3, <1>4 DEF Inv

----------------------------------------------------------------------------
(* Reading and resolving *)

LEMMA BeginInv ==
  ASSUME NEW a \in {"apply", "start", "pin"}, NEW client, a = "pin" => client \in Hosts,
         Inv, Remember, Begin(a, client)
  PROVE  Inv'
<1> DEFINE mine == IF a = "pin" THEN {client} ELSE {}
<1>1. todo' = [endpoint |-> {}, pin |-> mine, net |-> {}]
  BY DEF Begin, NoRoutes
<1>2. todo' \in Routes
  BY <1>1 DEF Routes
<1>3. TypeOK'
  BY <1>2, RememberType DEF Begin, Inv, TypeOK, Routes
<1>4. a = "pin" => todo' = [NoRoutes EXCEPT !.pin = {client}]
  BY DEF Begin
<1>5. Control'
  BY <1>4 DEF Begin, Control
<1>6. Viewed'
  BY RememberView DEF Begin, Applying
<1>7. InOrder' /\ Progress'
  BY DEF Begin, InOrder, Progress, Applying, Remember
<1>8. PinnedBeforeRouted'
  BY DEF Begin, Inv, PinnedBeforeRouted
<1> QED
  BY <1>3, <1>5, <1>6, <1>7, <1>8 DEF Inv

LEMMA LoadAppInv ==
  ASSUME Inv, Remember, LoadApp
  PROVE  Inv'
<1>1. CASE Fail
  BY <1>1, FailInv DEF LoadApp
<1>2. CASE ~Fail
  <2>1. /\ pc = "load" /\ Loads /\ cfg' = appFile
        /\ pc' = IF act = "pin" THEN "gateway" ELSE "read"
        /\ UNCHANGED <<fileVars, act, device, table, res, text, ips, todo, pinned>>
    BY <1>2 DEF LoadApp
  <2>2. /\ cfg' \in AppConfigs \cup {None}
        /\ act # "pin" => cfg' \in AppConfigs
    BY <2>1 DEF Loads
  <2>3. TypeOK'
    BY <2>1, <2>2, RememberType DEF Inv, TypeOK
  <2>4. Control'
    BY <2>1, <2>2 DEF Inv, TypeOK, Control
  <2>5. Viewed'
    BY <2>1, RememberView DEF Inv, Control, Applying
  <2>6. InOrder' /\ Progress'
    BY <2>1 DEF Inv, Control, InOrder, Progress, Applying, Remember
  <2>7. PinnedBeforeRouted'
    BY <2>1 DEF Inv, PinnedBeforeRouted
  <2> QED
    BY <2>3, <2>4, <2>5, <2>6, <2>7 DEF Inv
<1> QED
  BY <1>1, <1>2

LEMMA ReadWGInv ==
  ASSUME Inv, Remember, ReadWG
  PROVE  Inv'
<1>1. CASE Fail
  BY <1>1, FailInv DEF ReadWG
<1>2. CASE ~Fail
  <2>1. /\ pc = "read" /\ wgFile # None /\ text' = wgFile /\ pc' = "resolve"
        /\ UNCHANGED <<fileVars, act, device, table, res, cfg, ips, todo, pinned>>
    BY <1>2 DEF ReadWG
  <2>2. text' \in Texts
    BY <2>1 DEF Inv, TypeOK
  <2>3. TypeOK'
    BY <2>1, <2>2, RememberType DEF Inv, TypeOK
  <2>4. Control'
    BY <2>1, <2>2 DEF Inv, Control
  <2>5. Viewed'
    BY <2>1, RememberView DEF Inv, Control, Applying
  <2>6. InOrder' /\ Progress'
    BY <2>1 DEF Inv, Control, InOrder, Progress, Applying, Remember
  <2>7. PinnedBeforeRouted'
    BY <2>1 DEF Inv, PinnedBeforeRouted
  <2> QED
    BY <2>3, <2>4, <2>5, <2>6, <2>7 DEF Inv
<1> QED
  BY <1>1, <1>2

LEMMA ResolveInv ==
  ASSUME Inv, Remember, Resolve
  PROVE  Inv'
<1>1. CASE Fail
  BY <1>1, FailInv DEF Resolve
<1>2. CASE ~Fail
  <2>1. /\ pc = "resolve" /\ pc' = "gateway"
        /\ ips' = endpointAddrs(EndpointOf[text], dns) /\ ips' # {}
        /\ todo' = [endpoint |-> ips', pin |-> PinnedOf[cfg], net |-> AdvertisedOf[cfg]]
        /\ UNCHANGED <<fileVars, act, device, table, res, cfg, text, pinned>>
    BY <1>2 DEF Resolve
  <2>2. act = "apply" /\ cfg \in AppConfigs /\ text \in Texts /\ ips = {} /\ table = before
    BY <2>1 DEF Inv, Control, Progress, Applying
  <2>3. /\ ips' \subseteq Hosts /\ todo' \in Routes
        /\ todo'.endpoint = ips' /\ todo'.pin = PinnedOf[cfg]
        /\ todo'.net = AdvertisedOf[cfg] /\ todo'.net # {}
    BY <2>1, <2>2, AddrsType DEF Routes
  <2>4. TypeOK'
    BY <2>1, <2>3, RememberType DEF Inv, TypeOK, Routes
  <2>5. Control'
    BY <2>1, <2>2 DEF Inv, Control
  <2>6. Viewed'
    BY <2>1, <2>2, RememberView DEF Applying
  <2>7. InOrder'
    BY <2>1, <2>3 DEF InOrder, Applying
  <2>8. before' = before
    BY <2>1 DEF Remember
  <2>9. Progress'
    BY <2>1, <2>2, <2>3, <2>8 DEF Progress, Applying, HostsPut, NetsPut
  <2>10. PinnedBeforeRouted'
    BY <2>1 DEF Inv, PinnedBeforeRouted
  <2> QED
    BY <2>4, <2>5, <2>6, <2>7, <2>9, <2>10 DEF Inv
<1> QED
  BY <1>1, <1>2

LEMMA ShowDefaultInv ==
  ASSUME Inv, Remember, ShowDefault
  PROVE  Inv'
<1>1. CASE Fail
  BY <1>1, FailInv DEF ShowDefault
<1>2. CASE ~Fail
  <2>1. /\ pc = "gateway" /\ pc' = "replace"
        /\ UNCHANGED <<fileVars, act, device, table, res, readVars, todo, pinned>>
    BY <1>2 DEF ShowDefault
  <2>2. TypeOK'
    BY <2>1, RememberType DEF Inv, TypeOK
  <2>3. Control'
    BY <2>1 DEF Inv, Control
  <2>4. Viewed'
    BY <2>1, RememberView DEF Inv, Control, Applying
  <2>5. InOrder'
    BY <2>1 DEF Inv, InOrder, Applying
  <2>6. before' = before
    BY <2>1 DEF Remember
  <2>7. Progress'
    BY <2>1, <2>6 DEF Inv, Progress, Applying, HostsPut, NetsPut
  <2>8. PinnedBeforeRouted'
    BY <2>1 DEF Inv, PinnedBeforeRouted
  <2> QED
    BY <2>2, <2>3, <2>4, <2>5, <2>7, <2>8 DEF Inv
<1> QED
  BY <1>1, <1>2

----------------------------------------------------------------------------
(* `ip route replace` *)

\* Which kind is next, and what there is of it.
LEMMA KindNext ==
  ASSUME todo \in Routes
  PROVE  /\ kind \in {"endpoint", "pin", "net"}
         /\ kind = "endpoint" => todo.endpoint # {} /\ todo[kind] = todo.endpoint
         /\ kind = "pin" => todo.endpoint = {} /\ todo.pin # {} /\ todo[kind] = todo.pin
         /\ kind = "net" => todo.endpoint = {} /\ todo.pin = {}
BY DEF kind, Routes

\* A route into or out of the tunnel is put; the operation goes on, or ends.
LEMMA PutType ==
  ASSUME Inv, Remember, NEW p \in Prefixes, NEW d \in {"eth0", "wg0"}, Put(p, d),
         UNCHANGED <<fileVars, act>>, pinned' \subseteq Hosts
  PROVE  /\ TypeOK'
         /\ table' = [table EXCEPT ![p] = d]
         /\ \A q \in Prefixes : table'[q] = IF q = p THEN d ELSE table[q]
         /\ UNCHANGED <<device, readVars>>
<1>1. /\ table' = [table EXCEPT ![p] = d]
      /\ UNCHANGED <<device, readVars>>
      /\ todo' = [todo EXCEPT ![kind] = @ \ {p}]
      /\ pc' \in {"idle", "gateway", "replace"} /\ res' \in {"none", "ok", "error"}
  BY DEF Put, Return, Inv, TypeOK
<1>2. todo' \in Routes
  BY <1>1, Remaining DEF Inv, TypeOK, Routes
<1>3. /\ table' \in [Prefixes -> {"none", "eth0", "wg0"}]
      /\ \A q \in Prefixes : table'[q] = IF q = p THEN d ELSE table[q]
  BY <1>1 DEF Inv, TypeOK
<1>4. TypeOK'
  BY <1>1, <1>2, <1>3, RememberType DEF Inv, TypeOK, Routes
<1> QED
  BY <1>1, <1>3, <1>4

\* PinClient ends with its only route.
LEMMA PutPin ==
  ASSUME Inv, Remember, pc = "replace", kind # "net", ~Applying,
         NEW h \in todo[kind], Put(h, "eth0"), UNCHANGED <<fileVars, act, pinned>>
  PROVE  /\ Inv'
         /\ h \in Hosts /\ act = "pin" /\ ips = {} /\ pc' = "idle" /\ res' = "ok"
<1>1. act = "pin" /\ ips = {}
  BY DEF Inv, Control, Applying
<1>2. PICK c \in Hosts : todo = [NoRoutes EXCEPT !.pin = {c}]
  BY <1>1 DEF Inv, Control
<1>3. todo = [endpoint |-> {}, pin |-> {c}, net |-> {}]
  BY <1>2 DEF NoRoutes
<1>4. kind = "pin" /\ todo[kind] = {c} /\ h = c
  BY <1>3, KindNext DEF kind, Routes
<1>5. todo' = NoRoutes
  <2>1. todo' \in Routes /\ todo'.endpoint = {} /\ todo'.pin = {} /\ todo'.net = {}
    BY <1>3, <1>4, Remaining DEF Put, Routes
  <2> QED
    BY <2>1 DEF Routes, NoRoutes
<1>6. pc' = "idle" /\ res' = "ok"
  BY <1>5 DEF Put, Return
<1>7. /\ TypeOK'
      /\ \A q \in Prefixes : table'[q] = IF q = h THEN "eth0" ELSE table[q]
  BY <1>4, PutType DEF Prefixes, Inv, TypeOK
<1>8. Control' /\ Viewed' /\ InOrder'
  BY <1>6 DEF Control, Viewed, InOrder, Applying
<1>9. Progress'
  BY <1>6 DEF Progress, Applying, Remember
<1>10. PinnedBeforeRouted'
  BY <1>7 DEF Inv, TypeOK, PinnedBeforeRouted, Prefixes
<1> QED
  BY <1>1, <1>4, <1>6, <1>7, <1>8, <1>9, <1>10 DEF Inv

\* A host route of an Apply comes before any of its routes into the tunnel, so
\* the Apply goes on after it.
LEMMA PutHost ==
  ASSUME Inv, Remember, pc = "replace", kind # "net", Applying,
         NEW h \in todo[kind], Put(h, "eth0"), UNCHANGED <<fileVars, act, pinned>>
  PROVE  Inv' /\ pc' # "idle"
<1>1. todo \in Routes
  BY DEF Inv, TypeOK, Routes
<1>2. /\ kind \in {"endpoint", "pin"}
      /\ todo.net = AdvertisedOf[cfg] /\ todo.net # {}
      /\ kind = "endpoint" => h \in todo.endpoint /\ h \in ips /\ todo.pin = PinnedOf[cfg]
      /\ kind = "pin" => todo.endpoint = {} /\ h \in todo.pin /\ h \in PinnedOf[cfg]
  BY <1>1, KindNext DEF Inv, InOrder
<1>3. h \in Hosts
  BY <1>1, <1>2 DEF Routes
<1>4. /\ todo' \in Routes
      /\ todo'.endpoint = IF kind = "endpoint" THEN todo.endpoint \ {h} ELSE todo.endpoint
      /\ todo'.pin = IF kind = "pin" THEN todo.pin \ {h} ELSE todo.pin
      /\ todo'.net = todo.net
  BY <1>1, <1>2, Remaining DEF Put
<1>5. pc' \in {"gateway", "replace"} /\ UNCHANGED <<dev, readVars>>
  <2>1. todo' # NoRoutes
    BY <1>2, <1>4 DEF NoRoutes
  <2> QED
    BY <2>1 DEF Put
<1>6. /\ TypeOK'
      /\ \A q \in Prefixes : table'[q] = IF q = h THEN "eth0" ELSE table[q]
  BY <1>3, PutType DEF Prefixes, Inv, TypeOK
<1>7. Control'
  BY <1>5, ApplyingHasRead DEF Control, Applying
<1>8. Viewed'
  BY <1>5, RememberView DEF Applying
<1>9. InOrder'
  BY <1>2, <1>4, <1>5 DEF Inv, InOrder, Applying
<1>10. before' = before
  BY <1>5 DEF Remember
<1>11. HostsPut' = HostsPut \cup {h} /\ NetsPut = {} /\ NetsPut' = {}
  BY <1>2, <1>4, <1>5 DEF HostsPut, NetsPut
<1>12. Progress'
  BY <1>5, <1>6, <1>10, <1>11 DEF Inv, Progress, Applying
<1>13. PinnedBeforeRouted'
  BY <1>6 DEF Inv, TypeOK, PinnedBeforeRouted, Prefixes
<1> QED
  BY <1>5, <1>6, <1>7, <1>8, <1>9, <1>12, <1>13 DEF Inv

LEMMA ApplyHostRouteInv ==
  ASSUME Inv, Remember, applyHostRoute
  PROVE  Inv'
<1>1. CASE Fail
  BY <1>1, FailInv DEF applyHostRoute
<1>2. CASE ~Fail
  <2>1. PICK h \in todo[kind] : Put(h, "eth0") /\ UNCHANGED pinned
    BY <1>2 DEF applyHostRoute
  <2> QED
    BY <2>1, PutPin, PutHost DEF applyHostRoute
<1> QED
  BY <1>1, <1>2

\* routes.go:110-117: by the first route into the tunnel every address that the
\* endpoint had has its host route.
LEMMA PutNet ==
  ASSUME Inv, Remember, pc = "replace", kind = "net", dev = "up", NEW p \in todo.net,
         Put(p, "wg0"), pinned' = ips \ AdvertisedOf[cfg], UNCHANGED <<fileVars, act>>
  PROVE  /\ Inv'
         /\ Applying
         /\ p \in AdvertisedOf[cfg] /\ HostsPut = ips \cup PinnedOf[cfg]
         /\ \A q \in Prefixes : table'[q] = IF q = p THEN "wg0" ELSE table[q]
         /\ todo'.net = todo.net \ {p}
         /\ UNCHANGED <<device, readVars>>
         /\ IF todo'.net = {} THEN pc' = "idle" /\ res' = "ok" ELSE pc' = "replace"
<1>1. todo \in Routes
  BY DEF Inv, TypeOK, Routes
<1>2. todo.endpoint = {} /\ todo.pin = {}
  BY <1>1, KindNext
<1>3. Applying
  <2>1. ASSUME ~Applying
        PROVE  FALSE
    <3>1. PICK c \in Hosts : todo = [NoRoutes EXCEPT !.pin = {c}]
      BY <2>1 DEF Inv, Control, Applying
    <3>2. todo = [endpoint |-> {}, pin |-> {c}, net |-> {}]
      BY <3>1 DEF NoRoutes
    <3> QED
      BY <3>2
  <2> QED
    BY <2>1
<1>4. /\ todo' \in Routes
      /\ todo'.endpoint = {} /\ todo'.pin = {} /\ todo'.net = todo.net \ {p}
  BY <1>1, <1>2, Remaining DEF Put
<1>5. todo'.net = {} => todo' = NoRoutes
  BY <1>4 DEF Routes, NoRoutes
<1>6. todo'.net # {} => todo' # NoRoutes
  BY DEF NoRoutes
<1>7. /\ IF todo'.net = {} THEN pc' = "idle" /\ res' = "ok" ELSE pc' = "replace"
      /\ UNCHANGED <<device, readVars>>
  BY <1>4, <1>5, <1>6 DEF Put, Return
<1>8. p \in Prefixes /\ p \in AdvertisedOf[cfg] /\ ips \subseteq Hosts
  BY <1>1, <1>3 DEF Routes, Inv, TypeOK, InOrder
<1>9. /\ TypeOK'
      /\ \A q \in Prefixes : table'[q] = IF q = p THEN "wg0" ELSE table[q]
  BY <1>8, PutType
<1>10. HostsPut = ips \cup PinnedOf[cfg]
  BY <1>2 DEF HostsPut
<1>11. Control'
  BY <1>3, <1>7, ApplyingHasRead DEF Control, Applying
<1>12. Viewed'
  BY <1>3, <1>7, RememberView DEF Applying
<1>13. InOrder'
  BY <1>3, <1>4, <1>7 DEF Inv, InOrder, Applying
<1>14. Progress'
  <2>1. CASE pc' = "idle"
    BY <2>1 DEF Progress, Applying, Remember
  <2>2. CASE pc' # "idle"
    <3>1. before' = before
      BY <1>7, <2>2 DEF Remember
    <3>2. HostsPut' = HostsPut /\ NetsPut' = NetsPut \cup {p}
      BY <1>2, <1>4, <1>7, <1>8 DEF HostsPut, NetsPut
    <3> QED
      BY <1>3, <1>7, <1>9, <2>2, <3>1, <3>2 DEF Inv, Progress, Applying
  <2> QED
    BY <2>1, <2>2
<1>15. PinnedBeforeRouted'
  <2>1. \A e \in ips \ AdvertisedOf[cfg] : table[e] = "eth0"
    BY <1>3, <1>8, <1>10 DEF Inv, Progress, NetsPut, Prefixes
  <2> QED
    BY <1>8, <1>9, <2>1 DEF PinnedBeforeRouted, Prefixes
<1> QED
  BY <1>3, <1>4, <1>7, <1>8, <1>9, <1>10, <1>11, <1>12, <1>13, <1>14, <1>15 DEF Inv

LEMMA ApplyNetInv ==
  ASSUME Inv, Remember, applyNet
  PROVE  Inv'
<1>1. CASE Fail
  BY <1>1, FailInv DEF applyNet
<1>2. CASE ~Fail
  BY <1>2, PutNet DEF applyNet
<1> QED
  BY <1>1, <1>2

----------------------------------------------------------------------------
(* The device, and what changes by itself *)

LEMMA SetConfInv ==
  ASSUME Inv, Remember, SetConf
  PROVE  Inv'
<1>1. CASE Fail
  BY <1>1, FailInv DEF SetConf
<1>2. CASE ~Fail
  <2>1. /\ pc = "setconf" /\ wgFile # None /\ dev' = "up" /\ wconf' = ViewOf(wgFile, dns)
        /\ peer' \in (IF wconf'[2] = {} THEN {None} ELSE wconf'[2])
        /\ pc' = "idle" /\ res' = "ok"
        /\ UNCHANGED <<fileVars, act, table, readVars, todo, pinned>>
    BY <1>2 DEF SetConf, Return
  <2>2. wconf' \in Texts \X SUBSET Hosts
    BY <2>1, ViewType DEF Inv, TypeOK
  <2>3. peer' \in Hosts \cup {None}
    BY <2>1, <2>2
  <2>4. TypeOK'
    BY <2>1, <2>2, <2>3, RememberType DEF Inv, TypeOK
  <2>5. Control' /\ Viewed' /\ InOrder'
    BY <2>1 DEF Control, Viewed, InOrder, Applying
  <2>6. Progress'
    BY <2>1 DEF Progress, Applying, Remember
  <2>7. PinnedBeforeRouted'
    BY <2>1 DEF Inv, PinnedBeforeRouted
  <2> QED
    BY <2>4, <2>5, <2>6, <2>7 DEF Inv
<1> QED
  BY <1>1, <1>2

\* Saves and renamings reach an operation only through what it reads later.
LEMMA FilesInv ==
  ASSUME Inv, Remember, UNCHANGED <<device, table, managerVars>>,
         appFile' \in AppConfigs \cup {None, Garbled}, wgFile' \in Texts \cup {None},
         dns' \in Resolutions
  PROVE  Inv'
<1>1. TypeOK'
  BY RememberType DEF Inv, TypeOK
<1>2. Control' /\ InOrder'
  BY DEF Inv, Control, InOrder, Applying
<1>3. Viewed'
  BY RememberView DEF Applying
<1>4. Progress'
  BY DEF Inv, Progress, Applying, HostsPut, NetsPut, Remember
<1>5. PinnedBeforeRouted'
  BY DEF Inv, PinnedBeforeRouted
<1> QED
  BY <1>1, <1>2, <1>3, <1>4, <1>5 DEF Inv

LEMMA DeviceDiesInv ==
  ASSUME Inv, Remember, DeviceDies
  PROVE  Inv'
<1>1. /\ table' \in [Prefixes -> {"none", "eth0", "wg0"}]
      /\ \A p \in Prefixes : table'[p] = IF table[p] = "wg0" THEN "none" ELSE table[p]
  BY DropsOnlyWg0 DEF DeviceDies, Inv, TypeOK
<1>2. TypeOK'
  BY <1>1, RememberType DEF DeviceDies, Inv, TypeOK
<1>3. Control' /\ InOrder'
  BY DEF DeviceDies, Inv, Control, InOrder, Applying
<1>4. Viewed'
  BY RememberView DEF DeviceDies, Applying
<1>5. Progress'
  <2>1. CASE pc = "idle"
    BY <2>1 DEF DeviceDies, Progress, Applying, Remember
  <2>2. CASE pc # "idle"
    <3>1. before' = WithoutWg0(before) /\ table' = WithoutWg0(table) /\ dev' = "absent"
      BY <2>2 DEF DeviceDies, Remember
    <3>2. \A p \in Prefixes : before'[p] = IF before[p] = "wg0" THEN "none" ELSE before[p]
      BY <3>1, DropsOnlyWg0 DEF Inv, TypeOK
    <3>3. CASE ~Applying
      BY <3>1, <3>3 DEF DeviceDies, Inv, Progress, Applying
    <3>4. CASE Applying
      BY <1>1, <3>1, <3>2, <3>4 DEF DeviceDies, Inv, Progress, Applying, HostsPut, NetsPut
    <3> QED
      BY <3>3, <3>4
  <2> QED
    BY <2>1, <2>2
<1>6. PinnedBeforeRouted'
  BY <1>1 DEF PinnedBeforeRouted
<1> QED
  BY <1>2, <1>3, <1>4, <1>5, <1>6 DEF Inv

LEMMA InitInv == Init => Inv
<1> SUFFICES ASSUME Init
             PROVE  Inv
  OBVIOUS
<1>1. NoRoutes \in Routes
  BY DEF NoRoutes, Routes
<1>2. view \in (Texts \X SUBSET Hosts) \cup {None}
  BY ViewType DEF Init
<1>3. TypeOK
  BY <1>1, <1>2 DEF Init, TypeOK, Routes
<1>4. Control /\ Viewed /\ InOrder /\ Progress /\ PinnedBeforeRouted
  BY DEF Init, Control, Viewed, InOrder, Progress, PinnedBeforeRouted, Applying, Prefixes
<1> QED
  BY <1>3, <1>4 DEF Inv

LEMMA StutterInv == Inv /\ UNCHANGED vars => Inv'
BY DEF vars, Inv, TypeOK, Control, Viewed, InOrder, Progress, PinnedBeforeRouted, Applying,
       HostsPut, NetsPut

\* Every step of the manager and its surroundings preserves the invariant.
LEMMA NextInv == Inv /\ [Next]_vars => Inv'
<1> SUFFICES ASSUME Inv, Next
             PROVE  Inv'
  BY StutterInv
<1>1. Remember
  BY DEF Next
<1>2. ASSUME NEW a \in {"apply", "start"}, Begin(a, None)
      PROVE  Inv'
  BY <1>1, <1>2, BeginInv
<1>3. ASSUME NEW h \in Hosts, Begin("pin", h)
      PROVE  Inv'
  BY <1>1, <1>3, BeginInv
<1>4. CASE LoadApp \/ ReadWG \/ Resolve \/ ShowDefault
  BY <1>1, <1>4, LoadAppInv, ReadWGInv, ResolveInv, ShowDefaultInv
<1>5. CASE applyHostRoute \/ applyNet \/ SetConf \/ DeviceDies
  BY <1>1, <1>5, ApplyHostRouteInv, ApplyNetInv, SetConfInv, DeviceDiesInv
<1>6. ASSUME NEW a \in AppConfigs \cup {None, Garbled}, SaveApp(a)
      PROVE  Inv'
  BY <1>1, <1>6, FilesInv DEF SaveApp, Inv, TypeOK
<1>7. ASSUME NEW t \in Texts \cup {None}, SaveWg(t)
      PROVE  Inv'
  BY <1>1, <1>7, FilesInv DEF SaveWg, Inv, TypeOK
<1>8. ASSUME NEW answers \in Resolutions, Rename(answers)
      PROVE  Inv'
  BY <1>1, <1>8, FilesInv DEF Rename, Inv, TypeOK
<1> QED
  BY <1>2, <1>3, <1>4, <1>5, <1>6, <1>7, <1>8 DEF Next

\* Inv holds of every state the route manager reaches.
THEOREM Invariance == Spec => []Inv
BY InitInv, NextInv, PTL DEF Spec

\* Every variable keeps its type; routes are only for hosts and known networks.
THEOREM TypeCorrect == Spec => []TypeOK
BY Invariance, PTL DEF Inv

\* routes.go:92-117: as long as a route leads into the tunnel, the addresses that
\* the endpoint had for the Apply that put it have host routes outside.
THEOREM PinnedFirst == Spec => []PinnedBeforeRouted
BY Invariance, PTL DEF Inv

----------------------------------------------------------------------------
(* What success of an Apply means *)

\* An Apply that returns ok has put the last of its routes into the tunnel, and
\* the device was there from the first one on.
LEMMA SuccessRoutes ==
  ASSUME Inv, Next, pc # "idle", pc' = "idle", act' = "apply", res' = "ok"
  PROVE  AppliedMeansRouted'
<1>1. Remember
  BY DEF Next
<1>2. ~Fail
  BY DEF Fail, Return
<1>3. applyNet \/ applyHostRoute
  <2>1. ~SetConf
    BY DEF SetConf, Inv, Control
  <2> QED
    BY <1>2, <2>1
       DEF Next, Begin, LoadApp, ReadWG, Resolve, ShowDefault, SaveApp, SaveWg, Rename, DeviceDies
<1>4. CASE applyHostRoute
  <2>1. PICK h \in todo[kind] : Put(h, "eth0") /\ UNCHANGED pinned
    BY <1>2, <1>4 DEF applyHostRoute
  <2>2. act = "pin"
    BY <1>1, <1>4, <2>1, PutHost, PutPin DEF applyHostRoute
  <2> QED
    BY <1>4, <2>2 DEF applyHostRoute
<1>5. CASE applyNet
  <2>1. PICK p \in todo.net : /\ dev = "up" /\ Put(p, "wg0")
                              /\ pinned' = ips \ AdvertisedOf[cfg]
    BY <1>2, <1>5 DEF applyNet
  <2>2. /\ Applying
        /\ p \in AdvertisedOf[cfg] /\ HostsPut = ips \cup PinnedOf[cfg]
        /\ \A q \in Prefixes : table'[q] = IF q = p THEN "wg0" ELSE table[q]
        /\ todo'.net = todo.net \ {p} /\ todo'.net = {}
        /\ UNCHANGED <<device, readVars>>
    BY <1>1, <1>5, <2>1, PutNet DEF applyNet
  <2>3. /\ cfg \in AppConfigs
        /\ AdvertisedOf[cfg] \subseteq Prefixes /\ ips \cup PinnedOf[cfg] \subseteq Prefixes
    BY <2>2, ApplyingHasRead DEF Inv, TypeOK, Prefixes
  <2>4. NetsPut = AdvertisedOf[cfg] \ {p}
    BY <2>2 DEF NetsPut, Inv, InOrder
  <2>5. \A q \in Prefixes :
          table[q] = IF q \in NetsPut THEN "wg0"
                     ELSE IF q \in HostsPut THEN "eth0" ELSE before[q]
    BY <2>1, <2>2 DEF Inv, Progress
  <2> QED
    BY <2>2, <2>3, <2>4, <2>5 DEF AppliedMeansRouted
<1> QED
  BY <1>3, <1>4, <1>5

LEMMA AppliedKept ==
  ASSUME Inv, AppliedMeansRouted, [Next]_vars
  PROVE  AppliedMeansRouted'
<1>1. CASE UNCHANGED vars
  BY <1>1 DEF vars, AppliedMeansRouted
<1>2. CASE Next /\ pc' # "idle"
  BY <1>2 DEF AppliedMeansRouted
<1>3. CASE Next /\ pc # "idle" /\ pc' = "idle"
  BY <1>3, SuccessRoutes DEF AppliedMeansRouted
<1>4. CASE Next /\ pc = "idle" /\ pc' = "idle"
  <2>1. dev' = "absent" \/ UNCHANGED <<device, table, managerVars>>
    BY <1>4 DEF Next, Begin, LoadApp, ReadWG, Resolve, ShowDefault, applyHostRoute, applyNet,
                SetConf, SaveApp, SaveWg, Rename, DeviceDies
  <2> QED
    BY <2>1 DEF AppliedMeansRouted
<1> QED
  BY <1>1, <1>2, <1>3, <1>4

\* routes.go:91-119: after an Apply that reports success every network of the
\* settings it read is routed into the tunnel, and every endpoint address and
\* pinned client outside of it, as long as the device lives.
THEOREM SuccessMeansRouted == Spec => []AppliedMeansRouted
<1>1. Init => AppliedMeansRouted
  BY DEF Init, AppliedMeansRouted
<1>2. Inv /\ AppliedMeansRouted /\ [Next]_vars => AppliedMeansRouted'
  BY AppliedKept
<1> QED
  BY <1>1, <1>2, Invariance, PTL DEF Spec

----------------------------------------------------------------------------
(* The manager implements the route actions of SupervisorActions *)

USE DEF Host!hostVars, Host!deviceVars, Host!birdVars

\* `ip route replace` of SupervisorActions, prefix by prefix.
LEMMA Replaced ==
  ASSUME Inv, NEW P \in SUBSET Hosts, NEW A \in SUBSET Prefixes,
         before' \in [Prefixes -> {"none", "eth0", "wg0"}],
         \A p \in Prefixes :
           before'[p] = IF p \in A THEN IF dev = "up" THEN "wg0" ELSE "none"
                        ELSE IF p \in P THEN "eth0" ELSE before[p]
  PROVE  Host!Replace(P, A)
BY DEF Host!Replace, Host!Prefixes, Prefixes, Inv, TypeOK

\* The addresses that a view gives its endpoint.
LEMMA EndpointsOfView ==
  ASSUME Inv, Applying
  PROVE  [c \in Texts \X SUBSET Hosts |-> c[2]][view] = ips
BY ApplyingHasRead

\* An Apply that ends amounts to routes.apply with the routes that it has put.
LEMMA ApplyAmountsTo ==
  ASSUME Inv, Applying,
         HostsPut' \in SUBSET Hosts, NetsPut' \in SUBSET Prefixes,
         HostsPut' \subseteq ips \cup PinnedOf[cfg],
         HostsPut' \subseteq ips \/ ips \subseteq HostsPut',
         NetsPut' \subseteq AdvertisedOf[cfg],
         NetsPut' # {} => HostsPut' = ips \cup PinnedOf[cfg],
         NetsPut' # {} => dev = "up" \/ NetsPut' # AdvertisedOf[cfg],
         res' = "ok" <=> HostsPut' = ips \cup PinnedOf[cfg] /\ NetsPut' = AdvertisedOf[cfg],
         before' \in [Prefixes -> {"none", "eth0", "wg0"}],
         \A p \in Prefixes :
           before'[p] = IF p \in NetsPut' THEN IF dev = "up" THEN "wg0" ELSE "none"
                        ELSE IF p \in HostsPut' THEN "eth0" ELSE before[p],
         routed' = IF NetsPut' # {} /\ dev = "up" THEN <<view, cfg>> ELSE routed,
         UNCHANGED <<view, appFile, dev, wconf>>
  PROVE  Host!applyRoutes(cfg, res' = "ok")
<1>1. PICK P \in SUBSET Hosts, A \in SUBSET Prefixes : P = HostsPut' /\ A = NetsPut'
  OBVIOUS
<1>2. Host!Replace(P, A)
  BY <1>1, Replaced
<1>3. Host!ApplyPrefix(cfg, P, A)
  BY <1>1, EndpointsOfView DEF Host!ApplyPrefix, Inv, TypeOK
<1>4. cfg # None /\ view # None /\ ips # {}
  BY ApplyingHasRead DEF Applying
<1>5. A \in SUBSET Host!Prefixes
  BY DEF Host!Prefixes, Prefixes
<1>6. "routes.apply" \in {"routes.apply", "routes.pin_client"}
  OBVIOUS
<1>7. /\ (res' = "ok") <=> (P = ips \cup PinnedOf[cfg] /\ A = AdvertisedOf[cfg])
      /\ routed' = IF A # {} /\ dev = "up" THEN <<view, cfg>> ELSE routed
  BY <1>1
<1> DEFINE ends == [c \in Texts \X SUBSET Hosts |-> c[2]][view]
           allPins == ends \cup PinnedOf[cfg]
<1>8. ends = ips
  BY EndpointsOfView
<1>9. /\ Host!ApplyPrefix(cfg, P, A)
      /\ (res' = "ok") <=> (P = allPins /\ A = AdvertisedOf[cfg])
      /\ ~(res' = "ok") => Host!MayFail("routes.apply", AdvertisedOf[cfg] = {} \/ dev = "up")
      /\ Host!Replace(P, A)
      /\ routed' = IF A # {} /\ dev = "up" THEN <<view, cfg>> ELSE routed
  BY <1>2, <1>3, <1>6, <1>7, <1>8, Zenon DEF Host!MayFail
<1>10. cfg # None /\ view # None /\ ends # {}
  BY <1>4, <1>8
<1>11. UNCHANGED <<view, IF appFile = Garbled THEN None ELSE appFile, dev, wconf, Host!birdVars>>
  OBVIOUS
<1> HIDE DEF HostsPut, NetsPut
<1> QED
  BY <1>5, <1>9, <1>10, <1>11, Zenon DEF Host!applyRoutes

\* An operation that fails leaves what the action leaves that fails there.
LEMMA FailImplements ==
  ASSUME Inv, Remember, pc # "idle", Fail, UNCHANGED <<fileVars, act>>,
         act = "start" => wgFile = None
  PROVE  RouteStep
<1>1. /\ pc' = "idle" /\ ~(res' = "ok") /\ before' = table' /\ table' = table
      /\ UNCHANGED <<view, appFile, dev, wconf, cfg, ips, todo>>
  BY DEF Fail, Return, Remember
<1>2. CASE Applying
  <2>1. /\ act = "apply" /\ cfg \in AppConfigs
        /\ HostsPut \in SUBSET Hosts /\ NetsPut \in SUBSET Prefixes
        /\ NetsPut \subseteq AdvertisedOf[cfg] /\ NetsPut # AdvertisedOf[cfg]
    BY <1>2, ApplyingHasRead DEF Inv, TypeOK, InOrder, HostsPut, NetsPut
  <2>2. /\ HostsPut \subseteq ips \cup PinnedOf[cfg]
        /\ HostsPut \subseteq ips \/ ips \subseteq HostsPut
        /\ NetsPut # {} => HostsPut = ips \cup PinnedOf[cfg]
    BY <1>2 DEF Inv, InOrder, HostsPut, NetsPut
  <2>3. /\ before' \in [Prefixes -> {"none", "eth0", "wg0"}]
        /\ \A p \in Prefixes :
             before'[p] = IF p \in NetsPut THEN IF dev = "up" THEN "wg0" ELSE "none"
                          ELSE IF p \in HostsPut THEN "eth0" ELSE before[p]
    BY <1>1, <1>2 DEF Inv, TypeOK, Progress
  <2>4. Left = {p \in NetsPut : table[p] = "wg0"}
    BY <1>1, <1>2 DEF Left, NetsPut, Applying
  <2>5. Left # {} <=> NetsPut # {} /\ dev = "up"
    BY <1>2, <2>1, <2>4 DEF Inv, Progress
  <2>6. routed' = IF NetsPut # {} /\ dev = "up" THEN <<view, cfg>> ELSE routed
    BY <1>1, <2>5, Zenon DEF Remember
  <2>7. HostsPut' = HostsPut /\ NetsPut' = NetsPut
    BY <1>1 DEF HostsPut, NetsPut
  <2>8. Host!applyRoutes(cfg, res' = "ok")
    BY <1>1, <1>2, <2>1, <2>2, <2>3, <2>6, <2>7, ApplyAmountsTo
  <2> QED
    BY <1>1, <2>1, <2>8 DEF RouteStep
<1>3. CASE ~Applying
  <2>1. ips = {} /\ Left = {} /\ before' = before /\ routed' = routed
    BY <1>1, <1>3 DEF Applying, Left, Remember, Inv, Progress
  <2>2. before \in [Prefixes -> {"none", "eth0", "wg0"}]
    BY DEF Inv, TypeOK
  <2>3. CASE act = "apply"
    <3>1. Host!Replace({}, {})
      BY <2>1, <2>2, Replaced
    <3>2. Host!ApplyPrefix(cfg, {}, {})
      BY DEF Host!ApplyPrefix
    <3>3. Host!applyRoutes(cfg, FALSE)
      BY <1>1, <2>1, <3>1, <3>2 DEF Host!applyRoutes, Host!MayFail
    <3>4. Host!applyRoutes(cfg, res' = "ok")
      BY <1>1, <3>3
    <3> QED
      BY <1>1, <2>3, <3>4 DEF RouteStep
  <2>4. CASE act = "pin"
    BY <1>1, <2>1, <2>4 DEF RouteStep, Host!pinClientRoute, Host!MayFail
  <2>5. CASE act = "start"
    <3>1. pc = "setconf" /\ text = None
      BY <2>5 DEF Inv, TypeOK, Control
    <3>2. view = None
      BY <2>1, <2>5, <3>1, ViewType DEF Inv, Viewed
    <3> QED
      BY <1>1, <2>1, <2>5, <3>2
         DEF RouteStep, Host!startWG, Host!MayFail, Host!StartFails, Host!KeepDevice
  <2>6. act \in {"apply", "pin", "start"}
    BY DEF Inv, TypeOK, Control
  <2> QED
    BY <2>3, <2>4, <2>5, <2>6
<1> QED
  BY <1>2, <1>3

\* A step within an operation, or before one, changes at most the view.
LEMMA InnerStep ==
  ASSUME UNCHANGED <<appFile, dev, wconf, before, routed>>, pc = "idle" \/ pc' # "idle"
  PROVE  RouteStep
BY DEF RouteStep, Host!SaveWg

\* Within an operation nothing is remembered but the view.
LEMMA InnerHistory ==
  ASSUME Inv, Remember, pc = "idle" \/ pc' # "idle", dev' = dev,
         pc = "idle" \/ pc' = "idle" => table' = table
  PROVE  UNCHANGED <<before, routed>>
BY DEF Remember, Inv, Progress, Applying

\* The view follows the files and the name, and nothing else.
LEMMA ViewStays ==
  ASSUME Inv, Remember, UNCHANGED <<wgFile, dns, pc, text, ips>>
  PROVE  view' = view
<1>1. CASE pc = "idle"
  BY <1>1 DEF Remember
<1>2. CASE pc # "idle" /\ ips # {}
  BY <1>2 DEF Remember
<1>3. CASE pc # "idle" /\ ips = {}
  BY <1>3 DEF Remember, Inv, Viewed
<1> QED
  BY <1>1, <1>2, <1>3

LEMMA ReadingImplements ==
  ASSUME Inv, Remember, LoadApp \/ ReadWG \/ Resolve \/ ShowDefault
  PROVE  RouteStep
<1>1. pc # "idle" /\ act # "start" /\ UNCHANGED <<fileVars, act>>
  BY DEF LoadApp, ReadWG, Resolve, ShowDefault, Inv, Control
<1>2. CASE Fail
  BY <1>1, <1>2, FailImplements
<1>3. CASE ~Fail
  <2>1. pc' # "idle" /\ UNCHANGED <<appFile, device, table>>
    BY <1>1, <1>3 DEF LoadApp, ReadWG, Resolve, ShowDefault
  <2> QED
    BY <1>1, <2>1, InnerStep, InnerHistory
<1> QED
  BY <1>2, <1>3

LEMMA ApplyHostRouteImplements ==
  ASSUME Inv, Remember, applyHostRoute
  PROVE  RouteStep
<1>1. pc = "replace" /\ act # "start" /\ UNCHANGED <<fileVars, act>>
  BY DEF applyHostRoute, Inv, Control
<1>2. CASE Fail
  BY <1>1, <1>2, FailImplements
<1>3. CASE ~Fail
  <2>1. PICK h \in todo[kind] : Put(h, "eth0") /\ UNCHANGED pinned
    BY <1>3 DEF applyHostRoute
  <2>2. kind # "net"
    BY DEF applyHostRoute
  <2>3. UNCHANGED <<appFile, dev, wconf>> /\ table' = [table EXCEPT ![h] = "eth0"]
    BY <1>1, <2>1 DEF Put
  <2>4. CASE Applying
    <3>1. pc' # "idle"
      BY <1>1, <2>1, <2>2, <2>4, PutHost
    <3> QED
      BY <1>1, <2>3, <3>1, InnerStep, InnerHistory
  <2>5. CASE ~Applying
    <3>1. h \in Hosts /\ act = "pin" /\ ips = {} /\ pc' = "idle" /\ res' = "ok"
      BY <1>1, <2>1, <2>2, <2>5, PutPin
    <3>2. before' = table' /\ table = before /\ view' = view /\ routed' = routed
      BY <1>1, <2>5, <3>1 DEF Remember, Left, Inv, Progress
    <3>3. before' \in [Prefixes -> {"none", "eth0", "wg0"}]
      BY <2>3, <3>1, <3>2 DEF Inv, TypeOK, Prefixes
    <3>4. \A p \in Prefixes : before'[p] = IF p = h THEN "eth0" ELSE before[p]
      BY <2>3, <3>2 DEF Inv, TypeOK
    <3>5. Host!Replace({h}, {})
      BY <3>1, <3>3, <3>4, Replaced
    <3> QED
      BY <1>1, <2>3, <3>1, <3>2, <3>5 DEF RouteStep, Host!pinClientRoute
  <2> QED
    BY <2>4, <2>5
<1> QED
  BY <1>2, <1>3

\* routes.go:110-119: the last route makes the Apply a success.
LEMMA ApplyNetImplements ==
  ASSUME Inv, Remember, applyNet
  PROVE  RouteStep
<1>1. pc = "replace" /\ act # "start" /\ UNCHANGED <<fileVars, act>>
  BY DEF applyNet, Inv, Control
<1>2. CASE Fail
  BY <1>1, <1>2, FailImplements
<1>3. CASE ~Fail
  <2>1. PICK p \in todo.net : /\ dev = "up" /\ Put(p, "wg0")
                              /\ pinned' = ips \ AdvertisedOf[cfg]
    BY <1>3 DEF applyNet
  <2>2. /\ Inv'
        /\ Applying
        /\ p \in AdvertisedOf[cfg] /\ HostsPut = ips \cup PinnedOf[cfg]
        /\ \A q \in Prefixes : table'[q] = IF q = p THEN "wg0" ELSE table[q]
        /\ todo'.net = todo.net \ {p}
        /\ UNCHANGED <<device, readVars>>
        /\ IF todo'.net = {} THEN pc' = "idle" /\ res' = "ok" ELSE pc' = "replace"
    BY <1>1, <2>1, PutNet DEF applyNet
  <2>3. CASE todo'.net # {}
    <3>1. pc' # "idle" /\ UNCHANGED <<appFile, dev, wconf>>
      BY <1>1, <2>2, <2>3
    <3> QED
      BY <1>1, <3>1, InnerStep, InnerHistory
  <2>4. CASE todo'.net = {}
    <3>1. act = "apply" /\ cfg \in AppConfigs
      BY <2>2, ApplyingHasRead
    <3>2. pc' = "idle" /\ res' = "ok" /\ before' = table' /\ view' = view
      BY <1>1, <2>2, <2>4 DEF Remember
    <3>3. NetsPut' = AdvertisedOf[cfg] /\ HostsPut' = ips \cup PinnedOf[cfg]
      <4>1. todo'.endpoint = {} /\ todo'.pin = {}
        BY <2>1, KindNext, Remaining DEF applyNet, Put, Inv, TypeOK, Routes
      <4> QED
        BY <2>2, <2>4, <4>1 DEF NetsPut, HostsPut
    <3>4. /\ before' \in [Prefixes -> {"none", "eth0", "wg0"}]
          /\ \A q \in Prefixes :
               before'[q] = IF q \in NetsPut' THEN IF dev = "up" THEN "wg0" ELSE "none"
                            ELSE IF q \in HostsPut' THEN "eth0" ELSE before[q]
      <4>1. \A q \in Prefixes :
              table[q] = IF q \in NetsPut THEN "wg0"
                         ELSE IF q \in HostsPut THEN "eth0" ELSE before[q]
        BY <2>1, <2>2 DEF Inv, Progress
      <4>2. NetsPut = AdvertisedOf[cfg] \ {p}
        BY <2>2, <2>4 DEF NetsPut, Inv, InOrder
      <4> QED
        BY <2>1, <2>2, <3>2, <3>3, <4>1, <4>2 DEF Inv, TypeOK
    <3>5. routed' = <<view, cfg>>
      <4>1. p \in Left
        BY <2>2, <2>4, <3>1 DEF Left, Applying
      <4> QED
        BY <1>1, <3>2, <4>1 DEF Remember
    <3>6. AdvertisedOf[cfg] \subseteq Prefixes /\ AdvertisedOf[cfg] # {}
      BY <3>1
    <3>7. ips \cup PinnedOf[cfg] \subseteq Hosts
      BY <3>1 DEF Inv, TypeOK
    <3>8. Host!applyRoutes(cfg, res' = "ok")
      BY <1>1, <2>1, <2>2, <3>2, <3>3, <3>4, <3>5, <3>6, <3>7, ApplyAmountsTo
    <3> QED
      BY <1>1, <3>1, <3>2, <3>8 DEF RouteStep
  <2> QED
    BY <2>3, <2>4
<1> QED
  BY <1>2, <1>3

LEMMA SetConfImplements ==
  ASSUME Inv, Remember, SetConf
  PROVE  RouteStep
<1>1. /\ pc = "setconf" /\ act = "start" /\ UNCHANGED <<fileVars, act>>
      /\ text = None /\ ips = {}
  BY DEF SetConf, Inv, Control
<1>2. CASE Fail
  <2>1. wgFile = None
    BY <1>2 DEF SetConf, Fail, Return
  <2> QED
    BY <1>1, <1>2, <2>1, FailImplements
<1>3. CASE ~Fail
  <2>1. /\ wgFile # None /\ dev' = "up" /\ wconf' = ViewOf(wgFile, dns)
        /\ pc' = "idle" /\ res' = "ok" /\ table' = table
    BY <1>3 DEF SetConf, Return
  <2>2. view = ViewOf(wgFile, dns) /\ view # None
    BY <1>1, <2>1, ViewType DEF Inv, Viewed, TypeOK
  <2>3. before' = before /\ routed' = routed /\ view' = view
    BY <1>1, <2>1 DEF Remember, Left, Inv, Progress, Applying
  <2> QED
    BY <1>1, <2>1, <2>2, <2>3 DEF RouteStep, Host!startWG, Host!KeepDevice
<1> QED
  BY <1>2, <1>3

LEMMA DeviceDiesImplements ==
  ASSUME Inv, Remember, DeviceDies
  PROVE  RouteStep
<1>1. /\ dev = "up" /\ dev' = "absent" /\ wconf' = None /\ table' = WithoutWg0(table)
      /\ pc' = pc /\ appFile' = appFile
  BY DEF DeviceDies
<1>2. view' = view
  BY ViewStays DEF DeviceDies
<1>3. routed' = routed
  BY <1>1 DEF Remember
<1>4. before' = WithoutWg0(before)
  BY <1>1 DEF Remember, Inv, Progress, Applying
<1> QED
  BY <1>1, <1>2, <1>3, <1>4
     DEF RouteStep, Host!DeviceDies, Host!NewDevice, Host!WithoutWg0, WithoutWg0,
         Host!Prefixes, Prefixes

\* Every step is one of the action that ends with it, of the host, or none.
LEMMA NextImplements ==
  ASSUME Inv, Next
  PROVE  RouteStep
<1>1. Remember
  BY DEF Next
<1>2. ASSUME NEW a \in {"apply", "start", "pin"}, NEW c, Begin(a, c)
      PROVE  RouteStep
  BY <1>1, <1>2, InnerStep, InnerHistory DEF Begin
<1>3. CASE LoadApp \/ ReadWG \/ Resolve \/ ShowDefault
  BY <1>1, <1>3, ReadingImplements
<1>4. CASE applyHostRoute \/ applyNet \/ SetConf \/ DeviceDies
  BY <1>1, <1>4, ApplyHostRouteImplements, ApplyNetImplements, SetConfImplements,
     DeviceDiesImplements
<1>5. ASSUME NEW a \in AppConfigs \cup {None, Garbled}, SaveApp(a)
      PROVE  RouteStep
  <2>1. /\ view' = view /\ before' = before /\ routed' = routed
        /\ UNCHANGED <<dev, wconf>> /\ pc' = pc
    BY <1>1, <1>5, ViewStays, InnerHistory DEF SaveApp
  <2> QED
    BY <2>1 DEF RouteStep, Host!SaveApp
<1>6. ASSUME NEW t \in Texts \cup {None}, SaveWg(t)
      PROVE  RouteStep
  BY <1>1, <1>6, InnerStep, InnerHistory DEF SaveWg
<1>7. ASSUME NEW answers \in Resolutions, Rename(answers)
      PROVE  RouteStep
  BY <1>1, <1>7, InnerStep, InnerHistory DEF Rename
<1> QED
  BY <1>2, <1>3, <1>4, <1>5, <1>6, <1>7 DEF Next

\* routes.go:67-169: whatever files, names and the device do between its commands
\* and whichever command fails, Apply, PinClient and the tunnel's start are the
\* actions of SupervisorActions that the routing stack is built from.
THEOREM RoutesRefined == Spec => ImplementsRoutes
<1>1. Inv /\ [Next]_vars => [RouteStep]_vars
  BY NextImplements
<1> QED
  BY <1>1, Invariance, PTL DEF Spec, ImplementsRoutes
=============================================================================
