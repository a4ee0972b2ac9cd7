------------------------- MODULE RoutingStackProofs -------------------------
(***************************************************************************)
(* Proofs about RoutingStack for any number of handlers and connections    *)
(* and any configs: its types, that answers reach the call they belong to, *)
(* that ActionLock is held by a running action or not at all,              *)
(* that the tunnel's endpoint is never routed into the tunnel while the    *)
(* device runs the config whose routes were applied, and that a success    *)
(* means what was asked.  The last needs an invariant of its own, DoneInv. *)
(***************************************************************************)
EXTENDS RoutingStack, TLAPS

\* The host's part of the invariant: a route into the tunnel was put there by
\* an Apply, the endpoints of the last such Apply keep their host routes while
\* it is there, and without the device there is none.
PinnedFirst ==
  /\ dev = "absent" => Wg0Routes = {}
  /\ Wg0Routes # {} =>
       /\ routed # <<>>
       /\ \A e \in EndpointsOf[routed[1]] \ AdvertisedOf[routed[2]] : table[e] = "eth0"

HostInv == HostTypeOK /\ PinnedFirst

\* The stack's part: a handler at work has actions left; a connection in use by
\* a handler is the one it waits on, and carries the action it is at.
Connected ==
  /\ \A h \in Handlers : state[h] # "idle" => todo[h] # <<>>
  /\ \A c \in Conns : conn[c].st = "free" => conn[c].by = None
  /\ \A c \in Conns : conn[c].by # None =>
       state[conn[c].by] = "waiting" /\ conn[c].act = Head(todo[conn[c].by])
  /\ AnswersMatch

Inv == TypeOK /\ PinnedFirst /\ Connected

----------------------------------------------------------------------------
(* The host *)

USE DEF BirdStates, deviceVars, birdVars, hostVars

\* Adding or deleting tunnel routes with the device leaves eth0 routes alone.
LEMMA DropsOnlyWg0 ==
  ASSUME HostTypeOK
  PROVE  /\ WithoutWg0(table) \in [Prefixes -> {"none", "eth0", "wg0"}]
         /\ \A p \in Prefixes : WithoutWg0(table)[p] # "wg0"
         /\ \A p \in Prefixes : table[p] = "eth0" => WithoutWg0(table)[p] = "eth0"
BY DEF HostTypeOK, WithoutWg0

\* A device operation of any outcome preserves the host's invariant.
LEMMA NewDeviceInv ==
  ASSUME NEW d \in {"absent", "down", "up"}, NEW c \in WgConfigs \cup {NoConfig},
         HostInv, NewDevice(d, c), UNCHANGED <<wgFile, appFile, routed, birdVars>>
  PROVE  HostInv'
<1>1. HostTypeOK'
  BY DropsOnlyWg0 DEF HostInv, HostTypeOK, NewDevice
<1>2. Wg0Routes' = {}
  BY DropsOnlyWg0 DEF HostInv, NewDevice, Wg0Routes
<1> QED
  BY <1>1, <1>2 DEF HostInv, PinnedFirst

\* Configuring the device, or setting it up (wg.go:147-161), keeps its routes.
LEMMA KeepDeviceInv ==
  ASSUME NEW d \in {dev, "down", "up"}, NEW c \in WgConfigs \cup {NoConfig},
         HostInv, KeepDevice(d, c), UNCHANGED <<wgFile, appFile, routed, birdVars>>
  PROVE  HostInv'
BY DEF HostInv, HostTypeOK, PinnedFirst, KeepDevice, Wg0Routes

\* wg.go:125-162: a Start that fails at any command.
LEMMA StartFailsInv ==
  ASSUME HostInv, StartFails, UNCHANGED <<wgFile, appFile, routed, birdVars>>
  PROVE  HostInv'
BY KeepDeviceInv, NewDeviceInv DEF StartFails, HostInv, HostTypeOK

\* wg.go:72-91: wg.start, wg.stop and wg.restart, whatever their outcome.
LEMMA TunnelActionsInv ==
  ASSUME NEW ok \in BOOLEAN, HostInv, startWG(ok) \/ stopWG(ok) \/ restartWG(ok)
  PROVE  HostInv'
<1>1. CASE startWG(ok)
  BY <1>1, KeepDeviceInv, StartFailsInv DEF startWG, HostInv, HostTypeOK
<1>2. CASE stopWG(ok)
  BY <1>2, KeepDeviceInv, NewDeviceInv DEF stopWG, HostInv, HostTypeOK
<1>3. CASE restartWG(ok)
  BY <1>3, KeepDeviceInv, NewDeviceInv, StartFailsInv DEF restartWG, HostInv, HostTypeOK
<1> QED
  BY <1>1, <1>2, <1>3

\* routes.go:140-169: `ip route replace` routes a prefix to eth0 or to wg0, or to
\* nothing in the end if the device died meanwhile.
LEMMA ReplaceType ==
  ASSUME HostTypeOK, NEW P \in SUBSET Hosts, NEW A \in SUBSET Prefixes, Replace(P, A)
  PROVE  /\ table' \in [Prefixes -> {"none", "eth0", "wg0"}]
         /\ \A p \in Prefixes : table'[p] = IF p \in A THEN IF dev = "up" THEN "wg0" ELSE "none"
                                            ELSE IF p \in P THEN "eth0" ELSE table[p]
BY DEF HostTypeOK, Replace

\* routes.go:67-119: Apply reaches its first advertised route only after every
\* endpoint has its host route, which later commands do not undo.
LEMMA ApplyRoutesInv ==
  ASSUME NEW app \in AppConfigs \cup {NoConfig}, NEW ok \in BOOLEAN,
         HostInv, applyRoutes(app, ok)
  PROVE  HostInv'
<1>1. CASE app = NoConfig \/ wgFile = NoConfig \/ EndpointsOf[wgFile] = {}
  BY <1>1 DEF applyRoutes, HostInv, HostTypeOK, PinnedFirst, Wg0Routes
<1>2. CASE app # NoConfig /\ wgFile # NoConfig /\ EndpointsOf[wgFile] # {}
  <2>1. app \in AppConfigs /\ wgFile \in WgConfigs
    BY <1>2 DEF HostInv, HostTypeOK
  <2>2. PICK P \in SUBSET Hosts, A \in SUBSET Prefixes :
          /\ ApplyPrefix(app, P, A)
          /\ Replace(P, A)
          /\ routed' = IF A # {} /\ dev = "up" THEN <<wgFile, app>> ELSE routed
    BY <1>2 DEF applyRoutes
  <2>3. /\ table' \in [Prefixes -> {"none", "eth0", "wg0"}]
        /\ \A p \in Prefixes : table'[p] = IF p \in A THEN IF dev = "up" THEN "wg0" ELSE "none"
                                           ELSE IF p \in P THEN "eth0" ELSE table[p]
    BY <2>2, ReplaceType DEF HostInv
  <2>4. HostTypeOK' /\ dev' = dev
    BY <2>1, <2>2, <2>3 DEF applyRoutes, HostInv, HostTypeOK
  <2>5. CASE A = {}
    <3>1. routed' = routed
      BY <2>2, <2>5
    <3>2. Wg0Routes' \subseteq Wg0Routes
      BY <2>3, <2>5 DEF Wg0Routes
    <3>3. routed # <<>> => EndpointsOf[routed[1]] \subseteq Hosts
      BY HostAssumption DEF HostInv, HostTypeOK
    <3>4. \A e \in Hosts : table[e] = "eth0" => table'[e] = "eth0"
      BY <2>3, <2>5 DEF Prefixes
    <3> QED
      BY <2>4, <3>1, <3>2, <3>3, <3>4 DEF HostInv, PinnedFirst
  <2>6. CASE A # {} /\ dev = "up"
    <3>1. routed' = <<wgFile, app>>
      BY <2>2, <2>6
    <3>2. EndpointsOf[wgFile] \subseteq P /\ A \subseteq AdvertisedOf[app]
      BY <2>2, <2>6 DEF ApplyPrefix
    <3>3. \A e \in EndpointsOf[wgFile] \ AdvertisedOf[app] : table'[e] = "eth0"
      BY <2>3, <3>2 DEF Prefixes
    <3> QED
      BY <2>4, <2>6, <3>1, <3>3 DEF HostInv, PinnedFirst
  <2>7. CASE A # {} /\ dev = "absent"
    <3>1. Wg0Routes' = {}
      BY <2>3, <2>7 DEF HostInv, PinnedFirst, Wg0Routes
    <3> QED
      BY <2>4, <3>1 DEF HostInv, PinnedFirst
  <2> QED
    BY <2>2, <2>5, <2>6, <2>7 DEF ApplyPrefix
<1> QED
  BY <1>1, <1>2

\* routes.go:121-138: pinning a client only adds a host route through eth0.
LEMMA PinClientInv ==
  ASSUME NEW app \in AppConfigs \cup {NoConfig}, NEW ok \in BOOLEAN,
         HostInv, pinClientRoute(app, ok)
  PROVE  HostInv'
<1>1. CASE UNCHANGED table
  BY <1>1 DEF pinClientRoute, HostInv, HostTypeOK, PinnedFirst, Wg0Routes
<1>2. CASE \E h \in Hosts : Replace({h}, {})
  <2>1. PICK h \in Hosts : Replace({h}, {})
    BY <1>2
  <2>2. /\ table' \in [Prefixes -> {"none", "eth0", "wg0"}]
        /\ \A p \in Prefixes : table'[p] = IF p = h THEN "eth0" ELSE table[p]
    BY <2>1 DEF Replace, HostInv, HostTypeOK
  <2>3. HostTypeOK'
    BY <2>2 DEF pinClientRoute, HostInv, HostTypeOK
  <2>4. routed # <<>> => EndpointsOf[routed[1]] \subseteq Prefixes
    BY HostAssumption DEF HostInv, HostTypeOK, Prefixes
  <2> QED
    BY <2>2, <2>3, <2>4 DEF pinClientRoute, HostInv, PinnedFirst, Wg0Routes
<1> QED
  BY <1>1, <1>2 DEF pinClientRoute

\* bird.go:25-96: BIRD's actions touch neither the device nor the table.
LEMMA BirdActionsInv ==
  ASSUME NEW ok \in BOOLEAN, HostInv,
         startBIRD(ok) \/ stopBIRD(ok) \/ reloadBIRD(ok) \/ statusWG(ok)
  PROVE  HostInv'
<1>1. bird' \in BirdStates
  BY DEF startBIRD, stopBIRD, reloadBIRD, statusWG, HostInv, HostTypeOK
<1>2. spare' \in BOOLEAN /\ fresh' \in BOOLEAN
  BY DEF startBIRD, stopBIRD, reloadBIRD, statusWG, HostInv, HostTypeOK
<1>3. UNCHANGED <<wgFile, appFile, dev, wconf, table, routed>>
  BY DEF startBIRD, stopBIRD, reloadBIRD, statusWG
<1> QED
  BY <1>1, <1>2, <1>3 DEF HostInv, HostTypeOK, PinnedFirst, Wg0Routes

\* actions.go:5-36
LEMMA DispatchInv ==
  ASSUME NEW act, NEW app \in AppConfigs \cup {NoConfig}, NEW ok \in BOOLEAN,
         HostInv, dispatch(act, app, ok)
  PROVE  HostInv'
BY TunnelActionsInv, ApplyRoutesInv, PinClientInv, BirdActionsInv DEF dispatch
\* The host by itself, and the files saved by the web process.
LEMMA EnvironmentInv ==
  ASSUME HostInv, Environment
  PROVE  HostInv'
<1>1. CASE DeviceDies
  BY <1>1, NewDeviceInv DEF DeviceDies
<1>2. CASE BirdCrashes \/ BirdReady \/ BirdExits \/ SpareExits
  BY <1>2 DEF BirdCrashes, BirdReady, BirdExits, BirdEnds, SpareExits, HostInv, HostTypeOK, PinnedFirst, Wg0Routes
<1>3. CASE \E f \in WgConfigs \cup {NoConfig} : SaveWg(f)
  BY <1>3 DEF SaveWg, HostInv, HostTypeOK, PinnedFirst, Wg0Routes
<1>4. CASE \E a \in AppConfigs \cup {NoConfig} : SaveApp(a)
  BY <1>4 DEF SaveApp, HostInv, HostTypeOK, PinnedFirst, Wg0Routes
<1> QED
  BY <1>1, <1>2, <1>3, <1>4 DEF Environment

----------------------------------------------------------------------------
(* The stack *)

\* routing.go:31-73: every plan is a non-empty sequence of known actions.
LEMMA PlansAreActions ==
  /\ \A o \in Requests : Steps(o) \in Seq(Actions) /\ Steps(o) # <<>>
  /\ Plan.up \in Seq(Actions) /\ Plan.up # <<>>
  /\ Plan.start \in Seq(Actions) /\ Plan.start # <<>>
  /\ \A o \in Requests : <<"routes.pin_client">> \o Steps(o) \in Seq(Actions)
                         /\ <<"routes.pin_client">> \o Steps(o) # <<>>
<1>1. /\ Plan.up \in Seq(Actions) /\ Plan.up # <<>>
      /\ Plan.start \in Seq(Actions) /\ Plan.start # <<>>
      /\ Plan.stop \in Seq(Actions) /\ Plan.stop # <<>>
      /\ Plan.restart \in Seq(Actions) /\ Plan.restart # <<>>
      /\ Plan.apply \in Seq(Actions) /\ Plan.apply # <<>>
  BY DEF Plan, Actions
<1>2. DOMAIN Plan = {"start", "up", "stop", "restart", "apply"}
  BY DEF Plan
<1>3. ASSUME NEW o \in Requests PROVE Steps(o) \in Seq(Actions) /\ Steps(o) # <<>>
  <2>1. CASE o \in {"apply", "start", "stop", "restart"}
    BY <1>1, <1>2, <2>1 DEF Steps
  <2>2. CASE o \in {"wg.start", "wg.stop", "wg.restart", "bird.start", "bird.reload"}
    <3>1. Steps(o) = <<o>>
      BY <1>2, <2>2 DEF Steps
    <3>2. o \in Actions
      BY <2>2 DEF Actions
    <3> QED
      BY <3>1, <3>2
  <2> QED
    BY <2>1, <2>2, StackAssumption
<1>4. <<"routes.pin_client">> \in Seq(Actions)
  BY DEF Actions
<1>5. ASSUME NEW o \in Requests
      PROVE  /\ <<"routes.pin_client">> \o Steps(o) \in Seq(Actions)
             /\ <<"routes.pin_client">> \o Steps(o) # <<>>
  BY <1>3, <1>4, <1>5
<1> QED
  BY <1>1, <1>3, <1>5

\* The types of the handlers' and the supervisor's variables.
StackTypeOK ==
  /\ op \in [Handlers -> Requests \cup {None}]
  /\ todo \in [Handlers -> Seq(Actions)]
  /\ state \in [Handlers -> {"idle", "ready", "waiting"}]
  /\ result \in [Handlers -> {"none", "ok", "error"}]
  /\ clean \in [Handlers -> BOOLEAN]
  /\ late \in [Handlers -> BOOLEAN]
  /\ conn \in [Conns -> [st : {"free", "queued", "running"}, act : Actions,
                         by : Handlers \cup {None}]]
  /\ holder \in Conns \cup {None}
  /\ appRead \in AppConfigs \cup {NoConfig}

\* The type invariant splits into that of the host and that of the stack.
LEMMA TypeParts == TypeOK <=> HostTypeOK /\ StackTypeOK
BY DEF TypeOK, StackTypeOK

\* Inv of the stack's variables alone.
StackInv == StackTypeOK /\ Connected

\* Once h's call has returned and no connection is h's any more, the others
\* are connected as before.
LEMMA Disconnected ==
  ASSUME NEW h \in Handlers, StackInv, StackTypeOK',
         state'[h] # "waiting", state'[h] # "idle" => todo'[h] # <<>>,
         \A g \in Handlers \ {h} : state'[g] = state[g] /\ todo'[g] = todo[g],
         \A c \in Conns : conn'[c].by # h,
         \A c \in Conns : conn'[c].st = "free" => conn'[c].by = None,
         \A c \in Conns : conn[c].by # h =>
           \/ conn'[c].by = conn[c].by /\ conn'[c].act = conn[c].act
           \/ conn[c].by = None /\ conn'[c].by = None,
         \A c \in Conns : conn[c].by = h => conn'[c].by = None
  PROVE  Connected'
<1>1. \A c \in Conns : conn'[c].by # None =>
        /\ conn'[c].by = conn[c].by /\ conn'[c].act = conn[c].act
        /\ conn'[c].by \in Handlers \ {h}
  BY StackAssumption DEF StackTypeOK
<1>2. \A g \in Handlers : state'[g] # "idle" => todo'[g] # <<>>
  BY DEF StackInv, Connected
<1>3. \A c \in Conns : conn'[c].by # None =>
        state'[conn'[c].by] = "waiting" /\ conn'[c].act = Head(todo'[conn'[c].by])
  BY <1>1 DEF StackInv, Connected
<1>4. AnswersMatch'
  <2> SUFFICES ASSUME NEW g \in Handlers, state'[g] = "waiting"
      PROVE \E k \in Conns : /\ conn'[k].by = g /\ conn'[k].act = Head(todo'[g])
                             /\ \A d \in Conns \ {k} : conn'[d].by # g
    BY DEF AnswersMatch
  <2>1. g # h /\ state[g] = "waiting" /\ todo'[g] = todo[g]
    OBVIOUS
  <2>2. PICK k \in Conns : /\ conn[k].by = g /\ conn[k].act = Head(todo[g])
                           /\ \A d \in Conns \ {k} : conn[d].by # g
    BY <2>1 DEF StackInv, Connected, AnswersMatch
  <2>3. conn'[k].by = g /\ conn'[k].act = Head(todo'[g])
    BY <2>1, <2>2, StackAssumption
  <2>4. \A d \in Conns \ {k} : conn'[d].by # g
    BY <1>1, <2>2, StackAssumption
  <2> QED
    BY <2>3, <2>4
<1> QED
  BY <1>2, <1>3, <1>4 DEF Connected

\* api_routing.go:35-63: a request begins, nothing is connected yet.
LEMMA BeginInv ==
  ASSUME NEW h \in Handlers, NEW o \in Requests, NEW pin \in BOOLEAN,
         StackInv, Begin(h, o, pin)
  PROVE  StackInv'
<1>1. StackTypeOK'
  BY PlansAreActions DEF Begin, StackInv, StackTypeOK
<1>2. /\ todo'[h] # <<>> /\ state'[h] = "ready"
      /\ \A g \in Handlers \ {h} : state'[g] = state[g] /\ todo'[g] = todo[g]
      /\ conn' = conn
  BY PlansAreActions DEF Begin, StackInv, StackTypeOK
<1>3. \A c \in Conns : conn[c].by # h
  <2>1. state[h] = "idle" /\ h # None
    BY StackAssumption DEF Begin
  <2>2. \A c \in Conns : conn[c].by # None => state[conn[c].by] = "waiting"
    BY DEF StackInv, Connected
  <2> QED
    BY <2>1, <2>2
<1>4. \A c \in Conns : conn[c].st = "free" => conn[c].by = None
  BY DEF StackInv, Connected
<1> QED
  BY <1>1, <1>2, <1>3, <1>4, Disconnected DEF StackInv

\* client.go:16-48: the caller's connection is its only one and carries its action.
LEMMA CallInv ==
  ASSUME NEW h \in Handlers, StackInv, Call(h)
  PROVE  StackInv'
<1>1. PICK c \in Conns :
        /\ conn[c].st = "free"
        /\ conn' = [conn EXCEPT ![c] = [st |-> "queued", act |-> Head(todo[h]), by |-> h]]
  BY DEF Call
<1>2. Head(todo[h]) \in Actions
  BY DEF Call, StackInv, StackTypeOK, Connected
<1>3. StackTypeOK'
  BY <1>1, <1>2 DEF Call, StackInv, StackTypeOK
<1>4. conn[c].by = None /\ \A d \in Conns : conn[d].by # h
  BY <1>1, StackAssumption DEF Call, StackInv, StackTypeOK, Connected
<1>5. /\ conn'[c] = [st |-> "queued", act |-> Head(todo[h]), by |-> h]
      /\ \A d \in Conns \ {c} : conn'[d] = conn[d]
      /\ state'[h] = "waiting" /\ \A g \in Handlers \ {h} : state'[g] = state[g]
      /\ todo' = todo
  BY <1>1 DEF Call, StackInv, StackTypeOK
<1>6. AnswersMatch'
  <2> SUFFICES ASSUME NEW g \in Handlers, state'[g] = "waiting"
      PROVE \E k \in Conns : /\ conn'[k].by = g /\ conn'[k].act = Head(todo'[g])
                             /\ \A d \in Conns \ {k} : conn'[d].by # g
    BY DEF AnswersMatch
  <2>1. CASE g = h
    BY <1>4, <1>5, <2>1
  <2>2. CASE g # h
    BY <1>4, <1>5, <2>2, StackAssumption DEF StackInv, Connected, AnswersMatch
  <2> QED
    BY <2>1, <2>2
<1> QED
  BY <1>1, <1>3, <1>4, <1>5, <1>6, StackAssumption DEF Call, StackInv, StackTypeOK, Connected

\* routing.go:77-94: whatever a call returned, the handler has either actions
\* left or is done.
LEMMA ReturnedTypes ==
  ASSUME NEW h \in Handlers, NEW ok \in BOOLEAN, NEW up \in BOOLEAN,
         StackInv, state[h] # "idle", Returned(h, ok, up)
  PROVE  /\ op' \in [Handlers -> Requests \cup {None}]
         /\ todo' \in [Handlers -> Seq(Actions)]
         /\ state' \in [Handlers -> {"idle", "ready", "waiting"}]
         /\ result' \in [Handlers -> {"none", "ok", "error"}]
         /\ state'[h] # "waiting" /\ (state'[h] # "idle" => todo'[h] # <<>>)
         /\ \A g \in Handlers \ {h} : state'[g] = state[g] /\ todo'[g] = todo[g]
<1> DEFINE rest == IF op[h] = "apply" /\ Head(todo[h]) = "wg.status"
                   THEN IF ok /\ up THEN Plan.up ELSE Plan.start
                   ELSE IF ok THEN Tail(todo[h]) ELSE <<>>
<1>1. rest \in Seq(Actions)
  BY PlansAreActions DEF StackInv, StackTypeOK, Connected
<1>2. /\ todo' = [todo EXCEPT ![h] = rest]
      /\ state' = [state EXCEPT ![h] = IF rest = <<>> THEN "idle" ELSE "ready"]
      /\ result' = [result EXCEPT ![h] =
                      IF rest # <<>> THEN "none" ELSE IF ok THEN "ok" ELSE "error"]
      /\ op' = op
  BY DEF Returned
<1> HIDE DEF rest
<1> QED
  BY <1>1, <1>2 DEF StackInv, StackTypeOK

\* client.go:21-25: a call that cannot be made leaves no connection behind.
LEMMA DialFailsInv ==
  ASSUME NEW h \in Handlers, StackInv, DialFails(h)
  PROVE  StackInv'
<1>1. StackTypeOK'
  BY ReturnedTypes DEF DialFails, StackInv, StackTypeOK
<1>2. \A c \in Conns : conn[c].by # h
  BY StackAssumption DEF DialFails, StackInv, StackTypeOK, Connected
<1>3. conn' = conn /\ \A c \in Conns : conn[c].st = "free" => conn[c].by = None
  BY DEF DialFails, StackInv, Connected
<1>4. /\ state'[h] # "waiting" /\ (state'[h] # "idle" => todo'[h] # <<>>)
      /\ \A g \in Handlers \ {h} : state'[g] = state[g] /\ todo'[g] = todo[g]
  BY ReturnedTypes DEF DialFails
<1> QED
  BY <1>1, <1>2, <1>3, <1>4, Disconnected DEF StackInv

\* client.go:26-40: the caller closes its connection, the request stays.
LEMMA CallTimesOutInv ==
  ASSUME NEW h \in Handlers, StackInv, CallTimesOut(h)
  PROVE  StackInv'
<1>1. conn' = [c \in Conns |-> IF conn[c].by = h THEN [conn[c] EXCEPT !.by = None]
                                                 ELSE conn[c]]
  BY DEF CallTimesOut
<1>2. conn' \in [Conns -> [st : {"free", "queued", "running"}, act : Actions,
                           by : Handlers \cup {None}]]
  BY <1>1 DEF StackInv, StackTypeOK
<1>3. StackTypeOK'
  BY <1>2, ReturnedTypes DEF CallTimesOut, StackInv, StackTypeOK
<1>4. /\ \A c \in Conns : conn[c].by = h => conn'[c].by = None
      /\ \A c \in Conns : conn[c].by # h => conn'[c] = conn[c]
  BY <1>1 DEF StackInv, StackTypeOK
<1>5. \A c \in Conns : conn'[c].by # h
  BY <1>4, StackAssumption
<1>6. \A c \in Conns : conn'[c].st = "free" => conn'[c].by = None
  BY <1>1, <1>4 DEF StackInv, Connected
<1>7. /\ state'[h] # "waiting" /\ (state'[h] # "idle" => todo'[h] # <<>>)
      /\ \A g \in Handlers \ {h} : state'[g] = state[g] /\ todo'[g] = todo[g]
  BY ReturnedTypes DEF CallTimesOut
<1> QED
  BY <1>3, <1>4, <1>5, <1>6, <1>7, Disconnected DEF StackInv

\* server.go:70-71: the request whose turn it is gets ActionLock.
LEMMA LockInv ==
  ASSUME NEW c \in Conns, StackInv, appFile \in AppConfigs \cup {NoConfig}, Lock(c)
  PROVE  StackInv'
<1>1. StackTypeOK'
  BY DEF Lock, handlerVars, StackInv, StackTypeOK
<1>2. /\ \A d \in Conns : conn'[d].by = conn[d].by /\ conn'[d].act = conn[d].act
      /\ \A d \in Conns : conn'[d].st = "free" => conn[d].st = "free"
      /\ state' = state /\ todo' = todo
  BY DEF Lock, handlerVars, StackInv, StackTypeOK
<1> QED
  BY <1>1, <1>2 DEF StackInv, Connected, AnswersMatch

\* server.go:72-75: the action runs and answers the caller, if it still waits.
LEMMA ExecuteInv ==
  ASSUME NEW c \in Conns, StackInv, Execute(c)
  PROVE  StackInv'
<1> DEFINE act == conn[c].act
           h   == conn[c].by
<1>1. PICK ok \in BOOLEAN :
        /\ Disturb(act, h)
        /\ IF h = None THEN UNCHANGED handlerVars
           ELSE /\ Returned(h, ok, dev # "absent")
                /\ late' = [late EXCEPT ![h] = @ \/ LeftOver(act)]
  BY DEF Execute
<1>2. /\ conn' = [conn EXCEPT ![c] = Free]
      /\ holder' = None /\ appRead' = NoConfig
  BY DEF Execute
<1>3. conn' \in [Conns -> [st : {"free", "queued", "running"}, act : Actions,
                           by : Handlers \cup {None}]]
  BY <1>2 DEF StackInv, StackTypeOK, Free, Actions
<1>4. clean' \in [Handlers -> BOOLEAN]
  BY <1>1 DEF Disturb, StackInv, StackTypeOK
<1>5. conn'[c] = Free /\ \A d \in Conns \ {c} : conn'[d] = conn[d]
  BY <1>2 DEF StackInv, StackTypeOK
<1>6. CASE h = None
  <2>1. UNCHANGED handlerVars
    BY <1>1, <1>6
  <2>2. StackTypeOK'
    BY <1>2, <1>3, <1>4, <2>1 DEF StackInv, StackTypeOK, handlerVars
  <2>3. Connected'
    <3>1. state' = state /\ todo' = todo
      BY <2>1 DEF handlerVars
    <3>2. /\ conn'[c].by = None /\ conn[c].by = None
          /\ \A d \in Conns \ {c} : conn'[d] = conn[d]
      BY <1>5, <1>6 DEF Free
    <3>3. \A d \in Conns : conn'[d].by = conn[d].by
      BY <3>2
    <3>4. AnswersMatch'
      <4> SUFFICES ASSUME NEW g \in Handlers, state[g] = "waiting"
          PROVE \E k \in Conns : /\ conn'[k].by = g /\ conn'[k].act = Head(todo[g])
                                 /\ \A d \in Conns \ {k} : conn'[d].by # g
        BY <3>1 DEF AnswersMatch
      <4>1. PICK k \in Conns : /\ conn[k].by = g /\ conn[k].act = Head(todo[g])
                               /\ \A d \in Conns \ {k} : conn[d].by # g
        BY DEF StackInv, Connected, AnswersMatch
      <4>2. k # c
        BY <3>2, <4>1, StackAssumption
      <4> QED
        BY <3>2, <3>3, <4>1, <4>2
    <3> QED
      BY <3>1, <3>2, <3>3, <3>4 DEF StackInv, Connected
  <2> QED
    BY <2>2, <2>3 DEF StackInv
<1>7. CASE h # None
  <2>1. h \in Handlers /\ state[h] = "waiting" /\ Returned(h, ok, dev # "absent")
    BY <1>1, <1>7 DEF StackInv, StackTypeOK, Connected
  <2>2. (dev # "absent") \in BOOLEAN
    OBVIOUS
  <2>3. /\ op' \in [Handlers -> Requests \cup {None}]
        /\ todo' \in [Handlers -> Seq(Actions)]
        /\ state' \in [Handlers -> {"idle", "ready", "waiting"}]
        /\ result' \in [Handlers -> {"none", "ok", "error"}]
        /\ state'[h] # "waiting" /\ (state'[h] # "idle" => todo'[h] # <<>>)
        /\ \A g \in Handlers \ {h} : state'[g] = state[g] /\ todo'[g] = todo[g]
    BY <2>1, <2>2, ReturnedTypes
  <2>4. late' \in [Handlers -> BOOLEAN]
    BY <1>1, <1>7, <2>1 DEF StackInv, StackTypeOK
  <2>5. StackTypeOK'
    BY <1>2, <1>3, <1>4, <2>3, <2>4 DEF StackInv, StackTypeOK
  <2>6. \A d \in Conns \ {c} : conn[d].by # h
    BY <2>1 DEF StackInv, Connected, AnswersMatch
  <2>7. /\ \A d \in Conns : conn[d].by = h => conn'[d].by = None
        /\ \A d \in Conns : conn[d].by # h => conn'[d] = conn[d]
        /\ \A d \in Conns : conn'[d].by # h
        /\ \A d \in Conns : conn'[d].st = "free" => conn'[d].by = None
    BY <1>5, <1>7, <2>6 DEF Free, StackInv, Connected
  <2> HIDE DEF h
  <2> QED
    BY <2>1, <2>3, <2>5, <2>7, Disconnected DEF StackInv
<1> QED
  BY <1>6, <1>7
----------------------------------------------------------------------------
(* The theorems *)

\* A host that has no routes and a stack that has no requests.
LEMMA InitInv == Init => Inv
<1> SUFFICES ASSUME Init PROVE Inv
  OBVIOUS
<1>1. HostTypeOK
  BY DEF Init, HostInit, HostTypeOK
<1>2. PinnedFirst
  BY DEF Init, HostInit, PinnedFirst, Wg0Routes
<1>3. StackTypeOK
  <2>1. <<>> \in Seq(Actions)
    OBVIOUS
  <2>2. Free \in [st : {"free", "queued", "running"}, act : Actions,
                  by : Handlers \cup {None}]
    BY DEF Free, Actions
  <2> QED
    BY <2>1, <2>2 DEF Init, StackTypeOK
<1>4. Connected
  BY DEF Init, Connected, AnswersMatch, Free
<1> QED
  BY <1>1, <1>2, <1>3, <1>4, TypeParts DEF Inv

\* Every step of a handler, of the supervisor and of the environment preserves
\* the two halves of Inv.
LEMMA NextInv == Inv /\ [Next]_vars => Inv'
<1> SUFFICES ASSUME Inv, [Next]_vars PROVE Inv'
  OBVIOUS
<1>1. HostInv /\ StackInv
  BY TypeParts DEF Inv, HostInv, StackInv
<1>2. SUFFICES HostInv' /\ StackInv'
  BY DEF HostInv, StackInv, Inv, TypeOK, StackTypeOK
<1>3. ASSUME UNCHANGED hostVars PROVE HostInv'
  BY <1>1, <1>3 DEF HostInv, HostTypeOK, PinnedFirst, Wg0Routes
<1>4. ASSUME NEW h \in Handlers, NEW o \in Requests, NEW pin \in PinClient \cup {FALSE},
             Begin(h, o, pin)
      PROVE  HostInv' /\ StackInv'
  <2>1. pin \in BOOLEAN
    BY StackAssumption
  <2> QED
    BY <1>1, <1>3, <1>4, <2>1, BeginInv DEF Begin
<1>5. ASSUME NEW h \in Handlers, Call(h) \/ DialFails(h) \/ CallTimesOut(h)
      PROVE  HostInv' /\ StackInv'
  <2>1. UNCHANGED hostVars
    BY <1>5 DEF Call, DialFails, CallTimesOut
  <2> QED
    BY <1>1, <1>3, <1>5, <2>1, CallInv, DialFailsInv, CallTimesOutInv
<1>6. ASSUME NEW c \in Conns, Lock(c)
      PROVE  HostInv' /\ StackInv'
  <2>1. UNCHANGED hostVars
    BY <1>6 DEF Lock
  <2>2. appFile \in AppConfigs \cup {NoConfig}
    BY <1>1 DEF HostInv, HostTypeOK
  <2> QED
    BY <1>1, <1>3, <1>6, <2>1, <2>2, LockInv
<1>7. ASSUME NEW c \in Conns, Execute(c)
      PROVE  HostInv' /\ StackInv'
  <2>1. PICK ok \in BOOLEAN : dispatch(conn[c].act, appRead, ok)
    BY <1>7 DEF Execute
  <2>2. appRead \in AppConfigs \cup {NoConfig}
    BY <1>1 DEF StackInv, StackTypeOK
  <2> QED
    BY <1>1, <1>7, <2>1, <2>2, DispatchInv, ExecuteInv
<1>8. CASE Environment
  <2>1. UNCHANGED <<handlerVars, conn, holder, appRead>>
    BY <1>8 DEF Environment
  <2>2. clean' \in [Handlers -> BOOLEAN]
    BY <1>1, <1>8 DEF Environment, Interfere, StackInv, StackTypeOK
  <2>3. StackInv'
    BY <1>1, <2>1, <2>2 DEF StackInv, StackTypeOK, Connected, AnswersMatch, handlerVars
  <2> QED
    BY <1>1, <1>8, <2>3, EnvironmentInv
<1>9. CASE UNCHANGED vars
  <2>1. UNCHANGED hostVars /\ UNCHANGED stackVars
    BY <1>9 DEF vars
  <2>2. StackInv'
    BY <1>1, <2>1
       DEF stackVars, handlerVars, StackInv, StackTypeOK, Connected, AnswersMatch
  <2> QED
    BY <1>3, <2>1, <2>2
<1> QED
  BY <1>4, <1>5, <1>6, <1>7, <1>8, <1>9 DEF Next

\* The conjunction holds throughout every behaviour.
THEOREM Invariance == Spec => []Inv
BY InitInv, NextInv, PTL DEF Spec

\* Every variable of the host and of the stack keeps its type.
THEOREM TypeCorrect == Spec => []TypeOK
BY Invariance, PTL DEF Inv

\* client.go:26-40: a waiting handler has exactly one connection, and it carries
\* the action the handler is at, however many calls were given up before.
THEOREM LateAnswersAreIgnored == Spec => []AnswersMatch
BY Invariance, PTL DEF Inv, Connected

\* routes.go:92-117: with any configs, endpoints, routes, failures and number of
\* requests, the endpoint of the config whose routes are in the table is reached
\* outside the tunnel.
THEOREM EndpointStaysOutside == Spec => []EndpointOutsideTunnel
<1>1. Inv => EndpointOutsideTunnel
  <2> SUFFICES ASSUME Inv, Wg0Routes # {}
               PROVE  /\ routed # <<>>
                      /\ wconf = routed[1] =>
                           \A e \in EndpointsOf[wconf] \ AdvertisedOf[routed[2]] :
                             Lookup(e) = "eth0"
    BY DEF EndpointOutsideTunnel
  <2>1. routed # <<>>
    BY DEF Inv, PinnedFirst
  <2>2. \A e \in EndpointsOf[routed[1]] \ AdvertisedOf[routed[2]] : table[e] = "eth0"
    BY <2>1 DEF Inv, PinnedFirst
  <2> QED
    BY <2>1, <2>2 DEF Lookup
<1> QED
  BY <1>1, Invariance, PTL

\* One action runs at a time, and ActionLock is never left with a connection that
\* is done, its client gone or not.
LockHeldByRunner == \A c \in Conns : conn[c].st = "running" <=> holder = c

\* A step that begins, queues or gives up a call leaves the running action alone.
LEMMA LockKept ==
  ASSUME StackTypeOK, LockHeldByRunner, [Next]_vars
  PROVE  LockHeldByRunner'
<1> USE StackAssumption
<1>1. ASSUME NEW h \in Handlers, Call(h)
      PROVE  LockHeldByRunner'
  BY <1>1 DEF Call, LockHeldByRunner, StackTypeOK
<1>2. ASSUME NEW h \in Handlers, CallTimesOut(h)
      PROVE  LockHeldByRunner'
  <2>1. \A c \in Conns : conn'[c].st = conn[c].st
    BY <1>2 DEF CallTimesOut, StackTypeOK
  <2> QED
    BY <1>2, <2>1 DEF CallTimesOut, LockHeldByRunner
<1>3. ASSUME NEW c \in Conns, Lock(c)
      PROVE  LockHeldByRunner'
  BY <1>3 DEF Lock, LockHeldByRunner, StackTypeOK
<1>4. ASSUME NEW c \in Conns, Execute(c)
      PROVE  LockHeldByRunner'
  BY <1>4 DEF Execute, LockHeldByRunner, StackTypeOK, Free
<1>5. ASSUME UNCHANGED <<conn, holder>>
      PROVE  LockHeldByRunner'
  BY <1>5 DEF LockHeldByRunner
<1> QED
  BY <1>1, <1>2, <1>3, <1>4, <1>5
     DEF Next, Begin, DialFails, Environment, vars, stackVars

\* server.go:70-75: for any number of clients and connections, whoever waits for
\* ActionLock waits for an action that runs.
THEOREM LockIsReleased == Spec => []LockHeldByRunner
<1>1. Init => LockHeldByRunner
  BY StackAssumption DEF Init, LockHeldByRunner, Free
<1>2. Inv => StackTypeOK
  BY TypeParts DEF Inv
<1> QED
  BY <1>1, <1>2, LockKept, Invariance, PTL DEF Spec

----------------------------------------------------------------------------
(* What a request that succeeds has done *)

BringUp == {"apply", "start", "restart"}

AfterTunnel == <<"routes.apply", "bird.start", "bird.reload">>
AfterRoutes == <<"bird.start", "bird.reload">>
AfterBird   == <<"bird.reload">>

\* What may be left of a request's plan while it runs.
Left(o) ==
  IF o = "stop" THEN {Plan.stop, <<"wg.stop">>}
  ELSE IF o \in BringUp
  THEN {Steps(o), <<"routes.pin_client">> \o Steps(o), AfterTunnel, AfterRoutes, AfterBird}
         \cup (IF o = "apply" THEN {Plan.up, Plan.start} ELSE {})
         \cup (IF o = "restart" THEN {Tail(Plan.restart)} ELSE {})
  ELSE {Steps(o)}

Planned(h) == state[h] # "idle" => op[h] \in Requests /\ todo[h] \in Left(op[h])

\* The action that holds the lock read app.yaml as it is, unless a save or
\* another action came in between.
Holding ==
  holder # None =>
    /\ conn[holder].st = "running"
    /\ conn[holder].act = "routes.apply" /\ conn[holder].by # None
         /\ clean[conn[holder].by] => appRead = appFile

At(h, rest) == state[h] # "idle" /\ todo[h] = rest
Done(h)     == state[h] = "idle" /\ result[h] = "ok"

TunnelUp == dev = "up" /\ wgFile # NoConfig /\ wconf = wgFile

\* A request that nothing disturbed has done what its plan has behind it.
BroughtUp(h) ==
  /\ At(h, AfterTunnel) => TunnelUp /\ (op[h] = "restart" => Wg0Routes = {})
  /\ At(h, AfterRoutes) \/ At(h, AfterBird) \/ Done(h) =>
       TunnelRouted /\ (op[h] = "restart" => Wg0Routes = AdvertisedOf[appFile])
  /\ At(h, AfterBird) => late[h] \/ bird = "up"
  /\ Done(h) => late[h] \/ (bird = "up" /\ fresh)

TakenDown(h) ==
  /\ At(h, <<"wg.stop">>) \/ Done(h) =>
       late[h] \/ (bird \in {"stopping", "down"} /\ ~spare)
  /\ Done(h) => dev = "absent" /\ Wg0Routes = {}

Reached(h) ==
  clean[h] => /\ op[h] \in BringUp => BroughtUp(h)
              /\ op[h] = "stop" => TakenDown(h)

DoneInv == Holding /\ \A h \in Handlers : Planned(h) /\ Reached(h)

\* The plans, action by action.
LEMMA Walk ==
  /\ Plan.start # <<>> /\ Head(Plan.start) = "wg.start" /\ Tail(Plan.start) = AfterTunnel
  /\ Plan.up # <<>> /\ Head(Plan.up) = "wg.restart" /\ Tail(Plan.up) = AfterTunnel
  /\ Plan.restart # <<>> /\ Head(Plan.restart) = "bird.stop"
  /\ Tail(Plan.restart) # <<>> /\ Head(Tail(Plan.restart)) = "wg.restart"
  /\ Tail(Tail(Plan.restart)) = AfterTunnel
  /\ Plan.apply # <<>> /\ Head(Plan.apply) = "wg.status" /\ Tail(Plan.apply) = <<>>
  /\ Plan.stop # <<>> /\ Head(Plan.stop) = "bird.stop" /\ Tail(Plan.stop) = <<"wg.stop">>
  /\ <<"wg.stop">> # <<>> /\ Head(<<"wg.stop">>) = "wg.stop" /\ Tail(<<"wg.stop">>) = <<>>
  /\ AfterTunnel # <<>> /\ Head(AfterTunnel) = "routes.apply" /\ Tail(AfterTunnel) = AfterRoutes
  /\ AfterRoutes # <<>> /\ Head(AfterRoutes) = "bird.start" /\ Tail(AfterRoutes) = AfterBird
  /\ AfterBird # <<>> /\ Head(AfterBird) = "bird.reload" /\ Tail(AfterBird) = <<>>
BY DEF Plan, AfterTunnel, AfterRoutes, AfterBird

LEMMA StepsAre ==
  /\ Steps("start") = Plan.start /\ Steps("restart") = Plan.restart
  /\ Steps("apply") = Plan.apply /\ Steps("stop") = Plan.stop
<1>1. DOMAIN Plan = {"start", "up", "stop", "restart", "apply"}
  BY DEF Plan
<1> QED
  BY <1>1 DEF Steps

LEMMA PinFirst ==
  ASSUME NEW o \in Requests
  PROVE  LET t == <<"routes.pin_client">> \o Steps(o)
         IN  Head(t) = "routes.pin_client" /\ Tail(t) = Steps(o)
<1>1. Steps(o) \in Seq(Actions)
  BY PlansAreActions
<1> HIDE DEF Steps
<1> QED
  BY <1>1

\* Where a request that brings the stack up can be, and what comes next.
LEMMA LeftCases ==
  ASSUME NEW o \in BringUp, o \in Requests, NEW t \in Left(o)
  PROVE  \/ Head(t) = "routes.pin_client" /\ Tail(t) = Steps(o)
         \/ Head(t) = "wg.status" /\ o = "apply"
         \/ Head(t) = "bird.stop" /\ o = "restart" /\ Tail(t) = Tail(Plan.restart)
         \/ /\ Head(t) \in {"wg.start", "wg.restart"} /\ Tail(t) = AfterTunnel
            /\ o = "restart" => Head(t) = "wg.restart"
         \/ t = AfterTunnel
         \/ t = AfterRoutes
         \/ t = AfterBird
<1>1. t \in {Steps(o), <<"routes.pin_client">> \o Steps(o), AfterTunnel, AfterRoutes, AfterBird}
              \cup (IF o = "apply" THEN {Plan.up, Plan.start} ELSE {})
              \cup (IF o = "restart" THEN {Tail(Plan.restart)} ELSE {})
  BY DEF Left, BringUp
<1>2. CASE t = <<"routes.pin_client">> \o Steps(o)
  BY <1>2, PinFirst
<1>3. CASE t = Steps(o)
  BY <1>3, StepsAre, Walk DEF BringUp
<1>4. CASE o = "apply" /\ t \in {Plan.up, Plan.start}
  BY <1>4, Walk
<1>5. CASE o = "restart" /\ t = Tail(Plan.restart)
  BY <1>5, Walk
<1> QED
  BY <1>1, <1>2, <1>3, <1>4, <1>5

\* ... and the next of those places.
LEMMA NextOf ==
  ASSUME NEW h \in Handlers, NEW ok \in BOOLEAN, NEW up \in BOOLEAN,
         StackTypeOK, Planned(h), state[h] # "idle", Returned(h, ok, up)
  PROVE  /\ op' = op
         /\ Planned(h)'
         /\ \A g \in Handlers \ {h} : /\ state'[g] = state[g] /\ todo'[g] = todo[g]
                                      /\ result'[g] = result[g]
         /\ op[h] \in BringUp =>
              /\ At(h, AfterTunnel)' =>
                   /\ ok /\ Head(todo[h]) \in {"wg.start", "wg.restart"}
                   /\ op[h] = "restart" => Head(todo[h]) = "wg.restart"
              /\ At(h, AfterRoutes)' => ok /\ todo[h] = AfterTunnel
              /\ At(h, AfterBird)' => ok /\ todo[h] = AfterRoutes
              /\ Done(h)' => ok /\ todo[h] = AfterBird
         /\ op[h] = "stop" =>
              /\ At(h, <<"wg.stop">>)' => ok /\ todo[h] = Plan.stop
              /\ Done(h)' => ok /\ todo[h] = <<"wg.stop">>
<1> DEFINE rest == IF op[h] = "apply" /\ Head(todo[h]) = "wg.status"
                   THEN IF ok /\ up THEN Plan.up ELSE Plan.start
                   ELSE IF ok THEN Tail(todo[h]) ELSE <<>>
<1>1. /\ todo' = [todo EXCEPT ![h] = rest]
      /\ state' = [state EXCEPT ![h] = IF rest = <<>> THEN "idle" ELSE "ready"]
      /\ result' = [result EXCEPT ![h] =
                      IF rest # <<>> THEN "none" ELSE IF ok THEN "ok" ELSE "error"]
      /\ op' = op
  BY DEF Returned
<1>2. /\ todo'[h] = rest
      /\ state'[h] = IF rest = <<>> THEN "idle" ELSE "ready"
      /\ result'[h] = IF rest # <<>> THEN "none" ELSE IF ok THEN "ok" ELSE "error"
      /\ \A g \in Handlers \ {h} : /\ state'[g] = state[g] /\ todo'[g] = todo[g]
                                   /\ result'[g] = result[g]
  <2> HIDE DEF rest
  <2> QED
    BY <1>1 DEF StackTypeOK
<1>3. op[h] \in Requests /\ todo[h] \in Left(op[h])
  BY DEF Planned
<1>4. CASE op[h] \in BringUp
  <2>1. \/ rest = <<>> /\ ~ok
        \/ rest = <<>> /\ ok /\ todo[h] = AfterBird
        \/ rest = Steps(op[h])
        \/ rest \in {Plan.up, Plan.start} /\ op[h] = "apply"
        \/ rest = Tail(Plan.restart) /\ op[h] = "restart"
        \/ /\ ok /\ rest = AfterTunnel /\ Head(todo[h]) \in {"wg.start", "wg.restart"}
           /\ op[h] = "restart" => Head(todo[h]) = "wg.restart"
        \/ ok /\ rest = AfterRoutes /\ todo[h] = AfterTunnel
        \/ ok /\ rest = AfterBird /\ todo[h] = AfterRoutes
    BY <1>3, <1>4, LeftCases, Walk
  <2>2. Planned(h)'
    <3>1. state'[h] # "idle" => rest \in Left(op[h])
      BY <1>2, <1>4, <2>1 DEF Left, BringUp
    <3> QED
      BY <1>1, <1>2, <1>3, <3>1 DEF Planned
  <2>3. Steps(op[h]) \notin {<<>>, AfterTunnel, AfterRoutes, AfterBird}
    BY <1>4, StepsAre, Walk DEF BringUp
  <2>4. {Plan.up, Plan.start, Tail(Plan.restart)} \cap {<<>>, AfterTunnel, AfterRoutes, AfterBird} = {}
    BY Walk
  <2>5. AfterTunnel # <<>> /\ AfterTunnel # AfterRoutes /\ AfterTunnel # AfterBird
        /\ AfterRoutes # <<>> /\ AfterRoutes # AfterBird /\ AfterBird # <<>>
    BY Walk
  <2> HIDE DEF rest
  <2>6. /\ At(h, AfterTunnel)' =>
             /\ ok /\ Head(todo[h]) \in {"wg.start", "wg.restart"}
             /\ op[h] = "restart" => Head(todo[h]) = "wg.restart"
        /\ At(h, AfterRoutes)' => ok /\ todo[h] = AfterTunnel
        /\ At(h, AfterBird)' => ok /\ todo[h] = AfterRoutes
        /\ Done(h)' => ok /\ todo[h] = AfterBird
    BY <1>2, <2>1, <2>3, <2>4, <2>5 DEF At, Done
  <2> QED
    BY <1>1, <1>2, <1>4, <2>2, <2>6 DEF BringUp
<1>5. CASE op[h] = "stop"
  <2>1. todo[h] \in {Plan.stop, <<"wg.stop">>}
    BY <1>3, <1>5 DEF Left
  <2>2. \/ rest = <<>> /\ ~ok
        \/ rest = <<>> /\ ok /\ todo[h] = <<"wg.stop">>
        \/ ok /\ rest = <<"wg.stop">> /\ todo[h] = Plan.stop
    BY <1>5, <2>1, Walk
  <2>3. Planned(h)'
    <3>1. state'[h] # "idle" => rest = <<"wg.stop">>
      BY <1>2, <2>2
    <3>2. <<"wg.stop">> \in Left("stop")
      BY DEF Left
    <3> HIDE DEF rest
    <3> QED
      BY <1>1, <1>2, <1>3, <1>5, <3>1, <3>2 DEF Planned
  <2> HIDE DEF rest
  <2>4. /\ At(h, <<"wg.stop">>)' => ok /\ todo[h] = Plan.stop
        /\ Done(h)' => ok /\ todo[h] = <<"wg.stop">>
    BY <1>2, <2>2, Walk DEF At, Done
  <2> QED
    BY <1>1, <1>2, <1>5, <2>3, <2>4 DEF BringUp
<1>6. CASE op[h] \notin BringUp \cup {"stop"}
  <2>1. todo[h] = <<op[h]>>
    <3>1. op[h] \notin DOMAIN Plan
      BY <1>3, <1>6, StackAssumption DEF Plan, BringUp
    <3> QED
      BY <1>3, <1>6, <3>1 DEF Left, Steps
  <2>2. rest = <<>>
    BY <1>6, <2>1 DEF BringUp
  <2> QED
    BY <1>1, <1>2, <1>6, <2>2 DEF Planned
<1> QED
  BY <1>4, <1>5, <1>6

\* wg.go:125-199: a tunnel that was started, restarted or stopped successfully.
LEMMA TunnelDone ==
  ASSUME NEW act, NEW app, NEW ok \in BOOLEAN, HostTypeOK, dispatch(act, app, ok), ok
  PROVE  /\ act \in {"wg.start", "wg.restart"} => TunnelUp'
         /\ act = "wg.restart" => Wg0Routes' = {}
         /\ act = "wg.stop" => /\ dev' = "absent" /\ Wg0Routes' = {}
                               /\ UNCHANGED birdVars
<1>1. act = "wg.start" => startWG(ok)
  BY DEF dispatch
<1>2. act = "wg.restart" => restartWG(ok)
  BY DEF dispatch
<1>3. act = "wg.stop" => stopWG(ok)
  BY DEF dispatch
<1>4. ASSUME NEW d, NEW c, NewDevice(d, c) PROVE Wg0Routes' = {}
  BY <1>4, DropsOnlyWg0 DEF NewDevice, Wg0Routes
<1>5. act = "wg.start" => TunnelUp'
  BY <1>1 DEF startWG, KeepDevice, TunnelUp
<1>6. act = "wg.restart" => TunnelUp' /\ Wg0Routes' = {}
  BY <1>2, <1>4 DEF restartWG, NewDevice, TunnelUp
<1>7. act = "wg.stop" => dev' = "absent" /\ Wg0Routes' = {} /\ UNCHANGED birdVars
  BY <1>3, <1>4 DEF stopWG, NewDevice
<1> QED
  BY <1>5, <1>6, <1>7

\* routes.go:67-119: an Apply that succeeds has routed every advertised prefix
\* into the tunnel and every other endpoint and client past it.
LEMMA RoutesDone ==
  ASSUME NEW ok \in BOOLEAN, HostTypeOK, dispatch("routes.apply", appFile, ok), ok, TunnelUp
  PROVE  /\ TunnelRouted'
         /\ Wg0Routes = {} => Wg0Routes' = AdvertisedOf[appFile]'
<1>1. applyRoutes(appFile, ok)
  BY DEF dispatch
<1> DEFINE P == EndpointsOf[wgFile] \cup PinnedOf[appFile]
           A == AdvertisedOf[appFile]
<1>2. /\ appFile # NoConfig
      /\ Replace(P, A) /\ UNCHANGED <<wgFile, appFile, dev, wconf>>
  BY <1>1 DEF applyRoutes
<1>3. P \in SUBSET Hosts /\ A \in SUBSET Prefixes
  BY <1>2, HostAssumption DEF HostTypeOK, TunnelUp
<1> HIDE DEF P, A
<1>4. \A p \in Prefixes : table'[p] = IF p \in A THEN IF dev = "up" THEN "wg0" ELSE "none"
                                      ELSE IF p \in P THEN "eth0" ELSE table[p]
  BY <1>2, <1>3, ReplaceType
<1>5. A \subseteq Wg0Routes' /\ (Wg0Routes = {} => Wg0Routes' = A)
  BY <1>3, <1>4 DEF TunnelUp, Wg0Routes
<1>6. \A e \in P \ A : table'[e] = "eth0"
  BY <1>3, <1>4 DEF Prefixes
<1> QED
  BY <1>2, <1>5, <1>6 DEF TunnelUp, TunnelRouted, P, A

\* bird.go:25-96: what a BIRD action that succeeds leaves.
LEMMA BirdDone ==
  ASSUME NEW act \in {"bird.start", "bird.stop", "bird.reload"}, NEW app,
         NEW ok \in BOOLEAN, HostTypeOK, dispatch(act, app, ok), ok
  PROVE  /\ UNCHANGED <<wgFile, appFile, dev, wconf, table>>
         /\ act = "bird.start" => bird' = "up" \/ LeftOver(act)
         /\ act = "bird.stop" => bird' = "stopping" /\ (~spare' \/ LeftOver(act))
         /\ act = "bird.reload" /\ bird = "up" => bird' = "up" /\ fresh'
<1>1. CASE act = "bird.start"
  <2>1. startBIRD(ok)
    BY <1>1 DEF dispatch
  <2>2. UNCHANGED <<wgFile, appFile, dev, wconf, table>>
    BY <2>1 DEF startBIRD
  <2>3. bird' = "up" \/ bird = "stopping"
    BY <2>1 DEF startBIRD, Answers
  <2> QED
    BY <1>1, <2>2, <2>3 DEF LeftOver
<1>2. CASE act = "bird.stop"
  <2>1. stopBIRD(ok)
    BY <1>2 DEF dispatch
  <2>2. spare \in BOOLEAN /\ spare' = spare
    BY <2>1 DEF stopBIRD, HostTypeOK
  <2> QED
    BY <1>2, <2>1, <2>2 DEF stopBIRD, LeftOver
<1>3. CASE act = "bird.reload"
  <2>1. reloadBIRD(ok)
    BY <1>3 DEF dispatch
  <2> QED
    BY <1>3, <2>1 DEF reloadBIRD
<1> QED
  BY <1>1, <1>2, <1>3

\* What a request has reached does not depend on the others' variables.
LEMMA ReachedKept ==
  ASSUME NEW g \in Handlers, Reached(g), UNCHANGED hostVars,
         op'[g] = op[g], todo'[g] = todo[g], late'[g] = late[g], result'[g] = result[g],
         clean'[g] => clean[g], state'[g] = "idle" <=> state[g] = "idle"
  PROVE  Reached(g)'
<1>1. /\ At(g, AfterTunnel)' <=> At(g, AfterTunnel)
      /\ At(g, AfterRoutes)' <=> At(g, AfterRoutes)
      /\ At(g, AfterBird)' <=> At(g, AfterBird)
      /\ At(g, <<"wg.stop">>)' <=> At(g, <<"wg.stop">>)
      /\ Done(g)' <=> Done(g)
  BY DEF At, Done
<1>2. /\ TunnelUp' <=> TunnelUp
      /\ TunnelRouted' <=> TunnelRouted
      /\ Wg0Routes' = Wg0Routes
  BY DEF TunnelUp, TunnelRouted, Wg0Routes
<1>3. BroughtUp(g) => BroughtUp(g)'
  BY <1>1, <1>2 DEF BroughtUp
<1>4. TakenDown(g) => TakenDown(g)'
  BY <1>1, <1>2 DEF TakenDown
<1> QED
  BY <1>3, <1>4 DEF Reached

\* routing.go:31-96: the request whose action was executed has reached more, if
\* nothing has disturbed it.
LEMMA ExecuteReached ==
  ASSUME NEW h \in Handlers, NEW ok \in BOOLEAN, NEW up \in BOOLEAN, NEW app,
         HostTypeOK, StackTypeOK, Planned(h), Reached(h), clean[h], state[h] # "idle",
         dispatch(Head(todo[h]), app, ok), Returned(h, ok, up),
         todo[h] = AfterTunnel => app = appFile,
         late'[h] = (late[h] \/ LeftOver(Head(todo[h])))
  PROVE  Reached(h)'
<1> DEFINE act == Head(todo[h])
<1>0. op' = op
  BY DEF Returned
<1>1. CASE op[h] \in BringUp
  <2>0. BroughtUp(h)
    BY <1>1 DEF Reached
  <2>1. ASSUME At(h, AfterTunnel)'
        PROVE  TunnelUp' /\ (op[h] = "restart" => Wg0Routes' = {})
    BY <1>1, <2>1, NextOf, TunnelDone
  <2>2. ASSUME At(h, AfterRoutes)'
        PROVE  TunnelRouted' /\ (op[h] = "restart" => Wg0Routes' = AdvertisedOf[appFile]')
    <3>1. ok /\ todo[h] = AfterTunnel /\ act = "routes.apply"
      BY <1>1, <2>2, NextOf, Walk
    <3>2. TunnelUp /\ (op[h] = "restart" => Wg0Routes = {})
      BY <2>0, <3>1 DEF BroughtUp, At
    <3> QED
      BY <3>1, <3>2, RoutesDone
  <2>3. ASSUME At(h, AfterBird)'
        PROVE  /\ TunnelRouted' /\ (op[h] = "restart" => Wg0Routes' = AdvertisedOf[appFile]')
               /\ late'[h] \/ bird' = "up"
    <3>1. ok /\ todo[h] = AfterRoutes /\ act = "bird.start"
      BY <1>1, <2>3, NextOf, Walk
    <3>2. TunnelRouted /\ (op[h] = "restart" => Wg0Routes = AdvertisedOf[appFile])
      BY <2>0, <3>1 DEF BroughtUp, At
    <3>3. UNCHANGED <<wgFile, appFile, dev, wconf, table>> /\ (bird' = "up" \/ LeftOver(act))
      BY <3>1, BirdDone
    <3> QED
      BY <3>2, <3>3 DEF TunnelRouted, Wg0Routes
  <2>4. ASSUME Done(h)'
        PROVE  /\ TunnelRouted' /\ (op[h] = "restart" => Wg0Routes' = AdvertisedOf[appFile]')
               /\ late'[h] \/ (bird' = "up" /\ fresh')
    <3>1. ok /\ todo[h] = AfterBird /\ act = "bird.reload"
      BY <1>1, <2>4, NextOf, Walk
    <3>2. /\ TunnelRouted /\ (op[h] = "restart" => Wg0Routes = AdvertisedOf[appFile])
          /\ late[h] \/ bird = "up"
      BY <2>0, <3>1 DEF BroughtUp, At
    <3>3. /\ UNCHANGED <<wgFile, appFile, dev, wconf, table>>
          /\ bird = "up" => bird' = "up" /\ fresh'
      BY <3>1, BirdDone
    <3> QED
      BY <3>2, <3>3 DEF TunnelRouted, Wg0Routes
  <2>5. BroughtUp(h)'
    BY <1>0, <2>1, <2>2, <2>3, <2>4 DEF BroughtUp
  <2> QED
    BY <1>0, <1>1, <2>5 DEF Reached, BringUp
<1>2. CASE op[h] = "stop"
  <2>0. TakenDown(h)
    BY <1>2 DEF Reached
  <2>1. ASSUME At(h, <<"wg.stop">>)'
        PROVE  late'[h] \/ (bird' \in {"stopping", "down"} /\ ~spare')
    <3>1. ok /\ act = "bird.stop"
      BY <1>2, <2>1, NextOf, Walk
    <3> QED
      BY <3>1, BirdDone
  <2>2. ASSUME Done(h)'
        PROVE  /\ late'[h] \/ (bird' \in {"stopping", "down"} /\ ~spare')
               /\ dev' = "absent" /\ Wg0Routes' = {}
    <3>1. ok /\ todo[h] = <<"wg.stop">> /\ act = "wg.stop"
      BY <1>2, <2>2, NextOf, Walk
    <3>2. late[h] \/ (bird \in {"stopping", "down"} /\ ~spare)
      BY <2>0, <3>1 DEF TakenDown, At
    <3>3. dev' = "absent" /\ Wg0Routes' = {} /\ UNCHANGED birdVars
      BY <3>1, TunnelDone
    <3> QED
      BY <3>2, <3>3
  <2> QED
    BY <1>0, <1>2, <2>1, <2>2 DEF Reached, TakenDown, BringUp
<1>3. CASE op[h] \notin BringUp \cup {"stop"}
  BY <1>0, <1>3 DEF Reached
<1> QED
  BY <1>1, <1>2, <1>3

\* Each step preserves DoneInv.
LEMMA BeginDone ==
  ASSUME NEW h \in Handlers, NEW o \in Requests, NEW pin \in BOOLEAN,
         Inv, DoneInv, Begin(h, o, pin)
  PROVE  DoneInv'
<1> USE DEF DoneInv
<1>0. StackTypeOK
  BY TypeParts DEF Inv
<1>1. /\ op'[h] = o /\ state'[h] = "ready"
      /\ todo'[h] = IF pin THEN <<"routes.pin_client">> \o Steps(o) ELSE Steps(o)
      /\ pin => o \in BringUp
      /\ \A g \in Handlers \ {h} : /\ op'[g] = op[g] /\ state'[g] = state[g]
                                   /\ todo'[g] = todo[g] /\ result'[g] = result[g]
                                   /\ late'[g] = late[g] /\ clean'[g] = clean[g]
  <2> HIDE DEF Steps
  <2> QED
    BY <1>0 DEF Begin, StackTypeOK, BringUp
<1>2. Planned(h)'
  <2>1. Steps(o) \in Left(o)
    BY StepsAre DEF Left, BringUp
  <2>2. pin => <<"routes.pin_client">> \o Steps(o) \in Left(o)
    BY <1>1 DEF Left, BringUp
  <2> QED
    BY <1>1, <2>1, <2>2 DEF Planned
<1>3. Reached(h)'
  <2>1. ~Done(h)'
    BY <1>1 DEF Done
  <2>2. CASE o \in BringUp
    <3>1. Head(todo'[h]) \in {"routes.pin_client", "wg.start", "wg.status", "bird.stop"}
      <4>1. Head(Steps(o)) \in {"wg.start", "wg.status", "bird.stop"}
        BY <2>2, StepsAre, Walk DEF BringUp
      <4>2. Head(<<"routes.pin_client">> \o Steps(o)) = "routes.pin_client"
        BY PinFirst
      <4> QED
        BY <1>1, <4>1, <4>2, Zenon
    <3>2. ~At(h, AfterTunnel)' /\ ~At(h, AfterRoutes)' /\ ~At(h, AfterBird)'
      BY <3>1, Walk DEF At
    <3> QED
      BY <1>1, <2>1, <2>2, <3>2 DEF Reached, BroughtUp, BringUp
  <2>3. CASE o = "stop"
    <3>1. todo'[h] = Plan.stop
      BY <1>1, <2>3, StepsAre DEF BringUp
    <3>2. ~At(h, <<"wg.stop">>)'
      BY <3>1, Walk DEF At
    <3> QED
      BY <1>1, <2>1, <2>3, <3>2 DEF Reached, TakenDown, BringUp
  <2> QED
    BY <1>1, <2>2, <2>3 DEF Reached
<1>4. \A g \in Handlers \ {h} : Planned(g)' /\ Reached(g)'
  <2> SUFFICES ASSUME NEW g \in Handlers \ {h} PROVE Planned(g)' /\ Reached(g)'
    OBVIOUS
  <2>1. UNCHANGED hostVars
    BY DEF Begin
  <2>2. Reached(g)'
    BY <1>1, <2>1, ReachedKept
  <2> QED
    BY <1>1, <2>2 DEF Planned
<1>5. Holding'
  <2>1. holder' = holder /\ conn' = conn /\ appRead' = appRead /\ appFile' = appFile
    BY DEF Begin
  <2>2. ASSUME holder # None, conn[holder].by # None PROVE conn[holder].by # h
    BY <2>2, <1>0 DEF Begin, Inv, Connected, StackTypeOK
  <2>3. ASSUME holder # None, conn[holder].by # None PROVE clean'[conn[holder].by] = clean[conn[holder].by]
    BY <1>0, <1>1, <2>2, <2>3 DEF StackTypeOK
  <2> QED
    BY <2>1, <2>3 DEF Holding
<1> QED
  BY <1>2, <1>3, <1>4, <1>5

LEMMA CallDone ==
  ASSUME NEW h \in Handlers, Inv, DoneInv, Call(h)
  PROVE  DoneInv'
<1> USE DEF DoneInv
<1>0. StackTypeOK
  BY TypeParts DEF Inv
<1>1. \A g \in Handlers : state'[g] = "idle" <=> state[g] = "idle"
  BY <1>0 DEF Call, StackTypeOK
<1>2. UNCHANGED <<hostVars, op, todo, result, late, clean, holder, appRead>>
  BY DEF Call
<1>3. \A g \in Handlers : Planned(g)' /\ Reached(g)'
  <2> SUFFICES ASSUME NEW g \in Handlers PROVE Planned(g)' /\ Reached(g)'
    OBVIOUS
  <2>1. Reached(g)'
    BY <1>1, <1>2, ReachedKept
  <2> QED
    BY <1>1, <1>2, <2>1 DEF Planned
<1>4. holder # None => conn'[holder] = conn[holder]
  BY <1>0 DEF Call, Holding, StackTypeOK
<1> QED
  BY <1>2, <1>3, <1>4 DEF Holding

\* A call that fails, or is given up, ends the request or starts a plan.
LEMMA GivenUpDone ==
  ASSUME NEW h \in Handlers, Inv, DoneInv, DialFails(h) \/ CallTimesOut(h)
  PROVE  DoneInv'
<1> USE DEF DoneInv
<1>0. StackTypeOK
  BY TypeParts DEF Inv
<1>1. /\ state[h] # "idle" /\ Returned(h, FALSE, FALSE)
      /\ UNCHANGED <<hostVars, late, clean, holder, appRead>>
  BY DEF DialFails, CallTimesOut
<1>2. Planned(h)' /\ Reached(h)'
  <2>1. /\ Planned(h)' /\ op' = op
        /\ op[h] \in BringUp => ~At(h, AfterTunnel)' /\ ~At(h, AfterRoutes)'
                                /\ ~At(h, AfterBird)' /\ ~Done(h)'
        /\ op[h] = "stop" => ~At(h, <<"wg.stop">>)' /\ ~Done(h)'
    BY <1>0, <1>1, NextOf
  <2> QED
    BY <2>1 DEF Reached, BroughtUp, TakenDown
<1>3. \A g \in Handlers \ {h} : Planned(g)' /\ Reached(g)'
  <2> SUFFICES ASSUME NEW g \in Handlers \ {h} PROVE Planned(g)' /\ Reached(g)'
    OBVIOUS
  <2>1. op' = op /\ state'[g] = state[g] /\ todo'[g] = todo[g] /\ result'[g] = result[g]
    BY <1>0, <1>1, NextOf
  <2>2. Reached(g)'
    BY <1>1, <2>1, ReachedKept
  <2> QED
    BY <2>1, <2>2 DEF Planned
<1>4. Holding'
  <2>1. \A c \in Conns : /\ conn'[c].st = conn[c].st /\ conn'[c].act = conn[c].act
                         /\ conn'[c].by # None => conn'[c].by = conn[c].by
    <3>1. CASE DialFails(h)
      BY <3>1 DEF DialFails
    <3>2. CASE CallTimesOut(h)
      <4>1. \A c \in Conns : conn'[c] = IF conn[c].by = h THEN [conn[c] EXCEPT !.by = None]
                                                           ELSE conn[c]
        BY <3>2 DEF CallTimesOut
      <4> QED
        BY <1>0, <4>1 DEF StackTypeOK
    <3> QED
      BY <3>1, <3>2
  <2>2. holder # None => holder \in Conns
    BY <1>0 DEF StackTypeOK
  <2> QED
    BY <1>1, <2>1, <2>2 DEF Holding
<1> QED
  BY <1>2, <1>3, <1>4

LEMMA LockDone ==
  ASSUME NEW c \in Conns, Inv, DoneInv, Lock(c)
  PROVE  DoneInv'
<1> USE DEF DoneInv
<1>0. StackTypeOK
  BY TypeParts DEF Inv
<1>1. UNCHANGED <<hostVars, handlerVars, clean>>
  BY DEF Lock
<1>2. \A g \in Handlers : Planned(g)' /\ Reached(g)'
  <2> SUFFICES ASSUME NEW g \in Handlers PROVE Planned(g)' /\ Reached(g)'
    OBVIOUS
  <2>1. Reached(g)'
    BY <1>1, ReachedKept DEF handlerVars
  <2> QED
    BY <1>1, <2>1 DEF Planned, handlerVars
<1>3. Holding'
  <2>1. conn'[c].st = "running" /\ conn'[c].act = conn[c].act /\ holder' = c
    BY <1>0 DEF Lock, StackTypeOK
  <2>2. conn[c].act = "routes.apply" => appRead' = appFile /\ appFile' = appFile
    BY DEF Lock
  <2> QED
    BY <2>1, <2>2 DEF Holding
<1> QED
  BY <1>2, <1>3

LEMMA ExecuteDone ==
  ASSUME NEW c \in Conns, Inv, DoneInv, Execute(c)
  PROVE  DoneInv'
<1> USE DEF DoneInv
<1> PICK act, h : act = conn[c].act /\ h = conn[c].by
  OBVIOUS
<1>0. StackTypeOK /\ HostTypeOK /\ holder = c /\ holder # None
  BY TypeParts, StackAssumption DEF Inv, Execute
<1>1. PICK ok \in BOOLEAN :
        /\ dispatch(act, appRead, ok)
        /\ Disturb(act, h)
        /\ IF h = None THEN UNCHANGED handlerVars
           ELSE /\ Returned(h, ok, dev # "absent")
                /\ late' = [late EXCEPT ![h] = @ \/ LeftOver(act)]
  BY DEF Execute
<1>2. Holding'
  BY DEF Execute, Holding
<1>3. act = "wg.status" => UNCHANGED hostVars /\ clean' = clean
  BY <1>1 DEF dispatch, statusWG, Disturb
<1>4. act # "wg.status" => \A g \in Handlers : clean'[g] = (clean[g] /\ g = h)
  BY <1>1 DEF Disturb
<1>5. ASSUME NEW g \in Handlers, g # h, op'[g] = op[g], state'[g] = state[g],
             todo'[g] = todo[g], result'[g] = result[g], late'[g] = late[g]
      PROVE  Planned(g)' /\ Reached(g)'
  <2>1. Planned(g)'
    BY <1>5 DEF Planned
  <2>2. CASE act = "wg.status"
    BY <1>3, <1>5, <2>1, <2>2, ReachedKept
  <2>3. CASE act # "wg.status"
    BY <1>4, <1>5, <2>1, <2>3 DEF Reached
  <2> QED
    BY <2>2, <2>3
<1>6. CASE h = None
  <2>1. UNCHANGED handlerVars /\ \A g \in Handlers : g # h
    BY <1>1, <1>6, StackAssumption
  <2> QED
    BY <1>2, <1>5, <2>1 DEF handlerVars
<1>7. CASE h # None
  <2>1. /\ h \in Handlers /\ state[h] = "waiting" /\ act = Head(todo[h])
        /\ Returned(h, ok, dev # "absent") /\ late' = [late EXCEPT ![h] = @ \/ LeftOver(act)]
    BY <1>0, <1>1, <1>7 DEF Inv, Connected, StackTypeOK
  <2>2. (dev # "absent") \in BOOLEAN
    OBVIOUS
  <2>3. /\ op' = op /\ Planned(h)'
        /\ \A g \in Handlers \ {h} : /\ state'[g] = state[g] /\ todo'[g] = todo[g]
                                     /\ result'[g] = result[g]
    BY <1>0, <2>1, <2>2, NextOf
  <2>4. \A g \in Handlers \ {h} : late'[g] = late[g]
    BY <1>0, <2>1 DEF StackTypeOK
  <2>5. \A g \in Handlers \ {h} : Planned(g)' /\ Reached(g)'
    BY <1>5, <2>3, <2>4
  <2>6. Reached(h)'
    <3>1. CASE ~clean[h]
      <4>1. ~clean'[h]
        BY <1>0, <1>3, <1>4, <2>1, <3>1
      <4> QED
        BY <4>1 DEF Reached
    <3>2. CASE clean[h]
      <4>1. late'[h] = (late[h] \/ LeftOver(act))
        BY <1>0, <2>1 DEF StackTypeOK
      <4>2. todo[h] = AfterTunnel => appRead = appFile
        BY <1>0, <1>7, <2>1, <3>2, Walk DEF Holding
      <4>3. /\ dispatch(Head(todo[h]), appRead, ok)
            /\ late'[h] = (late[h] \/ LeftOver(Head(todo[h])))
            /\ Planned(h) /\ Reached(h) /\ state[h] # "idle"
        BY <1>1, <2>1, <4>1
      <4> QED
        BY <1>0, <2>1, <2>2, <3>2, <4>2, <4>3, ExecuteReached
    <3> QED
      BY <3>1, <3>2
  <2> QED
    BY <1>2, <2>3, <2>5, <2>6
<1> QED
  BY <1>6, <1>7

\* BIRD may come up or finish its shutdown in the middle of a request without
\* undoing it; everything else disturbs every request.
LEMMA EnvironmentDone ==
  ASSUME Inv, DoneInv, Environment
  PROVE  DoneInv'
<1> USE DEF DoneInv
<1>0. /\ StackTypeOK /\ HostTypeOK
      /\ UNCHANGED <<handlerVars, conn, holder, appRead>>
  BY TypeParts DEF Inv, Environment
<1>1. \A g \in Handlers : Planned(g)'
  BY <1>0 DEF Planned, handlerVars
<1>2. CASE Interfere
  <2>1. \A g \in Handlers : ~clean'[g]
    BY <1>2 DEF Interfere
  <2>2. \A g \in Handlers : Reached(g)'
    BY <2>1 DEF Reached
  <2>3. Holding'
    BY <1>0, <2>1 DEF Holding, StackTypeOK
  <2> QED
    BY <1>1, <2>2, <2>3
<1>3. CASE (BirdReady \/ BirdExits \/ SpareExits) /\ clean' = clean
  <2>1. UNCHANGED <<wgFile, appFile, dev, wconf, table>>
    BY <1>3 DEF BirdReady, BirdExits, BirdEnds, SpareExits
  <2>2. bird = "up" => bird' = "up" /\ fresh' = fresh
    BY <1>3 DEF BirdReady, BirdExits, SpareExits
  <2>3. bird \in {"stopping", "down"} /\ ~spare => bird' \in {"stopping", "down"} /\ ~spare'
    BY <1>3 DEF BirdReady, BirdExits, BirdEnds, SpareExits
  <2>4. ASSUME NEW g \in Handlers PROVE Reached(g)'
    <3>1. /\ At(g, AfterTunnel)' <=> At(g, AfterTunnel)
          /\ At(g, AfterRoutes)' <=> At(g, AfterRoutes)
          /\ At(g, AfterBird)' <=> At(g, AfterBird)
          /\ At(g, <<"wg.stop">>)' <=> At(g, <<"wg.stop">>)
          /\ Done(g)' <=> Done(g)
      BY <1>0 DEF At, Done, handlerVars
    <3>2. /\ TunnelUp' <=> TunnelUp
          /\ TunnelRouted' <=> TunnelRouted
          /\ Wg0Routes' = Wg0Routes
      BY <2>1 DEF TunnelUp, TunnelRouted, Wg0Routes
    <3>3. BroughtUp(g) => BroughtUp(g)'
      BY <1>0, <2>1, <2>2, <3>1, <3>2 DEF BroughtUp, handlerVars
    <3>4. TakenDown(g) => TakenDown(g)'
      BY <1>0, <2>1, <2>3, <3>1, <3>2 DEF TakenDown, handlerVars
    <3> QED
      BY <1>0, <1>3, <3>3, <3>4 DEF Reached, handlerVars
  <2>5. Holding'
    BY <1>0, <1>3, <2>1 DEF Holding
  <2> QED
    BY <1>1, <2>4, <2>5
<1> QED
  BY <1>2, <1>3 DEF Environment

LEMMA NextDone == Inv /\ DoneInv /\ [Next]_vars => DoneInv'
<1> SUFFICES ASSUME Inv, DoneInv, [Next]_vars PROVE DoneInv'
  OBVIOUS
<1>1. ASSUME NEW h \in Handlers, NEW o \in Requests, NEW pin \in PinClient \cup {FALSE},
             Begin(h, o, pin)
      PROVE  DoneInv'
  <2>1. pin \in BOOLEAN
    BY StackAssumption
  <2> QED
    BY <1>1, <2>1, BeginDone
<1>2. ASSUME NEW h \in Handlers, Call(h) \/ DialFails(h) \/ CallTimesOut(h)
      PROVE  DoneInv'
  BY <1>2, CallDone, GivenUpDone
<1>3. ASSUME NEW c \in Conns, Lock(c) \/ Execute(c) PROVE DoneInv'
  BY <1>3, LockDone, ExecuteDone
<1>4. CASE UNCHANGED vars
  <2>1. UNCHANGED hostVars /\ UNCHANGED <<op, todo, state, result, late, clean, conn, holder, appRead>>
    BY <1>4 DEF vars, stackVars, handlerVars
  <2>2. \A g \in Handlers : Planned(g)' /\ Reached(g)'
    <3> SUFFICES ASSUME NEW g \in Handlers PROVE Planned(g)' /\ Reached(g)'
      OBVIOUS
    <3>1. Reached(g) /\ Planned(g)
      BY DEF DoneInv
    <3>2. Reached(g)'
      BY <2>1, <3>1, ReachedKept
    <3> QED
      BY <2>1, <3>1, <3>2 DEF Planned
  <2> QED
    BY <2>1, <2>2 DEF DoneInv, Holding
<1> QED
  BY <1>1, <1>2, <1>3, <1>4, EnvironmentDone DEF Next

\* api_routing.go:35-63: for any configs, any number of requests and
\* connections, and any failures, a request that reported success with nothing
\* else touching the host since it began did what it was asked.
THEOREM SuccessIsReal == Spec => []SuccessMeansDone
<1>1. Init => DoneInv
  <2> SUFFICES ASSUME Init PROVE DoneInv
    OBVIOUS
  <2>1. Holding
    BY DEF Init, Holding
  <2>2. \A h \in Handlers : Planned(h) /\ Reached(h)
    BY DEF Init, Planned, Reached
  <2> QED
    BY <2>1, <2>2 DEF DoneInv
<1>2. Spec => []DoneInv
  BY <1>1, NextDone, Invariance, PTL DEF Spec
<1>3. DoneInv => SuccessMeansDone
  <2> SUFFICES ASSUME DoneInv, NEW h \in Handlers,
                      state[h] = "idle", result[h] = "ok", clean[h]
               PROVE  /\ op[h] \in {"apply", "start", "restart"} =>
                           TunnelRouted /\ (late[h] \/ (bird = "up" /\ fresh))
                      /\ op[h] = "restart" => Wg0Routes = AdvertisedOf[appFile]
                      /\ op[h] = "stop" => /\ dev = "absent" /\ Wg0Routes = {}
                                           /\ late[h] \/ bird \in {"stopping", "down"}
    BY DEF SuccessMeansDone
  <2> QED
    BY DEF DoneInv, Reached, BroughtUp, TakenDown, Done, BringUp
<1> QED
  BY <1>2, <1>3, PTL
=============================================================================
