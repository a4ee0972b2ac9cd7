---------------------------- MODULE RoutingStack ----------------------------
(***************************************************************************)
(* The routing stack of the dashboard: HTTP handlers (and the auto-start   *)
(* goroutine) run the action sequences of internal/orchestrator through    *)
(* supervisor.Client, one connection per action; the supervisor serves     *)
(* every connection in a goroutine of its own and runs the actions one at  *)
(* a time under ActionLock.  A client gives up after 30 s; the supervisor  *)
(* never learns of it and runs the action all the same when its turn comes.*)
(***************************************************************************)
EXTENDS SupervisorActions, Sequences

CONSTANTS
  Handlers,   \* requests being handled at a time
  Conns,      \* bound: connections open at a time
  Requests,   \* the operations requested
  PinClient,  \* values of Runtime.PinDashboardClientRoute
  Disturbances, \* environment events that happen: "die", "crash", "save"
  None        \* no handler, no operation

ASSUME StackAssumption ==
  /\ None \notin Handlers /\ None \notin Conns
  /\ Requests \subseteq {"apply", "start", "stop", "restart", "wg.start",
                         "wg.stop", "wg.restart", "bird.start", "bird.reload"}
  /\ PinClient \subseteq BOOLEAN

VARIABLES
  op,       \* what each handler was asked, or was last asked
  todo,     \* actions still to be called, the one being called included
  state,    \* "idle", "ready" to call, or "waiting" for a response
  result,   \* result of the last request
  clean,    \* history: nothing else has touched the host since it began
  late,     \* history: a BIRD of earlier requests was still shutting down, or
            \* still booting (LeftOver), when it acted on BIRD
  conn,     \* the connections
  holder,   \* the connection that holds ActionLock
  appRead   \* app.yaml as the action that holds the lock read it

handlerVars == <<op, todo, state, result, late>>
stackVars   == <<handlerVars, clean, conn, holder, appRead>>
vars        == <<hostVars, stackVars>>

Free == [st |-> "free", act |-> "wg.status", by |-> None]

Plan == [start   |-> <<"wg.start", "routes.apply", "bird.start", "bird.reload">>,
         up      |-> <<"wg.restart", "routes.apply", "bird.start", "bird.reload">>,
         stop    |-> <<"bird.stop", "wg.stop">>,
         restart |-> <<"bird.stop", "wg.restart", "routes.apply", "bird.start",
                       "bird.reload">>,
         apply   |-> <<"wg.status">>]

\* Mutant of Steps: the request's name is sent as the action.
StepsByName(o) == <<o>>

\* Requests of a single action are named for it.
Steps(o) == IF o \in DOMAIN Plan THEN Plan[o] ELSE <<o>>

TypeOK ==
  /\ HostTypeOK
  /\ op \in [Handlers -> Requests \cup {None}]
  /\ todo \in [Handlers -> Seq(Actions)]
  /\ state \in [Handlers -> {"idle", "ready", "waiting"}]
  /\ result \in [Handlers -> {"none", "ok", "error"}]
  /\ clean \in [Handlers -> BOOLEAN]
  /\ late \in [Handlers -> BOOLEAN]
  /\ conn \in [Conns -> [st : {"free", "queued", "running"}, act : Actions,
                         by : Handlers \cup {None}]]
  /\ holder \in Conns \cup {None}
  /\ appRead \in AppConfigs \cup {NoConfig}

Init ==
  /\ HostInit
  /\ op = [h \in Handlers |-> None]
  /\ todo = [h \in Handlers |-> <<>>]
  /\ state = [h \in Handlers |-> "idle"]
  /\ result = [h \in Handlers |-> "none"]
  /\ clean = [h \in Handlers |-> FALSE]
  /\ late = [h \in Handlers |-> FALSE]
  /\ conn = [c \in Conns |-> Free]
  /\ holder = None
  /\ appRead = NoConfig

----------------------------------------------------------------------------
(* Handlers and the orchestrator *)

\* routingAction pins the client first when the setting is on, and not for
\* stop; Apply begins by asking for the tunnel's status.
Begin(h, o, pin) ==
  /\ state[h] = "idle"
  /\ pin => o \in {"apply", "start", "restart"}
  /\ op' = [op EXCEPT ![h] = o]
  /\ todo' = [todo EXCEPT ![h] = IF pin THEN <<"routes.pin_client">> \o Steps(o)
                                        ELSE Steps(o)]
  /\ state' = [state EXCEPT ![h] = "ready"]
  /\ result' = [result EXCEPT ![h] = "none"]
  /\ clean' = [clean EXCEPT ![h] = TRUE]
  /\ late' = [late EXCEPT ![h] = FALSE]
  /\ UNCHANGED <<hostVars, conn, holder, appRead>>

\* Client.Call: dial and send the request.
Call(h) ==
  /\ state[h] = "ready"
  /\ \E c \in Conns :
       /\ conn[c].st = "free"
       /\ conn' = [conn EXCEPT ![c] = [st |-> "queued", act |-> Head(todo[h]), by |-> h]]
  /\ state' = [state EXCEPT ![h] = "waiting"]
  /\ UNCHANGED <<hostVars, op, todo, result, late, clean, holder, appRead>>

\* Mutants of Returned: a failure does not end the sequence; a failed action is
\* called again until it succeeds.
ReturnedGoesOn(h, ok, up) ==
  LET rest == IF op[h] = "apply" /\ Head(todo[h]) = "wg.status"
              THEN IF ok /\ up THEN Plan.up ELSE Plan.start
              ELSE Tail(todo[h])
  IN  /\ todo' = [todo EXCEPT ![h] = rest]
      /\ state' = [state EXCEPT ![h] = IF rest = <<>> THEN "idle" ELSE "ready"]
      /\ result' = [result EXCEPT ![h] =
                      IF rest # <<>> THEN "none" ELSE IF ok THEN "ok" ELSE "error"]
      /\ UNCHANGED op
ReturnedRetries(h, ok, up) ==
  LET rest == IF ok THEN Tail(todo[h]) ELSE todo[h]
  IN  /\ todo' = [todo EXCEPT ![h] = rest]
      /\ state' = [state EXCEPT ![h] = IF rest = <<>> THEN "idle" ELSE "ready"]
      /\ result' = [result EXCEPT ![h] = IF rest = <<>> THEN "ok" ELSE "none"]
      /\ UNCHANGED op

\* The call of handler h returned: run goes on to the next action or stops at
\* the first failure.  Apply takes the answer to its status call as the choice
\* of a plan, and a failure of that call as "not up".
Returned(h, ok, up) ==
  LET rest == IF op[h] = "apply" /\ Head(todo[h]) = "wg.status"
              THEN IF ok /\ up THEN Plan.up ELSE Plan.start
              ELSE IF ok THEN Tail(todo[h]) ELSE <<>>
  IN  /\ todo' = [todo EXCEPT ![h] = rest]
      /\ state' = [state EXCEPT ![h] = IF rest = <<>> THEN "idle" ELSE "ready"]
      /\ result' = [result EXCEPT ![h] =
                      IF rest # <<>> THEN "none" ELSE IF ok THEN "ok" ELSE "error"]
      /\ UNCHANGED op

\* The socket cannot be dialled, or the request's context is done.
DialFails(h) ==
  /\ state[h] = "ready"
  /\ Returned(h, FALSE, FALSE)
  /\ UNCHANGED <<hostVars, late, clean, conn, holder, appRead>>

\* Mutant of CallTimesOut: the connection is kept, and its answer still awaited.
CallTimesOutAttached(h) ==
  /\ state[h] = "waiting"
  /\ Returned(h, FALSE, FALSE)
  /\ UNCHANGED <<hostVars, late, clean, conn, holder, appRead>>

\* The deadline of the connection passes: its request stays with the server.
CallTimesOut(h) ==
  /\ state[h] = "waiting"
  /\ conn' = [c \in Conns |-> IF conn[c].by = h THEN [conn[c] EXCEPT !.by = None]
                                                ELSE conn[c]]
  /\ Returned(h, FALSE, FALSE)
  /\ UNCHANGED <<hostVars, late, clean, holder, appRead>>

----------------------------------------------------------------------------
(* The supervisor *)

\* handle: ActionLock.Lock(), then the action begins; those of the route
\* manager load app.yaml.
Lock(c) ==
  /\ conn[c].st = "queued"
  /\ holder = None
  /\ holder' = c
  /\ conn' = [conn EXCEPT ![c].st = "running"]
  /\ appRead' = IF conn[c].act \in {"routes.apply", "routes.pin_client"}
                THEN appFile ELSE NoConfig
  /\ UNCHANGED <<hostVars, handlerVars, clean>>

\* What an action of handler h's does to the others' histories.
Disturb(act, h) ==
  clean' = IF act = "wg.status" THEN clean
           ELSE [g \in Handlers |-> clean[g] /\ g = h]

\* bird.start takes a daemon that shuts down for one that runs; bird.stop does
\* not reach one that an earlier bird.start gave up on.
LeftOver(act) == \/ act = "bird.start" /\ bird = "stopping"
                 \/ act = "bird.stop" /\ spare

\* Mutant of Execute: it returns without Unlock when the client has gone.
ExecuteKeepsLock(c) ==
  /\ holder = c
  /\ \E ok \in BOOLEAN :
       /\ dispatch(conn[c].act, appRead, ok)
       /\ Disturb(conn[c].act, conn[c].by)
       /\ IF conn[c].by = None THEN UNCHANGED handlerVars
          ELSE Returned(conn[c].by, ok, dev # "absent") /\ UNCHANGED late
  /\ conn' = [conn EXCEPT ![c] = Free]
  /\ holder' = IF conn[c].by = None THEN holder ELSE None
  /\ appRead' = NoConfig

\* dispatch, the response to a client that still waits, Unlock and Close.
Execute(c) ==
  /\ holder = c
  /\ \E ok \in BOOLEAN :
       LET act == conn[c].act
           h   == conn[c].by
       IN  /\ dispatch(act, appRead, ok)
           /\ Disturb(act, h)
           /\ IF h = None THEN UNCHANGED handlerVars
              ELSE /\ Returned(h, ok, dev # "absent")
                   /\ late' = [late EXCEPT ![h] = @ \/ LeftOver(act)]
  /\ conn' = [conn EXCEPT ![c] = Free]
  /\ holder' = None
  /\ appRead' = NoConfig

----------------------------------------------------------------------------
(* The environment *)

Interfere == clean' = [h \in Handlers |-> FALSE]

Environment ==
  /\ \/ "die" \in Disturbances /\ DeviceDies /\ Interfere
     \/ "crash" \in Disturbances /\ BirdCrashes /\ Interfere
     \/ "save" \in Disturbances /\ Interfere
          /\ \E f \in WgConfigs \cup {NoConfig} : SaveWg(f)
     \/ "save" \in Disturbances /\ Interfere
          /\ \E a \in AppConfigs \cup {NoConfig} : SaveApp(a)
     \/ BirdReady /\ UNCHANGED clean
     \/ BirdExits /\ UNCHANGED clean
     \/ SpareExits /\ UNCHANGED clean
  /\ UNCHANGED <<handlerVars, conn, holder, appRead>>

Next ==
  \/ \E h \in Handlers, o \in Requests, pin \in PinClient \cup {FALSE} : Begin(h, o, pin)
  \/ \E h \in Handlers : Call(h) \/ DialFails(h) \/ CallTimesOut(h)
  \/ \E c \in Conns : Lock(c) \/ Execute(c)
  \/ Environment

\* Handlers run; a waiting client has a deadline; a running action ends (its
\* commands share a 30 s context); and Go's mutex, in starvation mode, hands
\* itself to every waiter in the end.
Fairness ==
  /\ \A h \in Handlers : WF_vars(Call(h) \/ DialFails(h)) /\ WF_vars(CallTimesOut(h))
  /\ \A c \in Conns : SF_vars(Lock(c)) /\ WF_vars(Execute(c))

Spec == Init /\ [][Next]_vars
FairSpec == Spec /\ Fairness
----------------------------------------------------------------------------
(* Properties *)

Wg0Routes == {p \in Prefixes : table[p] = "wg0"}

\* The host is as app.yaml and wg0.conf say, BIRD's part aside.
TunnelRouted ==
  /\ dev = "up"
  /\ wgFile # NoConfig /\ wconf = wgFile
  /\ appFile # NoConfig /\ AdvertisedOf[appFile] \subseteq Wg0Routes
  /\ \A e \in EndpointsOf[wgFile] \cup PinnedOf[appFile] :
       e \notin AdvertisedOf[appFile] => table[e] = "eth0"

\* api_routing.go:35-63, routing.go:31-96: a request that reported success,
\* with nothing else touching the host since it began, did what it was asked:
\* the tunnel runs the saved config, every advertised route goes through it
\* and no endpoint or pinned client does, and BIRD runs the saved config;
\* a restart leaves no other route in the tunnel; a stop leaves no tunnel, no
\* route and no BIRD.  BIRD's part is not said of a request whose bird.start met
\* a daemon still shutting down, or whose bird.stop met one still booting.
SuccessMeansDone ==
  \A h \in Handlers : state[h] = "idle" /\ result[h] = "ok" /\ clean[h] =>
    /\ op[h] \in {"apply", "start", "restart"} =>
         /\ TunnelRouted
         /\ late[h] \/ (bird = "up" /\ fresh)
    /\ op[h] = "restart" => Wg0Routes = AdvertisedOf[appFile]
    /\ op[h] = "stop" => /\ dev = "absent" /\ Wg0Routes = {}
                         /\ late[h] \/ bird \in {"stopping", "down"}

\* routes.go:92-117: host routes are in place before the first advertised one
\* and are never withdrawn, so while the device runs the config whose routes
\* were applied last, a partly applied, failed or interrupted routes.apply
\* never leaves its endpoint inside the tunnel (unless it is advertised).
EndpointOutsideTunnel ==
  Wg0Routes # {} =>
    /\ routed # <<>>
    /\ wconf = routed[1] =>
         \A e \in EndpointsOf[wconf] \ AdvertisedOf[routed[2]] : Lookup(e) = "eth0"

\* client.go:26-40: every call has a connection of its own, so the late answer
\* to a call that was given up is never taken for the answer to a later one,
\* whatever is still queued or running at the supervisor.
AnswersMatch ==
  \A h \in Handlers : state[h] = "waiting" =>
    \E c \in Conns : /\ conn[c].by = h /\ conn[c].act = Head(todo[h])
                     /\ \A d \in Conns \ {c} : conn[d].by # h

\* client.go:21-40, routing.go:77-94: every handler comes to the end of its
\* sequence of calls, however long other handlers and the calls it gave up keep
\* the supervisor busy.  Whether its answer still reaches the browser is another
\* matter: main.go:72 ends the connection after 30 s, one call's patience.
RequestsReturn == \A h \in Handlers : state[h] # "idle" ~> state[h] = "idle"

\* server.go:56-76: every request the supervisor accepted is run in the end,
\* its client's patience notwithstanding, and ActionLock is released.
ConnectionsDrain == \A c \in Conns : conn[c].st = "queued" ~> conn[c].st = "free"

\* README.md:116-118 says the peer endpoint "is pinned back through the Peplink
\* router's normal underlay path so the tunnel's own UDP transport does not get
\* routed back into wg0": at the latest when no request is in progress and the
\* last ones all reported success.
EndpointNeverLoops ==
  /\ \A h \in Handlers : state[h] = "idle" /\ result[h] = "ok"
  /\ dev = "up" /\ wconf # NoConfig
  => \A e \in EndpointsOf[wconf] : Lookup(e) = "eth0"

\* README.md:129 lists "Apply, restart, and stop the routing stack from the
\* dashboard": a stop that nothing disturbs stops the tunnel.
StopStops ==
  \A h \in Handlers :
    op[h] = "stop" /\ state[h] = "idle" /\ result[h] # "none" /\ clean[h]
      => dev = "absent"
=============================================================================
