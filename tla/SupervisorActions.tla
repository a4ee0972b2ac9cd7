-------------------------- MODULE SupervisorActions --------------------------
(***************************************************************************)
(* What the actions of the supervisor (internal/supervisor/actions.go) do  *)
(* to the host, one action definition per supervisor action, each run      *)
(* whole under the server's ActionLock: the tunnel device wg0, the kernel  *)
(* routing table and the BIRD daemon.  An action definition A(ok) is true  *)
(* of the outcomes in which the response's OK is ok.  The tunnel's own     *)
(* commands and processes are the subject of WireGuardManager; here each   *)
(* of its operations is one step with the outcomes found there.            *)
(***************************************************************************)
EXTENDS Naturals, FiniteSets

CONSTANTS
  WgConfigs,      \* contents of wg0.conf that wg.ValidateConfig accepts
  AppConfigs,     \* contents of app.yaml that Load and Generate accept
  NoConfig,       \* the file is missing, half written or invalid
  Hosts,          \* IPv4 addresses that get host routes (/32)
  Nets,           \* networks, each of which contains every host
  EndpointsOf,    \* WgConfigs -> IPv4 addresses of the peer endpoint, {} if it
                  \* has none or the endpoint is missing or does not resolve
  PinnedOf,       \* AppConfigs -> Runtime.PinnedClientRoutes
  AdvertisedOf,   \* AppConfigs -> BIRD.AdvertisedRoutes, hosts or networks
  Faulty          \* actions whose commands may fail for no modelled reason

Prefixes == Hosts \cup Nets

ASSUME HostAssumption ==
  /\ NoConfig \notin WgConfigs /\ NoConfig \notin AppConfigs
  /\ Hosts \cap Nets = {}
  /\ EndpointsOf \in [WgConfigs -> SUBSET Hosts]
  /\ PinnedOf \in [AppConfigs -> SUBSET Hosts]
  /\ AdvertisedOf \in [AppConfigs -> SUBSET Prefixes]

VARIABLES
  wgFile,     \* wg0.conf
  appFile,    \* app.yaml
  dev,        \* wg0: "absent", "down" (created, not yet up) or "up"
  wconf,      \* the config the device was given
  table,      \* routing table: the device each prefix is routed to
  routed,     \* history: <<wg0.conf, app.yaml>> of the last Apply that added
              \* an advertised route
  bird,       \* the BIRD daemon that answers, or one that may yet
  spare,      \* another that bird.start has launched is still booting
  fresh       \* the BIRD that answers runs the contents of bird.conf

deviceVars == <<dev, wconf, table>>
birdVars   == <<bird, spare, fresh>>
hostVars   == <<wgFile, appFile, deviceVars, routed, birdVars>>

\* "booting": launched, not answering yet; "stopping": `birdc down` accepted,
\* the daemon still answers while its protocols shut down.
BirdStates == {"down", "booting", "up", "stopping"}

HostTypeOK ==
  /\ wgFile \in WgConfigs \cup {NoConfig}
  /\ appFile \in AppConfigs \cup {NoConfig}
  /\ dev \in {"absent", "down", "up"}
  /\ wconf \in WgConfigs \cup {NoConfig}
  /\ table \in [Prefixes -> {"none", "eth0", "wg0"}]
  /\ routed \in (WgConfigs \X AppConfigs) \cup {<<>>}
  /\ bird \in BirdStates
  /\ spare \in BOOLEAN
  /\ fresh \in BOOLEAN

HostInit ==
  /\ wgFile \in WgConfigs \cup {NoConfig}
  /\ appFile \in AppConfigs \cup {NoConfig}
  /\ dev = "absent" /\ wconf = NoConfig
  /\ table = [p \in Prefixes |-> "none"]
  /\ routed = <<>>
  /\ bird = "down" /\ spare = FALSE /\ fresh = FALSE

----------------------------------------------------------------------------
(* Helpers *)

\* The kernel drops the routes of a device with the device.
WithoutWg0(t) == [p \in Prefixes |-> IF t[p] = "wg0" THEN "none" ELSE t[p]]

\* The device stays as it is, with config c, in state d.
KeepDevice(d, c) == dev' = d /\ wconf' = c /\ UNCHANGED table

\* The device was deleted, and perhaps created again.
NewDevice(d, c) == dev' = d /\ wconf' = c /\ table' = WithoutWg0(table)

\* A command that could have succeeded may fail only if Faulty says so.
MayFail(act, couldSucceed) == couldSucceed => act \in Faulty

----------------------------------------------------------------------------
(* wg.start, wg.stop, wg.restart *)

\* Outcomes of a failed Start: its config was rejected and nothing changed;
\* the device was created without config, or was configured and a later
\* command failed; or wireguard-go was killed, and the device died with it.
StartFails ==
  \/ KeepDevice(dev, wconf)
  \/ /\ wgFile # NoConfig
     /\ \/ KeepDevice(IF dev = "absent" THEN "down" ELSE dev, wgFile)
        \/ dev = "absent" /\ KeepDevice("down", NoConfig)
        \/ NewDevice("absent", NoConfig)

startWG(ok) ==
  /\ IF ok THEN wgFile # NoConfig /\ KeepDevice("up", wgFile)
           ELSE MayFail("wg.start", wgFile # NoConfig) /\ StartFails
  /\ UNCHANGED <<wgFile, appFile, routed, birdVars>>

\* A failed Stop left the device, or only its Kill failed.
stopWG(ok) ==
  /\ IF ok THEN NewDevice("absent", NoConfig)
           ELSE /\ "wg.stop" \in Faulty
                /\ KeepDevice(dev, wconf) \/ NewDevice("absent", NoConfig)
  /\ UNCHANGED <<wgFile, appFile, routed, birdVars>>

\* Restart runs its Start half whether or not its Stop half failed.
restartWG(ok) ==
  /\ IF ok THEN wgFile # NoConfig /\ NewDevice("up", wgFile)
           ELSE \/ /\ MayFail("wg.restart", wgFile # NoConfig)
                   /\ \/ NewDevice("absent", NoConfig)
                      \/ /\ wgFile # NoConfig
                         /\ \/ NewDevice("down", NoConfig)
                            \/ NewDevice("down", wgFile)
                            \/ NewDevice("up", wgFile)
                \/ /\ "wg.restart" \in Faulty
                   /\ \/ StartFails
                      \/ wgFile # NoConfig /\ KeepDevice("up", wgFile)
  /\ UNCHANGED <<wgFile, appFile, routed, birdVars>>

----------------------------------------------------------------------------
(* routes.apply, routes.pin_client *)

\* `ip route replace`: P to eth0, then A to wg0, which are lost with the device
\* if it died before the action was over.
Replace(P, A) ==
  table' = [p \in Prefixes |-> CASE p \in A -> IF dev = "up" THEN "wg0" ELSE "none"
                                 [] p \in P \ A -> "eth0"
                                 [] OTHER -> table[p]]

\* Mutant of ApplyPrefix: advertised routes may precede the host routes.
ApplyAnyOrder(app, P, A) ==
  /\ P \subseteq EndpointsOf[wgFile] \cup PinnedOf[app]
  /\ A \subseteq AdvertisedOf[app]
  /\ A # {} => dev = "up"

\* Apply ran its commands in order (endpoints, pinned clients, advertised
\* routes) up to P of the host routes and A of the advertised ones.
ApplyPrefix(app, P, A) ==
  LET endpoints == EndpointsOf[wgFile]
      pinned    == PinnedOf[app]
  IN  /\ P \subseteq endpoints \cup pinned
      /\ P \subseteq endpoints \/ endpoints \subseteq P
      /\ A \subseteq AdvertisedOf[app]
      /\ A # {} => P = endpoints \cup pinned
      /\ A # {} => dev = "up" \/ (dev = "absent" /\ A # AdvertisedOf[app])

\* app is app.yaml as Apply loaded it, before it reads wg0.conf.  Without an
\* address for the endpoint (endpointAddrs) it fails before its first command.
applyRoutes(app, ok) ==
  LET readable == app # NoConfig /\ wgFile # NoConfig /\ EndpointsOf[wgFile] # {}
      allPins  == EndpointsOf[wgFile] \cup PinnedOf[app]
      allNets  == AdvertisedOf[app]
  IN  /\ \/ /\ readable
            /\ \E P \in SUBSET Hosts, A \in SUBSET Prefixes :
                 /\ ApplyPrefix(app, P, A)
                 /\ ok <=> (P = allPins /\ A = allNets)
                 /\ ~ok => MayFail("routes.apply", allNets = {} \/ dev = "up")
                 /\ Replace(P, A)
                 /\ routed' = IF A # {} /\ dev = "up" THEN <<wgFile, app>> ELSE routed
         \/ ~readable /\ ~ok /\ UNCHANGED <<table, routed>>
      /\ UNCHANGED <<wgFile, appFile, dev, wconf, birdVars>>

\* PinClient: the host route of a dashboard client.  config.Load takes a missing
\* app.yaml for the defaults, so NoConfig is no obstacle in every case.
pinClientRoute(app, ok) ==
  /\ IF ok THEN \E h \in Hosts : Replace({h}, {})
           ELSE MayFail("routes.pin_client", app # NoConfig) /\ UNCHANGED table
  /\ UNCHANGED <<wgFile, appFile, dev, wconf, routed, birdVars>>

----------------------------------------------------------------------------
(* bird.start, bird.stop, bird.reload, wg.status *)

Answers == bird \in {"up", "stopping"}

\* A daemon that answers is taken as running.  One that was launched and did
\* not answer 20 polls later is left to itself; it may come up after all, even
\* before this action returns, and be the one that answers the next attempt.
startBIRD(ok) ==
  /\ ok \/ "bird.start" \in Faulty
  /\ \/ /\ Answers
        /\ spare' \in {spare} \cup (IF "bird.start" \in Faulty THEN {TRUE} ELSE {})
        /\ UNCHANGED <<bird, fresh>>
     \/ /\ ~Answers
        /\ bird' \in (IF ok THEN {"up"} ELSE {"booting", "up"})
        /\ spare' \in (IF bird = "booting" THEN BOOLEAN ELSE {FALSE})
        /\ fresh' \in (CASE bird' = "booting" -> {FALSE}
                         [] bird' = "up" /\ bird = "booting" -> BOOLEAN
                         [] OTHER -> {TRUE})
     \/ ~ok /\ UNCHANGED birdVars
  /\ UNCHANGED <<wgFile, appFile, deviceVars, routed>>

\* `birdc down`
stopBIRD(ok) ==
  /\ IF ok THEN Answers /\ bird' = "stopping"
           ELSE MayFail("bird.stop", Answers) /\ UNCHANGED bird
  /\ UNCHANGED <<wgFile, appFile, deviceVars, routed, spare, fresh>>

\* `birdc configure`, without effect on a daemon that shuts down
reloadBIRD(ok) ==
  /\ IF ok THEN Answers /\ fresh' = IF bird = "up" THEN TRUE ELSE fresh
           ELSE MayFail("bird.reload", Answers) /\ UNCHANGED fresh
  /\ UNCHANGED <<wgFile, appFile, deviceVars, routed, bird, spare>>

\* `wg show` prints "interface:" for a device, up or not.
statusWG(ok) ==
  /\ ok \/ "wg.status" \in Faulty
  /\ UNCHANGED hostVars

Actions == {"wg.start", "wg.stop", "wg.restart", "routes.apply",
            "routes.pin_client", "bird.start", "bird.stop", "bird.reload",
            "wg.status"}

\* dispatch runs the requested action; app is what it read of app.yaml.
dispatch(act, app, ok) ==
  \/ act = "wg.start" /\ startWG(ok)
  \/ act = "wg.stop" /\ stopWG(ok)
  \/ act = "wg.restart" /\ restartWG(ok)
  \/ act = "routes.apply" /\ applyRoutes(app, ok)
  \/ act = "routes.pin_client" /\ pinClientRoute(app, ok)
  \/ act = "bird.start" /\ startBIRD(ok)
  \/ act = "bird.stop" /\ stopBIRD(ok)
  \/ act = "bird.reload" /\ reloadBIRD(ok)
  \/ act = "wg.status" /\ statusWG(ok)

----------------------------------------------------------------------------
(* The host by itself, and the web process that saves files *)

\* wireguard-go dies, or a device it was about to lose goes.
DeviceDies ==
  /\ dev # "absent"
  /\ NewDevice("absent", NoConfig)
  /\ UNCHANGED <<wgFile, appFile, routed, birdVars>>

\* The BIRD that answers is gone, or one that boots; another may be left.
BirdEnds ==
  /\ IF spare THEN bird' = "booting" /\ spare' \in BOOLEAN
              ELSE bird' = "down" /\ UNCHANGED spare
  /\ fresh' = FALSE
  /\ UNCHANGED <<wgFile, appFile, deviceVars, routed>>

BirdCrashes == bird \in {"booting", "up"} /\ BirdEnds

\* The shutdown that `birdc down` ordered is complete.
BirdExits == bird = "stopping" /\ BirdEnds

\* It reads bird.conf while it boots: before or after the last save.
BirdReady ==
  /\ bird = "booting"
  /\ bird' = "up" /\ fresh' \in BOOLEAN
  /\ UNCHANGED <<wgFile, appFile, deviceVars, routed, spare>>

\* A BIRD that finds another one answering gives up.
SpareExits ==
  /\ spare
  /\ spare' = FALSE
  /\ UNCHANGED <<wgFile, appFile, deviceVars, routed, bird, fresh>>

SaveWg(c) ==
  /\ wgFile' = c
  /\ UNCHANGED <<appFile, deviceVars, routed, birdVars>>

\* postBIRDConfig writes bird.conf along with app.yaml.
SaveApp(a) ==
  /\ appFile' = a /\ fresh' = FALSE
  /\ UNCHANGED <<wgFile, deviceVars, routed, bird, spare>>

----------------------------------------------------------------------------

\* Where the kernel sends packets for host h: its host route, or a network
\* route, or the container's default route through eth0.
Lookup(h) ==
  CASE table[h] # "none" -> table[h]
    [] table[h] = "none" /\ \E n \in Nets : table[n] = "wg0" -> "wg0"
    [] OTHER -> "eth0"
==============================================================================
