-------------------------- MODULE TunnelRefinement --------------------------
(***************************************************************************)
(* WireGuardManager implements the tunnel of SupervisorActions: every      *)
(* Start, Stop and Restart, with all its commands, failures and process    *)
(* exits in between, amounts to one atomic step startWG, stopWG or         *)
(* restartWG with the result that was reported, taken when it returns.     *)
(*                                                                         *)
(* Two history variables hold what the rest of the system has been told.   *)
(* seen is the device as the last operation left it, less what died since; *)
(* read is wg0.conf, or from the moment a running Start has read the file  *)
(* until the next operation the config it read: a save in that time is     *)
(* ordered after the operation.                                            *)
(***************************************************************************)
EXTENDS WireGuardManager

VARIABLES seen, read
rvars == <<vars, seen, read>>

\* The device as SupervisorActions describes it; one whose wireguard-go has
\* been told to die counts as gone.
Device ==
  IF owner = Absent \/ (owner \in Procs /\ phase[owner] \notin Alive)
  THEN [dev |-> "absent", conf |-> NoConfig]
  ELSE [dev |-> IF mtu = 0 THEN "down" ELSE "up", conf |-> conf]

Returns == pc # "idle" /\ pc' = "idle"

\* The config of the running operation has been read.
HasRead == pc \notin {"idle", "delete", "kill", "read"}

RInit == Init /\ seen = Device /\ read = wgFile

\* What a step adds to the history.
Remember ==
  /\ seen' = IF Returns \/ (Device' # Device /\ Device'.dev = "absent" /\ pc # "delete")
             THEN Device' ELSE seen
  /\ read' = IF pc' = "idle" /\ ~(pc = "idle" /\ wgFile' # wgFile) THEN read
             ELSE IF HasRead THEN read ELSE wgFile'

RNext == Next /\ Remember

RSpec == RInit /\ [][RNext]_rvars

\* ... with the fairness of WireGuardManager.
FairRSpec == RSpec /\ Fairness

Host == INSTANCE SupervisorActions WITH
  WgConfigs <- Configs, AppConfigs <- {}, Hosts <- {}, Nets <- {},
  EndpointsOf <- [c \in Configs |-> {}], PinnedOf <- << >>, AdvertisedOf <- << >>,
  Faulty <- {"wg.start", "wg.stop", "wg.restart"},
  wgFile <- read, appFile <- NoConfig, dev <- seen.dev, wconf <- seen.conf,
  table <- [p \in {} |-> "none"], routed <- << >>, bird <- "down", spare <- FALSE, fresh <- FALSE

\* The step of SupervisorActions that a step of the manager amounts to.
TunnelStep ==
  IF Returns
  THEN LET ok == res' = "ok"
       IN  CASE op = "start"   -> Host!startWG(ok)
             [] op = "stop"    -> Host!stopWG(ok)
             [] op = "restart" -> Host!restartWG(ok)
  ELSE \/ UNCHANGED Host!hostVars
       \/ Host!DeviceDies
       \/ Host!SaveWg(read')

\* wg.go:125-199 against the tunnel that the composed system is built on: an
\* operation never has an outcome, or reports a result, that startWG, stopWG or
\* restartWG does not allow, and between operations the device only dies.
Implements == Host!HostInit /\ [][TunnelStep]_rvars
=============================================================================
