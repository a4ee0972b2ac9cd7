-------------------------- MODULE WireGuardManager --------------------------
(***************************************************************************)
(* WGProcessManager (internal/supervisor/wg.go): the supervisor's manager  *)
(* of the tunnel device wg0.                                               *)
(*                                                                         *)
(* Start, Stop and Restart run one at a time (the server's ActionLock and  *)
(* m.mu) as sequences of external commands; each command is one step here, *)
(* so the wireguard-go processes, the kernel and the web process that      *)
(* rewrites wg0.conf may move between any two of them.  Every command may  *)
(* fail (its tool refuses, or the 30 s context expires).                   *)
(*                                                                         *)
(* wireguard-go is external.  wg.go:205 starts it without -f, and nothing  *)
(* sets WG_PROCESS_FOREGROUND: it opens the device and its socket, hands   *)
(* both to a daemon it forks and exits, so that m.process is a process     *)
(* that has ended and the device belongs to one that the manager never     *)
(* held.  wg.go treats it as a child that stays.  Here it may do either.   *)
(***************************************************************************)
EXTENDS Naturals

CONSTANTS
  Configs,        \* contents of wg0.conf that wg.ValidateConfig accepts
  NoConfig,       \* the file is missing, half written or invalid
  Addresses,      \* interface addresses
  AddressesOf,    \* Configs -> the Interface.Address of a config ({} if none)
  MTUOf,          \* Configs -> the Interface.MTU of a config (0 if none)
  Procs,          \* identities of wireguard-go processes
  NoProc          \* m.process = nil

Absent == "absent"
Kernel == "kernel"

\* WGProcessManager.MTU is left 0 by withRuntimeDefaults, so mtu() is this.
DefaultWGMTU == 1320

ASSUME ConstantsAssumption ==
  /\ NoConfig \notin Configs
  /\ AddressesOf \in [Configs -> SUBSET Addresses]
  /\ MTUOf \in [Configs -> Nat]
  /\ NoProc \notin Procs
  /\ Absent \notin Procs /\ Kernel \notin Procs

VARIABLES
  wgFile,     \* contents of /app-state/wireguard/wg0.conf
  \* the manager
  op,         \* operation being run, or the last one
  pc,         \* its next command, "idle" when none runs
  cfg,        \* config read by the running (or last) Start
  deleted,    \* outcome of `ip link delete` in the running (or last) Stop
  stopErr,    \* Restart: the error of its Stop half
  ctxDone,    \* the context of the running (or last) operation has ended
  res,        \* result of the last operation
  process,    \* m.process
  \* the host
  phase,      \* life cycle of each wireguard-go process
  owner,      \* who provides device wg0
  conf,       \* config the device was given by `wg setconf`
  addrs,      \* addresses of the device
  mtu,        \* its MTU once `ip link set ... up` has run, 0 before
  sockFile    \* a file exists at the UAPI socket path

managerVars == <<op, pc, cfg, deleted, stopErr, ctxDone, res, process>>
deviceVars  == <<owner, conf, addrs, mtu>>
hostVars    == <<phase, sockFile, deviceVars>>
vars        == <<wgFile, managerVars, hostVars>>

Ops    == {"start", "stop", "restart"}
PCs    == {"idle", "read", "show", "add", "launch", "wait", "poll", "setconf",
           "addr", "linkup", "delete", "kill"}
\* "boot": started; "tun": has created the device; "serve": answers on the
\* UAPI socket; "killed": SIGKILL sent; "exited": not yet reaped; "gone".
Phases == {"gone", "boot", "tun", "serve", "killed", "exited"}
Alive  == {"boot", "tun", "serve"}

TypeOK ==
  /\ wgFile \in Configs \cup {NoConfig}
  /\ op \in Ops \cup {"none"}
  /\ pc \in PCs
  /\ cfg \in Configs \cup {NoConfig}
  /\ deleted \in {"none", "ok", "missing", "error"}
  /\ stopErr \in BOOLEAN
  /\ ctxDone \in BOOLEAN
  /\ res \in {"none", "ok", "error"}
  /\ process \in Procs \cup {NoProc}
  /\ phase \in [Procs -> Phases]
  /\ owner \in Procs \cup {Absent, Kernel}
  /\ conf \in Configs \cup {NoConfig}
  /\ addrs \in SUBSET Addresses
  /\ mtu \in Nat
  /\ sockFile \in BOOLEAN

\* A supervisor starts with an empty network namespace, but the container's
\* file system may still hold the socket file of an earlier wireguard-go.
Init ==
  /\ wgFile \in Configs \cup {NoConfig}
  /\ op = "none" /\ pc = "idle" /\ cfg = NoConfig
  /\ deleted = "none" /\ stopErr = FALSE /\ ctxDone = FALSE /\ res = "none"
  /\ process = NoProc
  /\ phase = [p \in Procs |-> "gone"]
  /\ owner = Absent /\ conf = NoConfig /\ addrs = {} /\ mtu = 0
  /\ sockFile \in BOOLEAN

----------------------------------------------------------------------------
(* Helpers *)

\* A device that has just been created or destroyed carries nothing.
NewOwner(o) ==
  /\ owner' = o
  /\ conf' = NoConfig
  /\ addrs' = {}
  /\ mtu' = 0

effectiveMTU(c) == IF MTUOf[c] # 0 THEN MTUOf[c] ELSE DefaultWGMTU

\* Process.Kill fails only on a process that has been waited for.
KillErr == process # NoProc /\ phase[process] = "gone"

\* Mutant of killLocked: the handle is dropped and its process left alone.
killLockedForgets == process' = NoProc /\ UNCHANGED phase

\* SIGKILL is sent and the handle dropped; the process dies later, by Exit.
killLocked ==
  /\ process' = NoProc
  /\ phase' = IF process # NoProc /\ phase[process] \in Alive
              THEN [phase EXCEPT ![process] = "killed"]
              ELSE phase

\* Mutant of Return: Restart reports the error of its Start half only.
ReturnStartErrOnly(r) == pc' = "idle" /\ res' = r

\* The operation returns r; Restart prefers the error of its Stop half.
Return(r) ==
  /\ pc' = "idle"
  /\ res' = IF op = "restart" /\ stopErr THEN "error" ELSE r

\* Mutant of FailStart: the error path returns without killLocked().
FailStartWithoutKill ==
  /\ Return("error")
  /\ UNCHANGED <<process, phase, deviceVars, sockFile>>

\* A Start that fails after the device was touched kills wireguard-go.
FailStart ==
  /\ killLocked
  /\ Return("error")
  /\ UNCHANGED <<deviceVars, sockFile>>

----------------------------------------------------------------------------
(* Start *)

Begin(o) ==
  /\ pc = "idle"
  /\ op' = o
  /\ pc' = IF o = "start" THEN "read" ELSE "delete"
  /\ cfg' = NoConfig /\ deleted' = "none" /\ res' = "none"
  /\ stopErr' = FALSE /\ ctxDone' = FALSE
  /\ UNCHANGED <<wgFile, process, hostVars>>

\* ReadFile, ValidateConfig and writeSetconfFile, before anything is touched.
ReadConfig ==
  /\ pc = "read"
  /\ \/ /\ wgFile # NoConfig
        /\ cfg' = wgFile
        /\ pc' = "show"
        /\ UNCHANGED res
     \/ /\ Return("error")
        /\ UNCHANGED cfg
  /\ UNCHANGED <<wgFile, op, deleted, stopErr, ctxDone, process, hostVars>>

\* ensureInterface: `ip link show dev wg0`, which fails on a device that exists
\* only when its context has ended.
LinkShow ==
  /\ pc = "show"
  /\ \/ owner # Absent /\ pc' = "setconf" /\ UNCHANGED ctxDone
     \/ pc' = "add" /\ ctxDone' = (owner # Absent)
  /\ UNCHANGED <<wgFile, op, cfg, deleted, stopErr, res, process, hostVars>>

\* Mutant of LinkAdd: the device is brought up before it is configured.
LinkAddUp ==
  /\ pc = "add"
  /\ \/ /\ owner = Absent /\ ~ctxDone
        /\ owner' = Kernel /\ conf' = NoConfig /\ addrs' = {} /\ mtu' = DefaultWGMTU
        /\ pc' = "setconf"
     \/ /\ pc' = IF process # NoProc THEN "setconf" ELSE "launch"
        /\ UNCHANGED deviceVars
  /\ UNCHANGED <<wgFile, op, cfg, deleted, stopErr, ctxDone, res, process, phase, sockFile>>

\* ensureInterface: `ip link add dev wg0 type wireguard`; when it fails, a
\* process handle that is still held is taken for a running wireguard-go.
LinkAdd ==
  /\ pc = "add"
  /\ \/ /\ owner = Absent /\ ~ctxDone
        /\ NewOwner(Kernel)
        /\ pc' = "setconf"
     \/ /\ pc' = IF process # NoProc THEN "setconf" ELSE "launch"
        /\ UNCHANGED deviceVars
  /\ UNCHANGED <<wgFile, op, cfg, deleted, stopErr, ctxDone, res, process, phase, sockFile>>

\* ensureInterface: StartProcess("wireguard-go", "wg0")
StartProcess ==
  /\ pc = "launch"
  /\ \/ /\ \E p \in Procs :
             /\ phase[p] = "gone"
             /\ process' = p
             /\ phase' = [phase EXCEPT ![p] = "boot"]
        /\ pc' = "wait"
        /\ UNCHANGED res
     \/ /\ Return("error")
        /\ UNCHANGED <<process, phase>>
  /\ UNCHANGED <<wgFile, op, cfg, deleted, stopErr, ctxDone, sockFile, deviceVars>>

\* userspaceInterfaceReady: os.Stat finds the socket file ...
StatSocket ==
  /\ pc = "wait" /\ sockFile
  /\ pc' = "poll"
  /\ UNCHANGED <<wgFile, op, cfg, deleted, stopErr, ctxDone, res, process, hostVars>>

\* ... and `ip link show` the device, or the loop goes on.
UserspaceInterfaceReady ==
  /\ pc = "poll"
  /\ \/ owner # Absent /\ ~ctxDone /\ pc' = "setconf"
     \/ pc' = "wait"
  /\ UNCHANGED <<wgFile, op, cfg, deleted, stopErr, ctxDone, res, process, hostVars>>

\* Mutant of WaitTimeout: the loop polls again and has no deadline.
WaitPollsForever ==
  /\ pc = "wait"
  /\ UNCHANGED vars

\* waitForUserspaceInterface: ctx.Done() or the 3 s deadline.
WaitTimeout ==
  /\ pc = "wait"
  /\ FailStart
  /\ UNCHANGED <<wgFile, op, cfg, deleted, stopErr, ctxDone>>

\* `wg setconf` reaches the kernel or the wireguard-go that listens.
SetConf ==
  /\ pc = "setconf"
  /\ \/ /\ owner = Kernel \/ (owner \in Procs /\ phase[owner] = "serve")
        /\ ~ctxDone
        /\ conf' = cfg
        /\ pc' = IF AddressesOf[cfg] # {} THEN "addr" ELSE "linkup"
        /\ UNCHANGED <<res, process, phase, owner, addrs, mtu, sockFile>>
     \/ FailStart
  /\ UNCHANGED <<wgFile, op, cfg, deleted, stopErr, ctxDone>>

\* `ip addr replace` adds the address; other addresses of the device stay.
AddrReplace ==
  /\ pc = "addr"
  /\ \/ /\ owner # Absent
        /\ addrs' = addrs \cup AddressesOf[cfg]
        /\ pc' = "linkup"
        /\ UNCHANGED <<res, process, phase, owner, conf, mtu, sockFile>>
     \/ FailStart
  /\ UNCHANGED <<wgFile, op, cfg, deleted, stopErr, ctxDone>>

LinkUp ==
  /\ pc = "linkup"
  /\ \/ /\ owner # Absent
        /\ mtu' = effectiveMTU(cfg)
        /\ Return("ok")
        /\ UNCHANGED <<process, phase, owner, conf, addrs, sockFile>>
     \/ FailStart
  /\ UNCHANGED <<wgFile, op, cfg, deleted, stopErr, ctxDone>>

----------------------------------------------------------------------------
(* Stop, and the Stop half of Restart *)

\* Mutant of LinkDelete: the output is kept as it is, not classified.
LinkDeleteUnclassified ==
  /\ pc = "delete"
  /\ pc' = "kill"
  /\ \/ owner # Absent /\ NewOwner(Absent) /\ deleted' = "ok"
     \/ owner = Absent /\ deleted' = "Cannot find device" /\ UNCHANGED deviceVars
     \/ deleted' = "error" /\ UNCHANGED deviceVars
  /\ UNCHANGED <<wgFile, op, cfg, stopErr, ctxDone, res, process, phase, sockFile>>

\* `ip link delete dev wg0`, its output classified by isMissingInterfaceOutput
LinkDelete ==
  /\ pc = "delete"
  /\ pc' = "kill"
  /\ \/ owner # Absent /\ NewOwner(Absent) /\ deleted' = "ok"
     \/ owner = Absent /\ deleted' = "missing" /\ UNCHANGED deviceVars
     \/ deleted' = "error" /\ UNCHANGED deviceVars
  /\ UNCHANGED <<wgFile, op, cfg, stopErr, ctxDone, res, process, phase, sockFile>>

\* Mutant of StopFailed: the error of `ip link delete` is dropped.
StopFailedKillOnly == KillErr

\* Stop returns killErr or the error of a delete that found the device.
StopFailed == KillErr \/ deleted = "error"

\* killLocked and the result of Stop; Restart goes on to Start regardless.
StopKill ==
  /\ pc = "kill"
  /\ killLocked
  /\ IF op = "restart"
     THEN stopErr' = StopFailed /\ pc' = "read" /\ UNCHANGED res
     ELSE Return(IF StopFailed THEN "error" ELSE "ok") /\ UNCHANGED stopErr
  /\ UNCHANGED <<wgFile, op, cfg, deleted, ctxDone, sockFile, deviceVars>>

----------------------------------------------------------------------------
(* wireguard-go, the Wait goroutine and the web process *)

CreateTun(p) ==
  /\ phase[p] = "boot" /\ owner = Absent
  /\ NewOwner(p)
  /\ phase' = [phase EXCEPT ![p] = "tun"]
  /\ UNCHANGED <<wgFile, managerVars, sockFile>>

\* wireguard-go in the foreground serves its socket itself.
Listen(p) ==
  /\ phase[p] = "tun"
  /\ phase' = [phase EXCEPT ![p] = "serve"]
  /\ sockFile' = TRUE
  /\ UNCHANGED <<wgFile, managerVars, deviceVars>>

\* It leaves the device and the socket to a daemon d and exits.
Detach(p, d) ==
  /\ phase[p] = "tun" /\ phase[d] = "gone"
  /\ phase' = [phase EXCEPT ![p] = "exited", ![d] = "serve"]
  /\ owner' = IF owner = p THEN d ELSE owner
  /\ sockFile' = TRUE
  /\ UNCHANGED <<wgFile, managerVars, conf, addrs, mtu>>

\* A crash, an exit because the device was deleted, or the end of a killed
\* process, which cannot remove its socket file.
Exit(p) ==
  /\ phase[p] \in Alive \cup {"killed"}
  /\ phase' = [phase EXCEPT ![p] = "exited"]
  /\ IF owner = p THEN NewOwner(Absent) ELSE UNCHANGED deviceVars
  /\ \/ UNCHANGED sockFile
     \/ phase[p] = "serve" /\ sockFile' = FALSE
  /\ UNCHANGED <<wgFile, managerVars>>

\* The goroutine of ExecStarter.StartProcess returns from proc.Wait().
Reap(p) ==
  /\ phase[p] = "exited"
  /\ phase' = [phase EXCEPT ![p] = "gone"]
  /\ UNCHANGED <<wgFile, managerVars, sockFile, deviceVars>>

\* postWGConfig rewrites the file; os.WriteFile truncates it first.
WriteConfig(c) ==
  /\ wgFile' = c
  /\ UNCHANGED <<managerVars, hostVars>>

----------------------------------------------------------------------------

ManagerStep ==
  \/ ReadConfig \/ LinkShow \/ LinkAdd \/ StartProcess
  \/ StatSocket \/ UserspaceInterfaceReady \/ WaitTimeout
  \/ SetConf \/ AddrReplace \/ LinkUp
  \/ LinkDelete \/ StopKill

Next ==
  \/ \E o \in Ops : Begin(o)
  \/ ManagerStep
  \/ \E p \in Procs : CreateTun(p) \/ Listen(p) \/ Exit(p) \/ Reap(p)
  \/ \E p, d \in Procs : Detach(p, d)
  \/ \E c \in Configs \cup {NoConfig} : WriteConfig(c)

\* Every command returns or is killed by its context: a running operation keeps
\* moving.  The deadline of the wait for the userspace interface stays ready once
\* it has passed, so the select that every poll ends in takes it in the end.
Fairness == WF_vars(ManagerStep) /\ SF_vars(WaitTimeout)

Spec == Init /\ [][Next]_vars
FairSpec == Spec /\ Fairness

----------------------------------------------------------------------------
(* Properties *)

\* wg.go:201-213, 312-319: a wireguard-go that has not set up its device yet is
\* the one that the running Start waits for; any other has been killed first.  So
\* none brings wg0 up behind a Start that gave up on it or a Stop that reported
\* success, and two never compete for it, although a daemon is out of reach.
NoLateDevice ==
  \A p \in Procs : phase[p] \in {"boot", "tun"}
                    => process = p /\ pc \in {"wait", "poll", "setconf"}

\* wg.go:147-160, 210-213: an operation that failed leaves no process handle,
\* except a Start rejected for its config (which touches nothing) and a Restart
\* whose Stop half failed (its Start half may have succeeded).  So a stale
\* handle costs one failed Start and the next one launches wireguard-go again.
FailureDropsProcess ==
  pc = "idle" /\ res = "error"
    => \/ process = NoProc
       \/ op = "start" /\ cfg = NoConfig
       \/ op = "restart" /\ stopErr

\* wg.go:164-183: after a Stop that reported success the device is gone, whoever
\* provided it, and nothing is held.
StopMeansDown ==
  pc = "idle" /\ op = "stop" /\ res = "ok" => process = NoProc /\ owner = Absent

\* wg.go:125-162, 273-284: a device that is still there after a Start or a
\* Restart that reported success carries the config that operation read; after
\* a Restart it carries that config's address only, nothing of an earlier one.
OkMeansConfigured ==
  pc = "idle" /\ op \in {"start", "restart"} /\ res = "ok" /\ owner # Absent
    => /\ conf = cfg
       /\ mtu = effectiveMTU(cfg)
       /\ AddressesOf[cfg] \subseteq addrs
       /\ op = "restart" => addrs = AddressesOf[cfg]

\* wg.go:218-236 and the command contexts: an operation always returns, even
\* if wireguard-go never becomes ready.
OperationReturns == (pc # "idle") ~> (pc = "idle")

\* supervisor_test.go:719-755: the tests of Stop on a userspace tunnel and on
\* an interface that is already absent fail on any error, so a Stop that leaves
\* no device reports success.
GoneMeansStopOk ==
  pc = "idle" /\ op = "stop" /\ deleted \in {"ok", "missing"} => res = "ok"

============================================================================
