----------------------- MODULE WireGuardManagerProofs -----------------------
(***************************************************************************)
(* Proofs that the safety properties of WireGuardManager hold for any set  *)
(* of configs, addresses and wireguard-go processes, and that it           *)
(* implements the tunnel of SupervisorActions.  Inv is inductive, and so   *)
(* is RInv, which relates the history variables of TunnelRefinement to the *)
(* manager: one lemma per action of Next for each.                         *)
(***************************************************************************)
EXTENDS TunnelRefinement, TLAPS

(* The inductive invariant behind the safety properties *)

startPCs == {"show", "add", "launch", "wait", "poll", "setconf", "addr", "linkup"}

\* Which commands belong to which operation; a Start has read nothing before
\* ReadConfig and a valid config after it, and Restart's Stop half leaves no
\* handle to its Start half.
Control ==
  /\ pc \in startPCs \cup {"read"} => op \in {"start", "restart"}
  /\ pc \in {"delete", "kill"} => op \in {"stop", "restart"}
  /\ pc \in {"delete", "kill", "read"} => cfg = NoConfig
  /\ pc = "read" /\ op = "restart" => process = NoProc
  /\ pc \in startPCs => cfg \in Configs
  /\ pc = "launch" => process = NoProc

\* A device provided by a process vanishes with that process, and one that is
\* being set up is its own; once the `ip link delete` of a Stop has not failed,
\* no device is left.
Ownership ==
  /\ owner \in Procs => phase[owner] \in {"tun", "serve", "killed"}
  /\ \A p \in Procs : phase[p] = "tun" => owner = p
  /\ pc = "kill" /\ deleted # "error" => owner = Absent

\* A wireguard-go is launched when there is no device, and one that has not
\* opened its own yet is still waited for.  (Unless the context has ended: then
\* there may be a device, and the Start fails.)
Launched ==
  /\ pc \in {"add", "launch"} /\ ~ctxDone => owner = Absent
  /\ \A p \in Procs : phase[p] = "boot" =>
       /\ pc \in {"wait", "poll"}
       /\ ~ctxDone => owner = Absent

\* The running Start is past `wg setconf`, or the last one returned ok.
PastSetconf ==
  \/ pc \in {"addr", "linkup"}
  \/ pc = "idle" /\ op \in {"start", "restart"} /\ res = "ok"

\* Then the device has the config.
Configured ==
  PastSetconf =>
    /\ cfg \in Configs
    /\ owner # Absent => conf = cfg
    /\ pc # "idle" /\ owner \in Procs => phase[owner] # "killed"

\* A Restart whose Stop half succeeded starts from a bare device, and so ends
\* with its config's addresses.
Addressed ==
  /\ op = "restart" /\ ~stopErr /\ pc \in (startPCs \cup {"read"}) \ {"linkup"}
       => owner = Absent \/ addrs = {}
  /\ pc = "linkup" /\ owner # Absent
       => /\ AddressesOf[cfg] \subseteq addrs
          /\ op = "restart" /\ ~stopErr => addrs = AddressesOf[cfg]

\* What every step of the manager, its processes and the kernel preserves.
Inv ==
  /\ TypeOK
  /\ NoLateDevice /\ FailureDropsProcess /\ StopMeansDown /\ OkMeansConfigured
  /\ Control /\ Ownership /\ Launched /\ Configured /\ Addressed

----------------------------------------------------------------------------

USE DEF Absent, Kernel, Alive, Phases, PCs, Ops

\* A new supervisor satisfies Inv.
LEMMA InitInv == Init => Inv
<1> SUFFICES ASSUME Init PROVE Inv
  OBVIOUS
<1>1. TypeOK
  BY ConstantsAssumption, Zenon DEF Init, TypeOK
<1>2. NoLateDevice
  BY DEF Init, NoLateDevice
<1>3. FailureDropsProcess /\ StopMeansDown /\ OkMeansConfigured
  BY DEF Init, FailureDropsProcess, StopMeansDown, OkMeansConfigured
<1>4. Control /\ Ownership /\ Launched /\ Configured /\ Addressed
  BY ConstantsAssumption
     DEF Init, Control, Ownership, Launched, PastSetconf, Configured, Addressed, startPCs
<1> QED
  BY <1>1, <1>2, <1>3, <1>4 DEF Inv

\* The server hands the manager an operation.
LEMMA BeginInv == ASSUME NEW o \in Ops, Inv, Begin(o) PROVE Inv'
<1> USE DEF Begin, hostVars, deviceVars
<1>1. TypeOK'
  BY ConstantsAssumption DEF Inv, TypeOK
<1>2. NoLateDevice'
  BY DEF Inv, NoLateDevice
<1>3. pc' \in {"read", "delete"} /\ res' = "none"
  OBVIOUS
<1>4. FailureDropsProcess' /\ StopMeansDown' /\ OkMeansConfigured'
  BY <1>3 DEF FailureDropsProcess, StopMeansDown, OkMeansConfigured
<1>5. Control'
  BY DEF Control, startPCs
<1>6. Ownership'
  BY <1>3 DEF Inv, Ownership
<1>7. Configured'
  BY <1>3 DEF Configured, PastSetconf
<1>8. Addressed'
  BY DEF Addressed, startPCs
<1>9. Launched'
  BY <1>3 DEF Inv, Launched
<1> QED
  BY <1>1, <1>2, <1>4, <1>5, <1>6, <1>7, <1>8, <1>9 DEF Inv

\* wg.go:128-141: reading and validating the config.
LEMMA ReadConfigInv == Inv /\ ReadConfig => Inv'
BY ConstantsAssumption
   DEF ReadConfig, Return, hostVars, deviceVars,
       Inv, TypeOK, NoLateDevice, FailureDropsProcess, StopMeansDown,
       OkMeansConfigured, Control, Ownership, Launched, PastSetconf, Configured,
       Addressed, startPCs

\* wg.go:186-191.
LEMMA LinkShowInv == Inv /\ LinkShow => Inv'
<1> SUFFICES ASSUME Inv, LinkShow PROVE Inv'
  OBVIOUS
<1>1. ctxDone' \in BOOLEAN
  BY Zenon DEF LinkShow, Inv, TypeOK
<1> QED
  BY <1>1, ConstantsAssumption
     DEF LinkShow, hostVars, deviceVars,
         Inv, TypeOK, NoLateDevice, FailureDropsProcess, StopMeansDown,
         OkMeansConfigured, Control, Ownership, Launched, PastSetconf, Configured,
         Addressed, startPCs

\* wg.go:195-203: the fallback respects a held handle.
LEMMA LinkAddInv == Inv /\ LinkAdd => Inv'
BY ConstantsAssumption
   DEF LinkAdd, NewOwner, hostVars, deviceVars,
       Inv, TypeOK, NoLateDevice, FailureDropsProcess, StopMeansDown,
       OkMeansConfigured, Control, Ownership, Launched, PastSetconf, Configured,
       Addressed, startPCs

\* wg.go:204-209: launched only without a handle, and for a Start that waits.
LEMMA StartProcessInv == Inv /\ StartProcess => Inv'
BY ConstantsAssumption
   DEF StartProcess, Return, deviceVars,
       Inv, TypeOK, NoLateDevice, FailureDropsProcess, StopMeansDown,
       OkMeansConfigured, Control, Ownership, Launched, PastSetconf, Configured,
       Addressed, startPCs

\* wg.go:239.
LEMMA StatSocketInv == Inv /\ StatSocket => Inv'
BY ConstantsAssumption
   DEF StatSocket, hostVars, deviceVars,
       Inv, TypeOK, NoLateDevice, FailureDropsProcess, StopMeansDown,
       OkMeansConfigured, Control, Ownership, Launched, PastSetconf, Configured,
       Addressed, startPCs

\* wg.go:225-227, 242: only its own device is found.
LEMMA ReadyInv == Inv /\ UserspaceInterfaceReady => Inv'
BY ConstantsAssumption
   DEF UserspaceInterfaceReady, hostVars, deviceVars,
       Inv, TypeOK, NoLateDevice, FailureDropsProcess, StopMeansDown,
       OkMeansConfigured, Control, Ownership, Launched, PastSetconf, Configured,
       Addressed, startPCs

\* wg.go:147-160, 210-213: every error path of Start past its config check.
LEMMA FailStartInv ==
  ASSUME Inv, pc \in startPCs, FailStart,
         UNCHANGED <<wgFile, op, cfg, deleted, stopErr, ctxDone>>
  PROVE  Inv'
BY ConstantsAssumption
   DEF FailStart, killLocked, Return, deviceVars,
       Inv, TypeOK, NoLateDevice, FailureDropsProcess, StopMeansDown,
       OkMeansConfigured, Control, Ownership, Launched, PastSetconf, Configured,
       Addressed, startPCs

\* wg.go:228-232.
LEMMA WaitTimeoutInv == Inv /\ WaitTimeout => Inv'
BY FailStartInv DEF WaitTimeout, startPCs

\* wg.go:147-150.
LEMMA SetConfInv == Inv /\ SetConf => Inv'
<1> SUFFICES ASSUME Inv, SetConf PROVE Inv'
  OBVIOUS
<1>1. CASE FailStart
  BY <1>1, FailStartInv DEF SetConf, startPCs
<1>2. CASE ~FailStart
  BY <1>2, ConstantsAssumption
     DEF SetConf,
         Inv, TypeOK, NoLateDevice, FailureDropsProcess, StopMeansDown,
         OkMeansConfigured, Control, Ownership, Launched, PastSetconf, Configured,
         Addressed, startPCs
<1> QED
  BY <1>1, <1>2

\* wg.go:151-156.
LEMMA AddrReplaceInv == Inv /\ AddrReplace => Inv'
<1> SUFFICES ASSUME Inv, AddrReplace PROVE Inv'
  OBVIOUS
<1>1. CASE FailStart
  BY <1>1, FailStartInv DEF AddrReplace, startPCs
<1>2. CASE ~FailStart
  BY <1>2, ConstantsAssumption
     DEF AddrReplace,
         Inv, TypeOK, NoLateDevice, FailureDropsProcess, StopMeansDown,
         OkMeansConfigured, Control, Ownership, Launched, PastSetconf, Configured,
         Addressed, startPCs
<1> QED
  BY <1>1, <1>2

\* wg.go:157-161.
LEMMA LinkUpInv == Inv /\ LinkUp => Inv'
<1> SUFFICES ASSUME Inv, LinkUp PROVE Inv'
  OBVIOUS
<1>1. CASE FailStart
  BY <1>1, FailStartInv DEF LinkUp, startPCs
<1>2. CASE ~FailStart
  BY <1>2, ConstantsAssumption
     DEF LinkUp, Return, effectiveMTU, DefaultWGMTU,
         Inv, TypeOK, NoLateDevice, FailureDropsProcess, StopMeansDown,
         OkMeansConfigured, Control, Ownership, Launched, PastSetconf, Configured,
         Addressed, startPCs
<1> QED
  BY <1>1, <1>2

\* wg.go:168-171.
LEMMA LinkDeleteInv == Inv /\ LinkDelete => Inv'
BY ConstantsAssumption
   DEF LinkDelete, NewOwner, deviceVars,
       Inv, TypeOK, NoLateDevice, FailureDropsProcess, StopMeansDown,
       OkMeansConfigured, Control, Ownership, Launched, PastSetconf, Configured,
       Addressed, startPCs

\* wg.go:172-182, 274-278: whoever provided the device is now killed.
LEMMA StopKillInv == Inv /\ StopKill => Inv'
<1> SUFFICES ASSUME Inv, StopKill PROVE Inv'
  OBVIOUS
<1>1. /\ process' = NoProc
      /\ phase' \in [Procs -> Phases]
      /\ \A p \in Procs : phase'[p] = IF p = process /\ phase[p] \in Alive
                                     THEN "killed" ELSE phase[p]
  BY ConstantsAssumption DEF StopKill, killLocked, Inv, TypeOK
<1>2. \A p \in Procs : \/ phase'[p] = phase[p] /\ phase[p] \notin {"boot", "tun"}
                       \/ phase'[p] = "killed"
  BY <1>1 DEF StopKill, Inv, NoLateDevice
<1>3. /\ owner \in Procs => phase'[owner] \in {"serve", "killed"}
      /\ deleted # "error" => owner = Absent
  BY <1>2 DEF StopKill, Inv, Ownership
<1>4. CASE op = "restart"
  <2>1. stopErr' \in BOOLEAN
    BY <1>4, Zenon DEF StopKill, StopFailed
  <2>2. ~stopErr' => deleted # "error"
    BY <1>4 DEF StopKill, StopFailed
  <2>3. /\ pc' = "read"
        /\ UNCHANGED <<wgFile, op, cfg, deleted, ctxDone, res>>
        /\ UNCHANGED <<sockFile, owner, conf, addrs, mtu>>
    BY <1>4 DEF StopKill, deviceVars
  <2>4. pc = "kill"
    BY DEF StopKill
  <2>5. cfg = NoConfig
    BY <2>4 DEF Inv, Control
  <2>6. TypeOK'
    BY <1>1, <2>1, <2>3 DEF Inv, TypeOK
  <2>7. NoLateDevice' /\ FailureDropsProcess' /\ StopMeansDown' /\ OkMeansConfigured'
    BY <1>2, <2>3
       DEF NoLateDevice, FailureDropsProcess, StopMeansDown, OkMeansConfigured
  <2>8. Control' /\ Ownership' /\ Launched' /\ Configured' /\ Addressed'
    BY <1>1, <1>2, <1>3, <1>4, <2>2, <2>3, <2>4, <2>5, ConstantsAssumption
       DEF Inv, TypeOK, Control, Ownership, Launched, PastSetconf, Configured, Addressed,
           startPCs
  <2> QED
    BY <2>6, <2>7, <2>8 DEF Inv
<1>5. CASE op # "restart"
  BY <1>1, <1>2, <1>3, <1>5, ConstantsAssumption
     DEF StopKill, StopFailed, Return, deviceVars,
         Inv, TypeOK, NoLateDevice, FailureDropsProcess, StopMeansDown,
         OkMeansConfigured, Control, Ownership, Launched, PastSetconf, Configured,
         Addressed, startPCs
<1> QED
  BY <1>4, <1>5

\* wireguard-go opens its device.
LEMMA CreateTunInv == ASSUME NEW p \in Procs, Inv, CreateTun(p) PROVE Inv'
BY ConstantsAssumption
   DEF CreateTun, NewOwner, managerVars, deviceVars,
       Inv, TypeOK, NoLateDevice, FailureDropsProcess, StopMeansDown,
       OkMeansConfigured, Control, Ownership, Launched, PastSetconf, Configured,
       Addressed, startPCs

\* wireguard-go listens on its socket.
LEMMA ListenInv == ASSUME NEW p \in Procs, Inv, Listen(p) PROVE Inv'
BY ConstantsAssumption
   DEF Listen, NewOwner, managerVars, deviceVars,
       Inv, TypeOK, NoLateDevice, FailureDropsProcess, StopMeansDown,
       OkMeansConfigured, Control, Ownership, Launched, PastSetconf, Configured,
       Addressed, startPCs

\* wireguard-go leaves its device to a daemon.
LEMMA DetachInv == ASSUME NEW p \in Procs, NEW d \in Procs, Inv, Detach(p, d) PROVE Inv'
<1>1. /\ owner = p /\ process = p /\ p # d /\ pc \in {"wait", "poll", "setconf"}
      /\ owner' = d
  BY DEF Detach, Inv, Ownership, NoLateDevice
<1>2. /\ phase' \in [Procs -> Phases]
      /\ \A q \in Procs : phase'[q] = IF q = p THEN "exited"
                                     ELSE IF q = d THEN "serve" ELSE phase[q]
  BY <1>1 DEF Detach, Inv, TypeOK
<1>3. \A q \in Procs : phase'[q] \notin {"boot", "tun"}
  BY <1>1, <1>2 DEF Inv, NoLateDevice
<1>4. /\ UNCHANGED <<wgFile, op, pc, cfg, deleted, stopErr, ctxDone, res, process>>
      /\ UNCHANGED <<conf, addrs, mtu>>
      /\ sockFile' \in BOOLEAN
  BY DEF Detach, managerVars
<1>5. TypeOK'
  BY <1>1, <1>2, <1>4 DEF Inv, TypeOK
<1>6. NoLateDevice' /\ FailureDropsProcess' /\ StopMeansDown' /\ OkMeansConfigured'
  BY <1>1, <1>3, <1>4
     DEF NoLateDevice, FailureDropsProcess, StopMeansDown, OkMeansConfigured
<1>7. Control' /\ Configured'
  BY <1>1, <1>4 DEF Inv, Control, Configured, PastSetconf, startPCs
<1>8. Ownership' /\ Launched'
  BY <1>1, <1>2, <1>3, <1>4 DEF Ownership, Launched
<1>9. Addressed'
  BY <1>1, <1>4, ConstantsAssumption DEF Inv, Addressed, startPCs
<1> QED
  BY <1>5, <1>6, <1>7, <1>8, <1>9 DEF Inv

\* wireguard-go dies and its device with it.
LEMMA ExitInv == ASSUME NEW p \in Procs, Inv, Exit(p) PROVE Inv'
<1>1. sockFile' \in BOOLEAN
  BY Zenon DEF Exit, Inv, TypeOK
<1>2. /\ phase' \in [Procs -> Phases]
      /\ \A q \in Procs : phase'[q] = IF q = p THEN "exited" ELSE phase[q]
  BY DEF Exit, Inv, TypeOK
<1>3. CASE owner = p
  BY <1>1, <1>2, <1>3, ConstantsAssumption
     DEF Exit, NewOwner, managerVars,
         Inv, TypeOK, NoLateDevice, FailureDropsProcess, StopMeansDown,
         OkMeansConfigured, Control, Ownership, Launched, PastSetconf, Configured,
         Addressed, startPCs
<1>4. CASE owner # p
  BY <1>1, <1>2, <1>4, ConstantsAssumption
     DEF Exit, managerVars, deviceVars,
         Inv, TypeOK, NoLateDevice, FailureDropsProcess, StopMeansDown,
         OkMeansConfigured, Control, Ownership, Launched, PastSetconf, Configured,
         Addressed, startPCs
<1> QED
  BY <1>3, <1>4

\* wg.go:108-110.
LEMMA ReapInv == ASSUME NEW p \in Procs, Inv, Reap(p) PROVE Inv'
BY ConstantsAssumption
   DEF Reap, NewOwner, managerVars, deviceVars,
       Inv, TypeOK, NoLateDevice, FailureDropsProcess, StopMeansDown,
       OkMeansConfigured, Control, Ownership, Launched, PastSetconf, Configured,
       Addressed, startPCs

\* The web process rewrites wg0.conf at any time.
LEMMA WriteConfigInv ==
  ASSUME NEW c \in Configs \cup {NoConfig}, Inv, WriteConfig(c) PROVE Inv'
BY ConstantsAssumption
   DEF WriteConfig, managerVars, hostVars, deviceVars,
       Inv, TypeOK, NoLateDevice, FailureDropsProcess, StopMeansDown,
       OkMeansConfigured, Control, Ownership, Launched, PastSetconf, Configured,
       Addressed, startPCs

\* Nothing changes.
LEMMA StutterInv == Inv /\ UNCHANGED vars => Inv'
BY DEF vars, managerVars, hostVars, deviceVars,
       Inv, TypeOK, NoLateDevice, FailureDropsProcess, StopMeansDown,
       OkMeansConfigured, Control, Ownership, Launched, PastSetconf, Configured,
       Addressed, startPCs

\* Every step of the manager, its processes and the web process keeps Inv.
LEMMA NextInv == Inv /\ [Next]_vars => Inv'
<1> SUFFICES ASSUME Inv, [Next]_vars PROVE Inv'
  OBVIOUS
<1>1. ASSUME NEW o \in Ops, Begin(o) PROVE Inv'
  BY <1>1, BeginInv
<1>2. CASE ManagerStep
  BY <1>2, ReadConfigInv, LinkShowInv, LinkAddInv, StartProcessInv, StatSocketInv, ReadyInv,
     WaitTimeoutInv, SetConfInv, AddrReplaceInv, LinkUpInv, LinkDeleteInv,
     StopKillInv
     DEF ManagerStep
<1>3. ASSUME NEW p \in Procs, CreateTun(p) \/ Listen(p) \/ Exit(p) \/ Reap(p)
      PROVE  Inv'
  BY <1>3, CreateTunInv, ListenInv, ExitInv, ReapInv
<1>4. ASSUME NEW p \in Procs, NEW d \in Procs, Detach(p, d) PROVE Inv'
  BY <1>4, DetachInv
<1>5. ASSUME NEW c \in Configs \cup {NoConfig}, WriteConfig(c) PROVE Inv'
  BY <1>5, WriteConfigInv
<1>6. CASE UNCHANGED vars
  BY <1>6, StutterInv
<1> QED
  BY <1>1, <1>2, <1>3, <1>4, <1>5, <1>6 DEF Next

(* wg.go:125-319: Inv holds in every state of every behaviour, whatever      *)
(* commands fail, processes die and configs are written in between.          *)
THEOREM Invariance == Spec => []Inv
BY InitInv, NextInv, PTL DEF Spec

(* Every variable keeps its type. *)
THEOREM TypeCorrect == Spec => []TypeOK
BY Invariance, PTL DEF Inv

(* wg.go:201-213, 312-319: no wireguard-go that a Start gave up on brings a  *)
(* device up behind the manager, whether it stays a child or detaches.       *)
THEOREM NoDeviceIsLate == Spec => []NoLateDevice
BY Invariance, PTL DEF Inv

(* wg.go:147-160, 210-213: a failed operation leaves no stale handle behind. *)
THEOREM FailedOperationDropsProcess == Spec => []FailureDropsProcess
BY Invariance, PTL DEF Inv

(* wg.go:164-183: a Stop that reports success has brought the tunnel down.   *)
THEOREM SuccessfulStopMeansDown == Spec => []StopMeansDown
BY Invariance, PTL DEF Inv

(* wg.go:125-162, 273-284: a Start or Restart that reports success has       *)
(* configured the device with the config it read.                            *)
THEOREM SuccessfulStartMeansConfigured == Spec => []OkMeansConfigured
BY Invariance, PTL DEF Inv

----------------------------------------------------------------------------
(* The refinement: the inductive invariant of the history variables *)

\* A device that is gone, and one that was only just created.
Gone == [dev |-> "absent", conf |-> NoConfig]
Bare == [dev |-> "down", conf |-> NoConfig]

\* Which config the rest of the system takes the operation to have used.
Recalled ==
  /\ read \in Configs \cup {NoConfig}
  /\ pc \in {"delete", "kill", "read"} => read = wgFile
  /\ HasRead => read = cfg

\* How the device may differ, command by command, from what was last seen.
Foreseen ==
  /\ seen \in [dev : {"absent", "down", "up"}, conf : Configs \cup {NoConfig}]
  /\ seen.dev = "absent" => seen.conf = NoConfig
  /\ pc = "idle" => Device = seen
  /\ pc = "delete" \/ (pc = "kill" /\ deleted = "error") => Device \in {seen, Gone}
  /\ pc \in {"read", "show", "add", "launch"} =>
       Device = seen \/ (op = "restart" /\ Device = Gone)
  /\ pc \in {"wait", "poll", "setconf"} =>
       \/ Device = seen
       \/ Device = Bare /\ (op = "restart" \/ seen = Gone)
       \/ Device = Gone /\ op = "restart"
  /\ pc \in {"addr", "linkup"} =>
       \/ Device = Gone /\ (op = "restart" \/ seen = Gone)
       \/ /\ Device.dev # "absent" /\ Device.conf = cfg
          /\ \/ op = "restart"
             \/ Device.dev = IF seen.dev = "absent" THEN "down" ELSE seen.dev

RInv == Recalled /\ Foreseen

USE DEF Host!hostVars, Host!deviceVars, Host!birdVars, Gone, Bare, HasRead, Returns

\* The device as seen by the system is absent exactly when it is Gone.
LEMMA DeviceFields ==
  ASSUME TypeOK
  PROVE  /\ Device \in [dev : {"absent", "down", "up"}, conf : Configs \cup {NoConfig}]
         /\ Device.dev = "absent" <=>
              owner = Absent \/ (owner \in Procs /\ phase[owner] \notin Alive)
         /\ Device.dev = "absent" => Device = Gone
         /\ Device.dev = "down" => mtu = 0
         /\ Device.dev = "up" => mtu # 0
         /\ Device.dev # "absent" => Device.conf = conf
BY DEF Device, TypeOK

\* The empty routing table of a system that is only the tunnel.
LEMMA EmptyTable == Host!WithoutWg0([p \in {} |-> "none"]) = [p \in {} |-> "none"]
BY DEF Host!WithoutWg0, Host!Prefixes

\* A step within an operation, or between two, changes nothing but the file, or
\* the device has died.
LEMMA QuietStep ==
  ASSUME Inv, Inv', Foreseen, Remember, ~Returns, read' = read \/ seen' = seen
  PROVE  TunnelStep
<1>1. CASE seen' = seen
  BY <1>1 DEF TunnelStep, Host!SaveWg
<1>2. CASE seen' # seen
  <2>1. seen' = Device' /\ Device'.dev = "absent" /\ read' = read
    BY <1>2 DEF Remember
  <2>2. seen' = Gone
    <3>1. Device' = Gone
      BY <2>1, ConstantsAssumption DEF Device, Inv, TypeOK
    <3> QED
      BY <2>1, <3>1
  <2>3. seen'.dev = "absent" /\ seen'.conf = NoConfig
    BY <2>2
  <2>4. seen.dev # "absent"
    <3> SUFFICES ASSUME seen.dev = "absent" PROVE seen = Gone
      BY <1>2, <2>2
    <3> QED
      BY DEF Foreseen
  <2>5. Host!DeviceDies
    BY <2>1, <2>3, <2>4, EmptyTable DEF Host!DeviceDies, Host!NewDevice
  <2> QED
    BY <2>5 DEF TunnelStep
<1> QED
  BY <1>1, <1>2

\* An operation begins: a save that was ordered after the last one is now read.
LEMMA BeginRefines ==
  ASSUME NEW o \in Ops, Inv, Inv', RInv, Begin(o), Remember
  PROVE  RInv' /\ TunnelStep
<1>1. /\ pc = "idle" /\ pc' \in {"read", "delete"} /\ deleted' = "none"
      /\ wgFile' \in Configs \cup {NoConfig}
      /\ UNCHANGED <<wgFile, phase, owner, conf, mtu>>
  BY DEF Begin, hostVars, deviceVars, Inv, TypeOK
<1>2. Device' = Device
  BY <1>1 DEF Device
<1>3. seen' = seen /\ read' = wgFile' /\ ~Returns
  BY <1>1, <1>2 DEF Remember
<1>4. Recalled'
  BY <1>1, <1>3 DEF Recalled
<1>5. Foreseen'
  BY <1>1, <1>2, <1>3 DEF RInv, Foreseen
<1>6. TunnelStep
  BY <1>3, QuietStep DEF RInv
<1> QED
  BY <1>4, <1>5, <1>6 DEF RInv

\* The web process saves: at once, or ordered after the operation that has read.
LEMMA WriteRefines ==
  ASSUME NEW c \in Configs \cup {NoConfig}, Inv, Inv', RInv, WriteConfig(c), Remember
  PROVE  RInv' /\ TunnelStep
<1>1. /\ wgFile' \in Configs \cup {NoConfig}
      /\ UNCHANGED <<pc, op, cfg, deleted, phase, owner, conf, mtu>>
  BY DEF WriteConfig, managerVars, hostVars, deviceVars
<1>2. Device' = Device
  BY <1>1 DEF Device
<1>3. seen' = seen /\ ~Returns
  BY <1>1, <1>2 DEF Remember
<1>4. Recalled'
  BY <1>1 DEF RInv, Recalled, Remember
<1>5. Foreseen'
  BY <1>1, <1>2, <1>3 DEF RInv, Foreseen
<1>6. TunnelStep
  BY <1>3, QuietStep DEF RInv
<1> QED
  BY <1>4, <1>5, <1>6 DEF RInv

\* A step of the host leaves what was read.
LEMMA HostRecalls ==
  ASSUME RInv, UNCHANGED <<wgFile, managerVars>>, Remember
  PROVE  Recalled' /\ read' = read /\ ~Returns
BY DEF managerVars, RInv, Recalled, Remember

\* A step of the host that leaves the device.
LEMMA HostQuiet ==
  ASSUME Inv, Inv', RInv, UNCHANGED <<wgFile, managerVars>>, Remember,
         Device' = Device
  PROVE  RInv' /\ TunnelStep
<1>1. Recalled' /\ read' = read /\ ~Returns
  BY HostRecalls
<1>2. seen' = seen
  BY <1>1 DEF Remember
<1>3. Foreseen'
  BY <1>2 DEF managerVars, RInv, Foreseen
<1> QED
  BY <1>1, <1>3, QuietStep DEF RInv

\* wireguard-go opens its device: only while its own Start waits for it.
LEMMA CreateTunRefines ==
  ASSUME NEW p \in Procs, Inv, Inv', RInv, CreateTun(p), Remember
  PROVE  RInv' /\ TunnelStep
<1>1. Recalled' /\ read' = read /\ ~Returns
  BY HostRecalls DEF CreateTun
<1>2. /\ owner = Absent /\ owner' = p /\ conf' = NoConfig /\ mtu' = 0
      /\ phase[p] = "boot"
      /\ phase'[p] = "tun"
      /\ UNCHANGED <<pc, op, cfg, deleted>>
  BY DEF CreateTun, NewOwner, managerVars, Inv, TypeOK
<1>3. Device = Gone
  BY <1>2 DEF Device
<1>4. Device' = Bare
  BY <1>2, ConstantsAssumption DEF Device
<1>5. seen' = seen
  <2>1. Device'.dev = "down"
    BY <1>4
  <2> QED
    BY <1>1, <2>1 DEF Remember
<1>6. pc \in {"wait", "poll"}
  BY <1>2 DEF Inv, Launched
<1>7. Foreseen'
  BY <1>2, <1>3, <1>4, <1>5, <1>6 DEF RInv, Foreseen
<1> QED
  BY <1>1, <1>7, QuietStep DEF RInv

\* wireguard-go listens: the device is the one it had.
LEMMA ListenRefines ==
  ASSUME NEW p \in Procs, Inv, Inv', RInv, Listen(p), Remember
  PROVE  RInv' /\ TunnelStep
<1>1. /\ \A q \in Procs : phase'[q] \in Alive <=> phase[q] \in Alive
      /\ UNCHANGED <<wgFile, pc, op, cfg, deleted, owner, conf, mtu>>
  BY DEF Listen, managerVars, deviceVars, Inv, TypeOK
<1>2. Device' = Device
  BY <1>1 DEF Device
<1> QED
  BY <1>2, HostQuiet DEF Listen

\* wireguard-go leaves its device to a daemon: the device is the one it had.
LEMMA DetachRefines ==
  ASSUME NEW p \in Procs, NEW d \in Procs, Inv, Inv', RInv, Detach(p, d), Remember
  PROVE  RInv' /\ TunnelStep
<1>1. /\ owner = p /\ owner' = d
      /\ phase[p] = "tun" /\ phase'[d] = "serve"
      /\ UNCHANGED <<conf, mtu>>
  BY DEF Detach, Inv, TypeOK, Ownership
<1>2. Device' = Device
  BY <1>1, ConstantsAssumption DEF Device
<1> QED
  BY <1>2, HostQuiet DEF Detach

\* An exited process is reaped: it had no device.
LEMMA ReapRefines ==
  ASSUME NEW p \in Procs, Inv, Inv', RInv, Reap(p), Remember
  PROVE  RInv' /\ TunnelStep
<1>1. /\ \A q \in Procs : phase'[q] \in Alive <=> phase[q] \in Alive
      /\ UNCHANGED <<wgFile, pc, op, cfg, deleted, owner, conf, mtu>>
  BY DEF Reap, managerVars, deviceVars, Inv, TypeOK
<1>2. Device' = Device
  BY <1>1 DEF Device
<1> QED
  BY <1>2, HostQuiet DEF Reap

\* wireguard-go dies: a device that was not doomed before is now seen to be gone.
LEMMA ExitRefines ==
  ASSUME NEW p \in Procs, Inv, Inv', RInv, Exit(p), Remember
  PROVE  RInv' /\ TunnelStep
<1>1. Recalled' /\ read' = read /\ ~Returns
  BY HostRecalls DEF Exit
<1>2. /\ \A q \in Procs : phase'[q] = IF q = p THEN "exited" ELSE phase[q]
      /\ UNCHANGED <<pc, op, cfg, deleted>>
  BY DEF Exit, managerVars, Inv, TypeOK
<1>3. CASE owner # p
  <2>1. UNCHANGED <<owner, conf, mtu>>
    BY <1>3 DEF Exit, deviceVars
  <2>2. Device' = Device
    BY <1>2, <1>3, <2>1 DEF Device
  <2> QED
    BY <2>2, HostQuiet DEF Exit
<1>4. CASE owner = p
  <2>1. owner' = Absent
    BY <1>4 DEF Exit, NewOwner
  <2>2. Device' = Gone
    BY <2>1 DEF Device
  <2>3. CASE Device = Gone
    BY <2>2, <2>3, HostQuiet DEF Exit
  <2>4. CASE Device # Gone /\ pc # "delete"
    <3>1. Device'.dev = "absent"
      BY <2>2
    <3>2. seen' = Gone
      BY <2>2, <2>4, <3>1 DEF Remember
    <3>3. Foreseen'
      BY <2>2, <3>2 DEF Foreseen
    <3> QED
      BY <1>1, <3>3, QuietStep DEF RInv
  <2>5. CASE pc = "delete"
    <3>1. seen' = seen
      BY <1>1, <2>5 DEF Remember
    <3>2. Foreseen'
      BY <1>2, <2>2, <2>5, <3>1 DEF RInv, Foreseen
    <3> QED
      BY <1>1, <3>2, QuietStep DEF RInv
  <2> QED
    BY <2>3, <2>4, <2>5
<1> QED
  BY <1>3, <1>4

\* What is seen when an operation returns is the device as it is.
LEMMA ReturnSees ==
  ASSUME Inv, Inv', RInv, Returns, Remember
  PROVE  seen' = Device' /\ read' = read /\ Recalled' /\ Foreseen'
<1>1. seen' = Device' /\ read' = read
  BY DEF Remember
<1>2. Recalled'
  BY <1>1 DEF RInv, Recalled
<1>3. /\ Device' \in [dev : {"absent", "down", "up"}, conf : Configs \cup {NoConfig}]
      /\ Device'.dev = "absent" => Device'.conf = NoConfig
  BY DEF Device, Inv, TypeOK
<1>4. Foreseen'
  BY <1>1, <1>3 DEF Foreseen
<1> QED
  BY <1>1, <1>2, <1>4

\* wg.go:147-160, 210-213 against StartFails: a Start that fails past its config
\* check leaves the device as far as it came, or none.
LEMMA FailedOutcome ==
  ASSUME Inv, RInv, pc \in startPCs, Returns, res' = "error", read' = read,
         seen' = Gone \/ seen' = Device
  PROVE  TunnelStep
<1>1. read \in Configs /\ read = cfg /\ read # NoConfig
  BY ConstantsAssumption DEF RInv, Recalled, Inv, Control, startPCs
<1>2. op \in {"start", "restart"}
  BY DEF Inv, Control
<1>3. Device.dev = "absent" => Device = Gone
  BY DeviceFields DEF Inv
<1>4. CASE op = "start"
  <2>1. \/ seen'.dev = seen.dev /\ seen'.conf = seen.conf
        \/ /\ seen'.dev = IF seen.dev = "absent" THEN "down" ELSE seen.dev
           /\ seen'.conf = read
        \/ seen.dev = "absent" /\ seen'.dev = "down" /\ seen'.conf = NoConfig
        \/ seen'.dev = "absent" /\ seen'.conf = NoConfig
    BY <1>1, <1>3, <1>4 DEF RInv, Foreseen, startPCs
  <2>2. Host!StartFails
    BY <1>1, <2>1, EmptyTable
       DEF Host!StartFails, Host!KeepDevice, Host!NewDevice
  <2>3. Host!startWG(FALSE)
    BY <2>2 DEF Host!startWG, Host!MayFail
  <2> QED
    BY <1>4, <2>3 DEF TunnelStep
<1>5. CASE op = "restart"
  <2>1. \/ seen'.dev = seen.dev /\ seen'.conf = seen.conf
        \/ seen'.dev \in {"down", "up"} /\ seen'.conf = read
        \/ seen'.dev = "down" /\ seen'.conf = NoConfig
        \/ seen'.dev = "absent" /\ seen'.conf = NoConfig
    <3>1. Device \in [dev : {"absent", "down", "up"}, conf : Configs \cup {NoConfig}]
      BY DeviceFields DEF Inv
    <3> QED
      BY <1>1, <1>3, <1>5, <3>1 DEF RInv, Foreseen, startPCs
  <2>2. Host!restartWG(FALSE)
    BY <1>1, <2>1, EmptyTable
       DEF Host!restartWG, Host!MayFail, Host!StartFails, Host!KeepDevice, Host!NewDevice
  <2> QED
    BY <1>5, <2>2 DEF TunnelStep
<1> QED
  BY <1>2, <1>4, <1>5

\* wg.go:128-141: a rejected config changes nothing; an accepted one is what
\* the system takes to be the operation's.
LEMMA ReadConfigRefines ==
  ASSUME Inv, Inv', RInv, ReadConfig, Remember
  PROVE  RInv' /\ TunnelStep
<1>1. /\ pc = "read" /\ op \in {"start", "restart"}
      /\ UNCHANGED <<wgFile, op, deleted, stopErr, phase, owner, conf, mtu>>
  BY DEF ReadConfig, hostVars, deviceVars, Inv, Control
<1>2. Device' = Device
  BY <1>1 DEF Device
<1>3. CASE pc' = "show" /\ cfg' = wgFile
  <2>1. seen' = seen /\ read' = read /\ ~Returns /\ read' = cfg'
    BY <1>1, <1>2, <1>3 DEF Remember, RInv, Recalled
  <2>2. Recalled'
    BY <1>3, <2>1 DEF RInv, Recalled
  <2>3. Foreseen'
    BY <1>1, <1>2, <1>3, <2>1 DEF RInv, Foreseen
  <2> QED
    BY <2>1, <2>2, <2>3, QuietStep DEF RInv
<1>4. CASE Return("error")
  <2>1. Returns /\ res' = "error"
    BY <1>1, <1>4 DEF Return
  <2>2. seen' = Device' /\ read' = read /\ Recalled' /\ Foreseen'
    BY <2>1, ReturnSees
  <2>3. CASE op = "start"
    <3>1. seen'.dev = seen.dev /\ seen'.conf = seen.conf
      BY <1>1, <1>2, <2>2, <2>3 DEF RInv, Foreseen
    <3>2. Host!startWG(FALSE)
      BY <2>2, <3>1 DEF Host!startWG, Host!MayFail, Host!StartFails, Host!KeepDevice
    <3> QED
      BY <2>1, <2>2, <2>3, <3>2 DEF TunnelStep, RInv
  <2>4. CASE op = "restart"
    <3>1. \/ seen'.dev = seen.dev /\ seen'.conf = seen.conf
          \/ seen'.dev = "absent" /\ seen'.conf = NoConfig
      BY <1>1, <1>2, <2>2 DEF RInv, Foreseen
    <3>2. Host!restartWG(FALSE)
      BY <2>2, <3>1, EmptyTable
         DEF Host!restartWG, Host!MayFail, Host!StartFails, Host!KeepDevice,
             Host!NewDevice
    <3> QED
      BY <2>1, <2>2, <2>4, <3>2 DEF TunnelStep, RInv
  <2> QED
    BY <1>1, <2>3, <2>4
<1> QED
  BY <1>3, <1>4 DEF ReadConfig

\* A command within a Start leaves what was read.
LEMMA CommandRecalls ==
  ASSUME RInv, Remember, pc \in startPCs, pc' \in startPCs, UNCHANGED cfg
  PROVE  Recalled' /\ read' = read /\ ~Returns
BY DEF RInv, Recalled, Remember, startPCs

\* wg.go:186-191.
LEMMA LinkShowRefines ==
  ASSUME Inv, Inv', RInv, LinkShow, Remember
  PROVE  RInv' /\ TunnelStep
<1>1. /\ pc = "show" /\ pc' \in {"setconf", "add"}
      /\ UNCHANGED <<op, cfg, deleted, phase, owner, conf, mtu>>
  BY DEF LinkShow, hostVars, deviceVars
<1>2. Device' = Device
  BY <1>1 DEF Device
<1>3. Recalled' /\ read' = read /\ ~Returns
  BY <1>1, CommandRecalls DEF startPCs
<1>4. seen' = seen
  BY <1>2, <1>3 DEF Remember
<1>5. Foreseen'
  BY <1>1, <1>2, <1>4 DEF RInv, Foreseen
<1> QED
  BY <1>3, <1>5, QuietStep DEF RInv

\* wg.go:195-203: the kernel's device is new, or nothing was done.
LEMMA LinkAddRefines ==
  ASSUME Inv, Inv', RInv, LinkAdd, Remember
  PROVE  RInv' /\ TunnelStep
<1>1. /\ pc = "add" /\ pc' \in {"setconf", "launch"}
      /\ UNCHANGED <<op, cfg, deleted, phase>>
  BY DEF LinkAdd
<1>2. Recalled' /\ read' = read /\ ~Returns
  BY <1>1, CommandRecalls DEF startPCs
<1>3. CASE owner = Absent /\ NewOwner(Kernel) /\ pc' = "setconf"
  <2>1. Device = Gone
    BY <1>3 DEF Device
  <2>2. Device' = Bare
    BY <1>3, ConstantsAssumption DEF Device, NewOwner
  <2>3. Device'.dev # "absent"
    BY <2>2
  <2>4. seen' = seen
    BY <1>2, <2>3 DEF Remember
  <2>5. Foreseen'
    BY <1>1, <1>3, <2>1, <2>2, <2>4 DEF RInv, Foreseen
  <2> QED
    BY <1>2, <2>5, QuietStep DEF RInv
<1>4. CASE UNCHANGED deviceVars
  <2>1. Device' = Device
    BY <1>1, <1>4 DEF Device, deviceVars
  <2>2. seen' = seen
    BY <1>2, <2>1 DEF Remember
  <2>3. Foreseen'
    BY <1>1, <2>1, <2>2 DEF RInv, Foreseen
  <2> QED
    BY <1>2, <2>3, QuietStep DEF RInv
<1> QED
  BY <1>3, <1>4 DEF LinkAdd

\* wg.go:204-209: a launched process has no device yet.
LEMMA StartProcessRefines ==
  ASSUME Inv, Inv', RInv, StartProcess, Remember
  PROVE  RInv' /\ TunnelStep
<1>1. /\ pc = "launch" /\ process = NoProc
      /\ UNCHANGED <<op, cfg, deleted, owner, conf, mtu>>
  BY DEF StartProcess, deviceVars, Inv, Control
<1>2. CASE Return("error") /\ UNCHANGED phase
  <2>1. Device' = Device
    BY <1>1, <1>2 DEF Device
  <2>2. Returns /\ res' = "error"
    BY <1>1, <1>2 DEF Return
  <2>3. seen' = Device' /\ read' = read /\ Recalled' /\ Foreseen'
    BY <2>2, ReturnSees
  <2>4. TunnelStep
    BY <1>1, <2>1, <2>2, <2>3, FailedOutcome DEF startPCs
  <2> QED
    BY <2>3, <2>4 DEF RInv
<1>3. CASE pc' = "wait"
  <2>1. PICK p \in Procs : phase[p] = "gone" /\ phase' = [phase EXCEPT ![p] = "boot"]
    BY <1>3 DEF StartProcess, Return
  <2>2. owner # p
    BY <2>1 DEF Inv, Ownership
  <2>3. Device' = Device
    BY <1>1, <2>1, <2>2 DEF Device, Inv, TypeOK
  <2>4. Recalled' /\ read' = read /\ ~Returns
    BY <1>1, <1>3, CommandRecalls DEF startPCs
  <2>5. seen' = seen
    BY <2>3, <2>4 DEF Remember
  <2>6. Foreseen'
    BY <1>1, <1>3, <2>3, <2>5 DEF RInv, Foreseen
  <2> QED
    BY <2>4, <2>6, QuietStep DEF RInv
<1> QED
  BY <1>2, <1>3 DEF StartProcess

\* wg.go:239.
LEMMA StatSocketRefines ==
  ASSUME Inv, Inv', RInv, StatSocket, Remember
  PROVE  RInv' /\ TunnelStep
<1>1. /\ pc = "wait" /\ pc' = "poll"
      /\ UNCHANGED <<op, cfg, deleted, phase, owner, conf, mtu>>
  BY DEF StatSocket, hostVars, deviceVars
<1>2. Device' = Device
  BY <1>1 DEF Device
<1>3. Recalled' /\ read' = read /\ ~Returns
  BY <1>1, CommandRecalls DEF startPCs
<1>4. seen' = seen
  BY <1>2, <1>3 DEF Remember
<1>5. Foreseen'
  BY <1>1, <1>2, <1>4 DEF RInv, Foreseen
<1> QED
  BY <1>3, <1>5, QuietStep DEF RInv

\* wg.go:225-227, 242.
LEMMA ReadyRefines ==
  ASSUME Inv, Inv', RInv, UserspaceInterfaceReady, Remember
  PROVE  RInv' /\ TunnelStep
<1>1. /\ pc = "poll" /\ pc' \in {"wait", "setconf"}
      /\ UNCHANGED <<op, cfg, deleted, phase, owner, conf, mtu>>
  BY DEF UserspaceInterfaceReady, hostVars, deviceVars
<1>2. Device' = Device
  BY <1>1 DEF Device
<1>3. Recalled' /\ read' = read /\ ~Returns
  BY <1>1, CommandRecalls DEF startPCs
<1>4. seen' = seen
  BY <1>2, <1>3 DEF Remember
<1>5. Foreseen'
  BY <1>1, <1>2, <1>4 DEF RInv, Foreseen
<1> QED
  BY <1>3, <1>5, QuietStep DEF RInv

\* SIGKILL dooms the device of the process that is held; any other stays.
LEMMA KillDooms ==
  ASSUME Inv, killLocked, UNCHANGED <<owner, conf, mtu>>
  PROVE  Device' = Device \/ Device' = Gone
<1>1. \A p \in Procs : phase'[p] = IF p = process /\ phase[p] \in Alive
                                 THEN "killed" ELSE phase[p]
  BY ConstantsAssumption DEF killLocked, Inv, TypeOK
<1> QED
  BY <1>1 DEF Device

\* wg.go:147-160, 210-213: every failure of a Start past its config check.
LEMMA FailStartRefines ==
  ASSUME Inv, Inv', RInv, pc \in startPCs, FailStart, Remember,
         UNCHANGED <<wgFile, op, cfg, deleted, stopErr, ctxDone>>
  PROVE  RInv' /\ TunnelStep
<1>1. /\ Returns /\ res' = "error"
      /\ killLocked /\ UNCHANGED <<owner, conf, mtu>>
  BY DEF FailStart, Return, deviceVars, startPCs
<1>2. seen' = Device' /\ read' = read /\ Recalled' /\ Foreseen'
  BY <1>1, ReturnSees
<1>3. TunnelStep
  BY <1>1, <1>2, KillDooms, FailedOutcome
<1> QED
  BY <1>2, <1>3 DEF RInv

\* wg.go:228-232.
LEMMA WaitTimeoutRefines ==
  ASSUME Inv, Inv', RInv, WaitTimeout, Remember
  PROVE  RInv' /\ TunnelStep
BY FailStartRefines DEF WaitTimeout, startPCs

\* wg.go:147-150: the device, new or not, gets the config.
LEMMA SetConfRefines ==
  ASSUME Inv, Inv', RInv, SetConf, Remember
  PROVE  RInv' /\ TunnelStep
<1>1. CASE FailStart
  BY <1>1, FailStartRefines DEF SetConf, startPCs
<1>2. CASE ~FailStart
  <2>1. /\ pc = "setconf" /\ pc' \in {"addr", "linkup"}
        /\ owner = Kernel \/ (owner \in Procs /\ phase[owner] = "serve")
        /\ conf' = cfg
        /\ UNCHANGED <<op, cfg, deleted, phase, owner, mtu>>
    BY <1>2 DEF SetConf
  <2>2. Recalled' /\ read' = read /\ ~Returns
    BY <2>1, CommandRecalls DEF startPCs
  <2>3. Device.dev # "absent" /\ Device'.dev = Device.dev /\ Device'.conf = cfg
    BY <2>1, ConstantsAssumption DEF Device
  <2>4. seen' = seen
    BY <2>2, <2>3 DEF Remember
  <2>5. Foreseen'
    BY <2>1, <2>3, <2>4 DEF RInv, Foreseen
  <2> QED
    BY <2>2, <2>5, QuietStep DEF RInv
<1> QED
  BY <1>1, <1>2

\* wg.go:151-156.
LEMMA AddrReplaceRefines ==
  ASSUME Inv, Inv', RInv, AddrReplace, Remember
  PROVE  RInv' /\ TunnelStep
<1>1. CASE FailStart
  BY <1>1, FailStartRefines DEF AddrReplace, startPCs
<1>2. CASE ~FailStart
  <2>1. /\ pc = "addr" /\ pc' = "linkup"
        /\ UNCHANGED <<op, cfg, deleted, phase, owner, conf, mtu>>
    BY <1>2 DEF AddrReplace
  <2>2. Recalled' /\ read' = read /\ ~Returns
    BY <2>1, CommandRecalls DEF startPCs
  <2>3. Device' = Device
    BY <2>1 DEF Device
  <2>4. seen' = seen
    BY <2>2, <2>3 DEF Remember
  <2>5. Foreseen'
    BY <2>1, <2>3, <2>4 DEF RInv, Foreseen
  <2> QED
    BY <2>2, <2>5, QuietStep DEF RInv
<1> QED
  BY <1>1, <1>2

\* wg.go:157-161: the device is up with the config, whatever the result is.
LEMMA LinkUpRefines ==
  ASSUME Inv, Inv', RInv, LinkUp, Remember
  PROVE  RInv' /\ TunnelStep
<1>1. CASE FailStart
  BY <1>1, FailStartRefines DEF LinkUp, startPCs
<1>2. CASE ~FailStart
  <2>1. /\ pc = "linkup" /\ owner # Absent /\ mtu' = effectiveMTU(cfg)
        /\ Return("ok")
        /\ UNCHANGED <<op, cfg, deleted, stopErr, phase, owner, conf>>
    BY <1>2 DEF LinkUp
  <2>2. Returns
    BY <2>1 DEF Return
  <2>3. seen' = Device' /\ read' = read /\ Recalled' /\ Foreseen'
    BY <2>2, ReturnSees
  <2>4. read = cfg /\ read \in Configs /\ read # NoConfig
    BY <2>1, ConstantsAssumption DEF RInv, Recalled, Inv, Control, startPCs
  <2>5. conf = cfg /\ (owner \in Procs => phase[owner] \in Alive)
    BY <2>1 DEF Inv, Configured, PastSetconf, Ownership
  <2>6. mtu' # 0
    BY <2>1, <2>4, ConstantsAssumption DEF effectiveMTU, DefaultWGMTU
  <2>7. seen'.dev = "up" /\ seen'.conf = read
    BY <2>1, <2>3, <2>4, <2>5, <2>6 DEF Device
  <2>8. CASE op = "start"
    <3>1. res' = "ok"
      BY <2>1, <2>8 DEF Return
    <3>2. Host!startWG(TRUE)
      BY <2>3, <2>4, <2>7 DEF Host!startWG, Host!KeepDevice
    <3> QED
      BY <2>2, <2>3, <2>8, <3>1, <3>2 DEF TunnelStep, RInv
  <2>9. CASE op = "restart"
    <3>1. Host!restartWG(TRUE) /\ Host!restartWG(FALSE)
      BY <2>3, <2>4, <2>7, EmptyTable
         DEF Host!restartWG, Host!NewDevice, Host!MayFail
    <3>2. Host!restartWG(res' = "ok")
      <4>1. CASE res' = "ok"
        BY <3>1, <4>1
      <4>2. CASE res' # "ok"
        BY <3>1, <4>2
      <4> QED
        BY <4>1, <4>2
    <3> QED
      BY <2>2, <2>3, <2>9, <3>2 DEF TunnelStep, RInv
  <2> QED
    BY <2>1, <2>8, <2>9 DEF Inv, Control, startPCs
<1> QED
  BY <1>1, <1>2

\* wg.go:168-171: the system does not see the device go before Stop returns.
LEMMA LinkDeleteRefines ==
  ASSUME Inv, Inv', RInv, LinkDelete, Remember
  PROVE  RInv' /\ TunnelStep
<1>1. /\ pc = "delete" /\ pc' = "kill"
      /\ UNCHANGED <<wgFile, op, cfg, phase>>
  BY DEF LinkDelete
<1>2. seen' = seen /\ read' = read /\ ~Returns
  BY <1>1 DEF Remember, RInv, Recalled
<1>3. Recalled'
  BY <1>1, <1>2 DEF RInv, Recalled
<1>4. deleted' = "error" => UNCHANGED <<owner, conf, mtu>>
  BY DEF LinkDelete, deviceVars
<1>5. deleted' = "error" => Device' = Device
  BY <1>1, <1>4 DEF Device
<1>6. Foreseen'
  BY <1>1, <1>2, <1>5 DEF RInv, Foreseen
<1> QED
  BY <1>2, <1>3, <1>6, QuietStep DEF RInv

\* wg.go:172-182, 274-278: Stop returns with no device, or with the one it could
\* not delete; Restart goes on from there.
LEMMA StopKillRefines ==
  ASSUME Inv, Inv', RInv, StopKill, Remember
  PROVE  RInv' /\ TunnelStep
<1>1. /\ pc = "kill" /\ killLocked
      /\ UNCHANGED <<wgFile, op, cfg, deleted, owner, conf, mtu>>
  BY DEF StopKill, deviceVars
<1>2. Device' = Device \/ Device' = Gone
  BY <1>1, KillDooms
<1>3. deleted # "error" => Device' = Gone
  BY <1>1 DEF Device, Inv, Ownership
<1>4. Device' \in {seen, Gone}
  BY <1>1, <1>2, <1>3 DEF RInv, Foreseen
<1>5. CASE op = "restart"
  <2>1. pc' = "read" /\ ~Returns
    BY <1>1, <1>5 DEF StopKill
  <2>2. read' = read /\ Recalled'
    BY <1>1, <2>1 DEF Remember, RInv, Recalled
  <2>3. seen' \in {seen, Device'}
    BY DEF Remember
  <2>4. Foreseen'
    <3>1. CASE seen' = seen
      BY <1>1, <1>4, <1>5, <2>1, <3>1 DEF RInv, Foreseen
    <3>2. CASE seen' = Device'
      BY <1>1, <1>4, <1>5, <2>1, <3>2 DEF RInv, Foreseen
    <3> QED
      BY <2>3, <3>1, <3>2
  <2> QED
    BY <2>1, <2>2, <2>4, QuietStep DEF RInv
<1>6. CASE op # "restart"
  <2>1. op = "stop"
    BY <1>1, <1>6 DEF Inv, Control
  <2>2. Returns /\ Return(IF StopFailed THEN "error" ELSE "ok")
    BY <1>1, <1>6 DEF StopKill, Return
  <2>3. seen' = Device' /\ read' = read /\ Recalled' /\ Foreseen'
    BY <2>2, ReturnSees
  <2>4. res' = "ok" => Device' = Gone
    BY <1>3, <1>6, <2>2 DEF Return, StopFailed
  <2>5. CASE Device' = Gone
    <3>1. seen'.dev = "absent" /\ seen'.conf = NoConfig
      BY <2>3, <2>5
    <3>2. Host!stopWG(TRUE) /\ Host!stopWG(FALSE)
      BY <2>3, <3>1, EmptyTable DEF Host!stopWG, Host!NewDevice
    <3>3. Host!stopWG(res' = "ok")
      <4>1. CASE res' = "ok"
        BY <3>2, <4>1
      <4>2. CASE res' # "ok"
        BY <3>2, <4>2
      <4> QED
        BY <4>1, <4>2
    <3> QED
      BY <2>1, <2>2, <2>3, <3>3 DEF TunnelStep, RInv
  <2>6. CASE Device' # Gone
    <3>1. seen' = seen /\ res' # "ok"
      BY <1>4, <2>3, <2>4, <2>6
    <3>2. Host!stopWG(FALSE)
      BY <2>3, <3>1 DEF Host!stopWG, Host!KeepDevice
    <3>3. Host!stopWG(res' = "ok")
      BY <3>1, <3>2
    <3> QED
      BY <2>1, <2>2, <2>3, <3>3 DEF TunnelStep, RInv
  <2> QED
    BY <2>5, <2>6
<1> QED
  BY <1>5, <1>6

\* RInv holds at first and every step of the manager is a step of the tunnel.
LEMMA RInitInv == RInit => RInv /\ Host!HostInit
<1> SUFFICES ASSUME RInit PROVE RInv /\ Host!HostInit
  OBVIOUS
<1>1. Device = Gone /\ seen = Gone /\ pc = "idle"
  BY DEF RInit, Init, Device
<1>2. read \in Configs \cup {NoConfig}
  BY DEF RInit, Init
<1>3. seen.dev = "absent" /\ seen.conf = NoConfig
  BY <1>1
<1>4. Recalled
  BY <1>1, <1>2 DEF RInit, Init, Recalled
<1>5. Foreseen
  BY <1>1 DEF Foreseen
<1>6. Host!HostInit
  BY <1>2, <1>3 DEF Host!HostInit, Host!Prefixes
<1> QED
  BY <1>4, <1>5, <1>6 DEF RInv

LEMMA RNextInv == Inv /\ Inv' /\ RInv /\ RNext => RInv' /\ TunnelStep
<1> SUFFICES ASSUME Inv, Inv', RInv, Next, Remember PROVE RInv' /\ TunnelStep
  BY DEF RNext
<1>1. ASSUME NEW o \in Ops, Begin(o) PROVE RInv' /\ TunnelStep
  BY <1>1, BeginRefines
<1>2. CASE ManagerStep
  BY <1>2, ReadConfigRefines, LinkShowRefines, LinkAddRefines, StartProcessRefines,
     StatSocketRefines, ReadyRefines, WaitTimeoutRefines, SetConfRefines, AddrReplaceRefines,
     LinkUpRefines, LinkDeleteRefines, StopKillRefines
     DEF ManagerStep
<1>3. ASSUME NEW p \in Procs, CreateTun(p) \/ Listen(p) \/ Exit(p) \/ Reap(p)
      PROVE  RInv' /\ TunnelStep
  BY <1>3, CreateTunRefines, ListenRefines, ExitRefines, ReapRefines
<1>4. ASSUME NEW p \in Procs, NEW d \in Procs, Detach(p, d) PROVE RInv' /\ TunnelStep
  BY <1>4, DetachRefines
<1>5. ASSUME NEW c \in Configs \cup {NoConfig}, WriteConfig(c)
      PROVE  RInv' /\ TunnelStep
  BY <1>5, WriteRefines
<1> QED
  BY <1>1, <1>2, <1>3, <1>4, <1>5 DEF Next

(* wg.go:125-199 against actions.go: every Start, Stop and Restart, whatever *)
(* fails or dies between its commands, has an outcome and a result that the  *)
(* one-step startWG, stopWG and restartWG of SupervisorActions allow, and    *)
(* the composed system may therefore be built on those.                      *)
THEOREM TunnelRefined == RSpec => Implements
<1>1. RInit => Inv /\ RInv /\ Host!HostInit
  BY InitInv, RInitInv DEF RInit
<1>2. Inv /\ RInv /\ [RNext]_rvars => (Inv /\ RInv)' /\ [TunnelStep]_rvars
  <2> SUFFICES ASSUME Inv, RInv, [RNext]_rvars
               PROVE  (Inv /\ RInv)' /\ [TunnelStep]_rvars
    OBVIOUS
  <2>1. CASE RNext
    BY <2>1, NextInv, RNextInv DEF RNext
  <2>2. CASE UNCHANGED rvars
    <3>1. UNCHANGED vars /\ seen' = seen /\ read' = read
      BY <2>2 DEF rvars
    <3>2. RInv'
      BY <3>1
         DEF vars, managerVars, hostVars, deviceVars, Device,
             RInv, Recalled, Foreseen
    <3> QED
      BY <2>2, <3>1, <3>2, StutterInv
  <2> QED
    BY <2>1, <2>2
<1> QED
  BY <1>1, <1>2, PTL DEF RSpec, Implements

============================================================================
