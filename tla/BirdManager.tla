----------------------------- MODULE BirdManager -----------------------------
(***************************************************************************)
(* BIRDProcessManager and the birdc actions (internal/supervisor/bird.go). *)
(*                                                                         *)
(* Start asks the daemon for its status, launches one if none answers and  *)
(* polls for an answer; Stop and Reload are one birdc command each.  They  *)
(* run one at a time (ActionLock).  m.process is written and never read:   *)
(* a daemon that is late is neither killed nor known to a later Start.     *)
(* BIRD itself reads its config while it boots and gives up when another   *)
(* BIRD answers on the socket.                                             *)
(*                                                                         *)
(* The module also shows that this implements the BIRD of                  *)
(* SupervisorActions, on which the composed system is built.               *)
(***************************************************************************)
EXTENDS Naturals

CONSTANTS
  Daemons,      \* identities of bird processes
  NoDaemon,
  MaxPolls      \* polls of a Start, 20 in the code

ASSUME BirdAssumption == NoDaemon \notin Daemons /\ MaxPolls \in Nat \ {0}

VARIABLES
  op,        \* operation being run, or the last one
  pc,        \* its next step, "idle" when none runs
  polls,     \* polls it has made
  res,       \* result of the last operation
  mine,      \* daemon that the running (or last) operation launched
  phase,     \* life cycle of each daemon
  loaded,    \* it runs the contents of bird.conf
  unsaved    \* history: bird.conf was saved during the running (or last) operation

managerVars == <<op, pc, polls, res, mine>>
vars == <<managerVars, phase, loaded, unsaved>>

\* "boot": launched; "read": has read its config; "up": answers birdc;
\* "stopping": shuts its protocols down, and still answers.
Phases    == {"gone", "boot", "read", "up", "stopping"}
Booting   == {"boot", "read"}
Answering == {"up", "stopping"}

TypeOK ==
  /\ op \in {"none", "start", "stop", "reload"}
  /\ pc \in {"idle", "status", "launch", "poll", "wait", "birdc"}
  /\ polls \in 0..MaxPolls
  /\ res \in {"none", "ok", "error"}
  /\ mine \in Daemons \cup {NoDaemon}
  /\ phase \in [Daemons -> Phases]
  /\ loaded \in [Daemons -> BOOLEAN]
  /\ unsaved \in BOOLEAN

Init ==
  /\ op = "none" /\ pc = "idle" /\ polls = 0 /\ res = "none"
  /\ mine = NoDaemon
  /\ phase = [d \in Daemons |-> "gone"]
  /\ loaded = [d \in Daemons |-> FALSE]
  /\ unsaved = FALSE

----------------------------------------------------------------------------
(* The manager *)

Return(r) == pc' = "idle" /\ res' = r

Begin(o) ==
  /\ pc = "idle"
  /\ op' = o /\ pc' = IF o = "start" THEN "status" ELSE "birdc"
  /\ polls' = 0 /\ res' = "none" /\ mine' = NoDaemon /\ unsaved' = FALSE
  /\ UNCHANGED <<phase, loaded>>

\* birdc gets an answer; it may also fail or be cut off by its context.
status == \E d \in Daemons : phase[d] \in Answering

FirstStatus ==
  /\ pc = "status"
  /\ \/ status /\ Return("ok")
     \/ pc' = "launch" /\ UNCHANGED res
  /\ UNCHANGED <<op, polls, mine, phase, loaded, unsaved>>

StartProcess ==
  /\ pc = "launch"
  /\ \/ /\ \E d \in Daemons : /\ phase[d] = "gone"
                              /\ phase' = [phase EXCEPT ![d] = "boot"]
                              /\ mine' = d
        /\ pc' = "poll"
        /\ UNCHANGED res
     \/ Return("error") /\ UNCHANGED <<phase, mine>>
  /\ UNCHANGED <<op, polls, loaded, unsaved>>

\* Mutant of Poll: a daemon that was launched counts as started.
PollAssumesUp ==
  /\ pc = "poll"
  /\ Return("ok")
  /\ UNCHANGED <<op, polls, mine, phase, loaded, unsaved>>

Poll ==
  /\ pc = "poll"
  /\ \/ status /\ Return("ok") /\ UNCHANGED polls
     \/ pc' = "wait" /\ polls' = polls + 1 /\ UNCHANGED res
  /\ UNCHANGED <<op, mine, phase, loaded, unsaved>>

\* Mutant of Wait: there is no limit to the polls, nor a deadline.
WaitForever ==
  /\ pc = "wait"
  /\ pc' = "poll" /\ polls' = 0 /\ UNCHANGED res
  /\ UNCHANGED <<op, mine, phase, loaded, unsaved>>

\* Mutant of Wait: one poll more.
WaitOneMore ==
  /\ pc = "wait"
  /\ \/ polls <= MaxPolls /\ pc' = "poll" /\ UNCHANGED res
     \/ Return("error")
  /\ UNCHANGED <<op, polls, mine, phase, loaded, unsaved>>

\* 100 ms pass, or ctx is done, or that was the last poll.
Wait ==
  /\ pc = "wait"
  /\ \/ polls < MaxPolls /\ pc' = "poll" /\ UNCHANGED res
     \/ Return("error")
  /\ UNCHANGED <<op, polls, mine, phase, loaded, unsaved>>

\* `birdc down`, or `birdc configure`, which a BIRD that shuts down ignores
Birdc ==
  /\ pc = "birdc"
  /\ \/ \E d \in Daemons :
          /\ phase[d] \in Answering
          /\ Return("ok")
          /\ IF op = "stop"
             THEN phase' = [phase EXCEPT ![d] = "stopping"] /\ UNCHANGED loaded
             ELSE loaded' = [loaded EXCEPT ![d] = @ \/ phase[d] = "up"] /\ UNCHANGED phase
     \/ Return("error") /\ UNCHANGED <<phase, loaded>>
  /\ UNCHANGED <<op, polls, mine, unsaved>>

----------------------------------------------------------------------------
(* BIRD, and the web process that saves bird.conf *)

ReadConfig(d) ==
  /\ phase[d] = "boot"
  /\ phase' = [phase EXCEPT ![d] = "read"]
  /\ loaded' = [loaded EXCEPT ![d] = TRUE]
  /\ UNCHANGED <<managerVars, unsaved>>

Listen(d) ==
  /\ phase[d] = "read" /\ ~status
  /\ phase' = [phase EXCEPT ![d] = "up"]
  /\ UNCHANGED <<managerVars, loaded, unsaved>>

\* A crash, a config it cannot parse, another BIRD, or the end of `birdc down`.
Exit(d) ==
  /\ phase[d] # "gone"
  /\ phase' = [phase EXCEPT ![d] = "gone"]
  /\ loaded' = [loaded EXCEPT ![d] = FALSE]
  /\ UNCHANGED <<managerVars, unsaved>>

\* postBIRDConfig
Save ==
  /\ loaded' = [d \in Daemons |-> FALSE]
  /\ unsaved' = (pc # "idle")
  /\ UNCHANGED <<managerVars, phase>>

ManagerStep == FirstStatus \/ StartProcess \/ Poll \/ Wait \/ Birdc

Next ==
  \/ \E o \in {"start", "stop", "reload"} : Begin(o)
  \/ ManagerStep
  \/ \E d \in Daemons : ReadConfig(d) \/ Listen(d) \/ Exit(d)
  \/ Save

\* Every command returns or is cut off by its context, and every wait ends.
Fairness == WF_vars(ManagerStep)

Spec == Init /\ [][Next]_vars
FairSpec == Spec /\ Fairness

----------------------------------------------------------------------------
(* The BIRD of SupervisorActions *)

\* The daemon that a running Start has launched shows when the Start returns.
Visible == IF pc = "idle" THEN Daemons ELSE Daemons \ {mine}

BootingVisible == {d \in Visible : phase[d] \in Booting}

Bird ==
  IF \E d \in Visible : phase[d] = "up" THEN "up"
  ELSE IF \E d \in Visible : phase[d] = "stopping" THEN "stopping"
  ELSE IF BootingVisible # {} THEN "booting" ELSE "down"

\* Another one boots besides the one that Bird is.
Spare ==
  IF Bird = "booting" THEN \E d, e \in BootingVisible : d # e ELSE BootingVisible # {}

\* A save during the Start that launched the daemon is ordered after that Start.
Fresh ==
  \E d \in Visible : phase[d] \in Answering /\ (loaded[d] \/ (d = mine /\ unsaved))

Host == INSTANCE SupervisorActions WITH
  WgConfigs <- {}, AppConfigs <- {}, NoConfig <- NoDaemon, Hosts <- {}, Nets <- {},
  EndpointsOf <- << >>, PinnedOf <- << >>, AdvertisedOf <- << >>,
  Faulty <- {"bird.start", "bird.stop", "bird.reload"},
  wgFile <- NoDaemon, appFile <- NoDaemon, dev <- "absent", wconf <- NoDaemon,
  table <- [p \in {} |-> "none"], routed <- << >>, bird <- Bird, spare <- Spare, fresh <- Fresh

BirdStep ==
  IF pc # "idle" /\ pc' = "idle"
  THEN LET ok == res' = "ok"
       IN  CASE op = "start"  -> Host!startBIRD(ok)
             [] op = "stop"   -> Host!stopBIRD(ok)
             [] op = "reload" -> Host!reloadBIRD(ok)
  ELSE \/ UNCHANGED Host!hostVars
       \/ Host!BirdReady \/ Host!BirdCrashes \/ Host!BirdExits \/ Host!SpareExits
       \/ Host!SaveApp(NoDaemon)

\* bird.go:35-96 against the BIRD that the composed system is built on: every
\* operation, with the daemons it leaves behind, amounts to one step of
\* startBIRD, stopBIRD or reloadBIRD with the result it reported, taken when it
\* returns; otherwise BIRD only boots, crashes or exits by itself.
ImplementsBird == Host!HostInit /\ [][BirdStep]_vars

\* bird.go:80-95: bird.start returns, even if BIRD never answers.
OperationReturns == (pc # "idle") ~> (pc = "idle")
==============================================================================
