------------------------- MODULE BirdManagerProofs -------------------------
(***************************************************************************)
(* Proofs about BirdManager, for any number of daemons and of polls: its   *)
(* types, and that it implements the BIRD of SupervisorActions.            *)
(*                                                                         *)
(* The refinement rests on three facts.  One daemon at most has the socket,*)
(* so "the BIRD that answers" is well defined; the daemon a Start launched *)
(* is not told to stop before that Start returns; and it runs bird.conf as *)
(* it was at some moment of that Start.                                    *)
(***************************************************************************)
EXTENDS BirdManager, TLAPS

\* The operation that runs, and the daemon it launched.
Control ==
  /\ pc \in {"status", "launch", "poll", "wait"} => op = "start"
  /\ pc = "birdc" => op \in {"stop", "reload"}
  /\ pc \in {"status", "launch", "birdc"} => mine = NoDaemon
  /\ pc \in {"poll", "wait"} => mine \in Daemons
  /\ pc \in {"status", "launch"} => polls = 0
  /\ pc = "poll" => polls < MaxPolls

\* The daemon launched by the running Start has not been told to stop, and runs
\* the config as it was saved at the latest during that Start.
Launched ==
  pc \in {"poll", "wait"} =>
    /\ phase[mine] # "stopping"
    /\ phase[mine] \in {"read", "up"} => loaded[mine] \/ unsaved

\* One daemon at most has the socket.
OneAnswers ==
  \A d, e \in Daemons : phase[d] \in Answering /\ phase[e] \in Answering => d = e

Inv == TypeOK /\ Control /\ Launched /\ OneAnswers

USE DEF managerVars, Phases, Booting, Answering

\* No daemon runs at first.
LEMMA InitInv == Init => Inv
<1> SUFFICES ASSUME Init PROVE Inv
  OBVIOUS
<1>1. TypeOK
  <2>1. polls \in 0..MaxPolls
    BY BirdAssumption DEF Init
  <2>2. loaded \in [Daemons -> BOOLEAN] /\ unsaved \in BOOLEAN
    BY DEF Init
  <2> QED
    BY <2>1, <2>2 DEF Init, TypeOK
<1>2. Control /\ Launched /\ OneAnswers
  BY DEF Init, Control, Launched, OneAnswers
<1> QED
  BY <1>1, <1>2 DEF Inv

\* Inv is preserved by the manager, by BIRD and by a save.
LEMMA NextInv == Inv /\ [Next]_vars => Inv'
<1> SUFFICES ASSUME Inv, [Next]_vars PROVE Inv'
  OBVIOUS
<1> USE DEF Inv
<1>1. ASSUME NEW o \in {"start", "stop", "reload"}, Begin(o) PROVE Inv'
  <2>1. TypeOK'
    <3>1. polls' \in 0..MaxPolls
      BY <1>1, BirdAssumption DEF Begin
    <3>2. unsaved' \in BOOLEAN
      BY <1>1 DEF Begin
    <3> QED
      BY <1>1, <3>1, <3>2 DEF Begin, TypeOK
  <2>2. Control' /\ Launched' /\ OneAnswers'
    BY <1>1 DEF Begin, Control, Launched, OneAnswers
  <2> QED
    BY <2>1, <2>2
<1>2. CASE FirstStatus
  BY <1>2 DEF FirstStatus, Return, TypeOK, Control, Launched, OneAnswers
<1>3. CASE StartProcess
  <2>1. TypeOK'
    BY <1>3 DEF StartProcess, Return, TypeOK
  <2>2. Control'
    <3>1. polls' = polls /\ MaxPolls \in Nat \ {0}
      BY <1>3, BirdAssumption DEF StartProcess
    <3> QED
      BY <1>3, <3>1 DEF StartProcess, Return, Control, TypeOK
  <2>3. Launched' /\ OneAnswers'
    BY <1>3 DEF StartProcess, Return, Launched, OneAnswers, TypeOK
  <2> QED
    BY <2>1, <2>2, <2>3
<1>4. CASE Poll
  BY <1>4, BirdAssumption DEF Poll, Return, TypeOK, Control, Launched, OneAnswers
<1>5. CASE Wait
  BY <1>5 DEF Wait, Return, TypeOK, Control, Launched, OneAnswers
<1>6. CASE Birdc
  BY <1>6 DEF Birdc, Return, TypeOK, Control, Launched, OneAnswers
<1>7. ASSUME NEW d \in Daemons, ReadConfig(d) PROVE Inv'
  BY <1>7 DEF ReadConfig, TypeOK, Control, Launched, OneAnswers
<1>8. ASSUME NEW d \in Daemons, Listen(d) PROVE Inv'
  BY <1>8 DEF Listen, status, TypeOK, Control, Launched, OneAnswers
<1>9. ASSUME NEW d \in Daemons, Exit(d) PROVE Inv'
  BY <1>9 DEF Exit, TypeOK, Control, Launched, OneAnswers
<1>10. CASE Save
  BY <1>10 DEF Save, TypeOK, Control, Launched, OneAnswers
<1>11. CASE UNCHANGED vars
  BY <1>11 DEF vars, TypeOK, Control, Launched, OneAnswers
<1> QED
  BY <1>1, <1>2, <1>3, <1>4, <1>5, <1>6, <1>7, <1>8, <1>9, <1>10, <1>11 DEF Next, ManagerStep

----------------------------------------------------------------------------
(* The refinement *)

USE DEF Host!hostVars, Host!deviceVars, Host!birdVars

\* The BIRD that the composed system sees, by what the daemons in view do.
LEMMA BirdIs ==
  /\ Bird \in {"up", "stopping", "booting", "down"}
  /\ Bird = "up" <=> \E d \in Visible : phase[d] = "up"
  /\ Bird = "stopping" <=> /\ \A d \in Visible : phase[d] # "up"
                           /\ \E d \in Visible : phase[d] = "stopping"
  /\ Bird = "booting" <=> /\ \A d \in Visible : phase[d] \notin Answering
                          /\ \E d \in Visible : phase[d] \in Booting
  /\ Bird = "down" <=> \A d \in Visible : phase[d] \notin Answering \cup Booting
BY DEF Bird, BootingVisible

\* The truth values of the composed system's BIRD.
LEMMA Truths == /\ Spare \in BOOLEAN /\ Spare' \in BOOLEAN
                /\ Fresh \in BOOLEAN /\ Fresh' \in BOOLEAN
BY DEF Spare, Fresh

\* Nothing the composed system can see has changed.
LEMMA SameView ==
  ASSUME Visible' = Visible, \A d \in Visible :
           /\ phase'[d] = phase[d] \/ (phase[d] \in Booting /\ phase'[d] \in Booting)
           /\ phase[d] \in Answering => loaded'[d] = loaded[d],
         \A d \in Visible : (d = mine /\ unsaved)' <=> d = mine /\ unsaved
  PROVE  UNCHANGED Host!hostVars
<1>1. Bird' = Bird
  BY DEF Bird, BootingVisible
<1>2. BootingVisible' = BootingVisible
  BY DEF BootingVisible
<1>3. Spare' = Spare
  BY <1>1, <1>2 DEF Spare
<1>4. Fresh' = Fresh
  BY DEF Fresh
<1> QED
  BY <1>1, <1>3, <1>4

\* A save made during the last operation is ordered before this one.
LEMMA BeginStep ==
  ASSUME Inv, NEW o \in {"start", "stop", "reload"}, Begin(o)
  PROVE  BirdStep
<1>1. Visible = Daemons /\ Visible' = Daemons
  BY BirdAssumption DEF Visible, Begin
<1>2. Bird' = Bird /\ BootingVisible' = BootingVisible
  BY <1>1 DEF Begin, Bird, BootingVisible
<1>3. Spare' = Spare
  BY <1>2 DEF Spare
<1>4. Fresh' => Fresh
  BY <1>1, BirdAssumption DEF Begin, Fresh
<1>5. UNCHANGED Host!hostVars \/ Host!SaveApp(NoDaemon)
  BY <1>2, <1>3, <1>4, Truths DEF Host!SaveApp
<1> QED
  BY <1>5 DEF BirdStep, Begin

\* postBIRDConfig: what answers runs an old config from now on.
LEMMA SaveStep == ASSUME Inv, Save PROVE BirdStep
<1>1. Visible' = Visible /\ phase' = phase
  BY DEF Save, Visible
<1>2. Bird' = Bird /\ BootingVisible' = BootingVisible
  BY <1>1 DEF Bird, BootingVisible
<1>3. Spare' = Spare
  BY <1>2 DEF Spare
<1>4. ~Fresh'
  BY <1>1 DEF Save, Fresh, Visible, Inv, TypeOK
<1>5. UNCHANGED Host!hostVars \/ Host!SaveApp(NoDaemon)
  BY <1>2, <1>3, <1>4, Truths DEF Host!SaveApp
<1> QED
  BY <1>5 DEF BirdStep, Save

\* Reading its config changes nothing about a daemon that boots.
LEMMA ReadConfigStep == ASSUME Inv, NEW d \in Daemons, ReadConfig(d) PROVE BirdStep
<1>1. UNCHANGED Host!hostVars
  BY SameView DEF ReadConfig, Visible, Inv, TypeOK
<1> QED
  BY <1>1 DEF BirdStep, ReadConfig

\* A daemon in view that takes the socket is the BIRD that boots, come up.
LEMMA ListenStep == ASSUME Inv, NEW d \in Daemons, Listen(d) PROVE BirdStep
<1>1. Visible' = Visible /\ pc' = pc /\ loaded' = loaded
  BY DEF Listen, Visible
<1>2. CASE d \notin Visible
  <2>1. UNCHANGED Host!hostVars
    BY <1>1, <1>2, SameView DEF Listen, Inv, TypeOK
  <2> QED
    BY <1>1, <2>1 DEF BirdStep
<1>3. CASE d \in Visible
  <2>1. /\ phase[d] = "read" /\ phase'[d] = "up"
        /\ \A e \in Visible \ {d} : phase'[e] = phase[e]
        /\ \A e \in Visible : phase[e] \notin Answering
    BY DEF Listen, status, Visible, Inv, TypeOK
  <2>2. Bird = "booting" /\ Bird' = "up"
    BY <1>1, <1>3, <2>1 DEF Bird, BootingVisible
  <2>3. BootingVisible' = BootingVisible \ {d} /\ d \in BootingVisible
    BY <1>1, <1>3, <2>1 DEF BootingVisible
  <2>4. Spare' <=> Spare
    BY <2>2, <2>3 DEF Spare
  <2>5. Spare' = Spare
    BY <2>4, Truths
  <2>6. Host!BirdReady
    BY <2>2, <2>5, Truths DEF Host!BirdReady
  <2> QED
    BY <1>1, <2>6 DEF BirdStep
<1> QED
  BY <1>2, <1>3

\* A daemon in view that ends: the one that answers, the one that boots in its
\* place, or a spare one.
LEMMA ExitStep == ASSUME Inv, NEW d \in Daemons, Exit(d) PROVE BirdStep
<1>1. Visible' = Visible /\ pc' = pc /\ mine' = mine /\ unsaved' = unsaved
  BY DEF Exit, Visible
<1>2. CASE d \notin Visible
  <2>1. UNCHANGED Host!hostVars
    <3>1. \A e \in Visible : phase'[e] = phase[e] /\ loaded'[e] = loaded[e]
      BY <1>2 DEF Exit, Visible, Inv, TypeOK
    <3> QED
      BY <1>1, <3>1, SameView
  <2> QED
    BY <1>1, <2>1 DEF BirdStep
<1>3. CASE d \in Visible
  <2>1. /\ phase[d] # "gone" /\ phase'[d] = "gone"
        /\ \A e \in Visible \ {d} : phase'[e] = phase[e] /\ loaded'[e] = loaded[e]
        /\ BootingVisible' = BootingVisible \ {d}
    BY <1>1 DEF Exit, Visible, BootingVisible, Inv, TypeOK
  <2>2. CASE phase[d] \in Answering
    <3>1. \A e \in Visible \ {d} : phase[e] \notin Answering
      BY <2>2 DEF Visible, Inv, OneAnswers
    <3>2. /\ Bird = phase[d] /\ ~Fresh'
          /\ Bird' = IF BootingVisible # {} THEN "booting" ELSE "down"
          /\ BootingVisible' = BootingVisible
      BY <1>1, <1>3, <2>1, <2>2, <3>1 DEF Bird, Fresh, BootingVisible
    <3>3. /\ Spare = (BootingVisible # {})
          /\ BootingVisible = {} => Spare' = Spare
      BY <2>2, <3>2 DEF Spare
    <3>4. Host!BirdEnds
      BY <3>2, <3>3, Truths DEF Host!BirdEnds
    <3> QED
      BY <1>1, <2>2, <3>2, <3>4 DEF BirdStep, Host!BirdCrashes, Host!BirdExits
  <2>3. CASE phase[d] \in Booting /\ Bird = "booting"
    <3>1. \A e \in Visible : phase[e] \notin Answering
      BY <2>3, BirdIs
    <3>2. /\ ~Fresh' /\ d \in BootingVisible
          /\ Bird' = IF BootingVisible \ {d} # {} THEN "booting" ELSE "down"
      BY <1>1, <1>3, <2>1, <2>3, <3>1 DEF Bird, Fresh, BootingVisible
    <3>3. /\ Spare <=> BootingVisible \ {d} # {}
          /\ ~Spare => ~Spare'
      BY <2>1, <2>3, <3>2 DEF Spare
    <3>4. Host!BirdEnds
      BY <3>2, <3>3, Truths DEF Host!BirdEnds
    <3> QED
      BY <1>1, <2>3, <3>4 DEF BirdStep, Host!BirdCrashes
  <2>4. CASE phase[d] \in Booting /\ Bird # "booting"
    <3>1. Bird \in {"up", "stopping"} /\ Bird' = Bird
      BY <1>1, <1>3, <2>1, <2>4 DEF Bird, BootingVisible
    <3>2. Fresh' = Fresh
      BY <1>1, <2>1, <2>4 DEF Fresh
    <3>3. Spare
      BY <1>3, <2>4, <3>1 DEF Spare, BootingVisible
    <3> QED
      BY <1>1, <3>1, <3>2, <3>3, Truths DEF BirdStep, Host!SpareExits
  <2> QED
    BY <2>1, <2>2, <2>3, <2>4 DEF Inv, TypeOK, Visible
<1> QED
  BY <1>2, <1>3

\* Returning brings the daemon of a Start into view.
LEMMA StartReturns ==
  ASSUME Inv, pc # "idle", pc' = "idle", op = "start",
         UNCHANGED <<op, mine, phase, loaded, unsaved>>,
         res' \in {"ok", "error"},
         res' = "ok" => status
  PROVE  Host!startBIRD(res' = "ok")
<1> DEFINE ok == res' = "ok"
<1>0. pc \in {"status", "launch", "poll", "wait"} /\ Visible' = Daemons /\ Visible = Daemons \ {mine}
  BY DEF Visible, Inv, Control, TypeOK
<1>1. CASE mine \notin Daemons
  <2>1. Visible' = Visible
    BY <1>0, <1>1
  <2>2. Bird' = Bird /\ BootingVisible' = BootingVisible
    BY <2>1 DEF Bird, BootingVisible
  <2>3. Spare' = Spare /\ Fresh' = Fresh
    BY <2>1, <2>2 DEF Spare, Fresh
  <2>4. ok => Bird \in {"up", "stopping"}
    BY <1>0, <1>1 DEF status, Bird
  <2> QED
    BY <2>2, <2>3, <2>4 DEF Host!startBIRD, Host!Answers
<1>2. CASE mine \in Daemons
  <2>0. /\ pc \in {"poll", "wait"} /\ phase[mine] \in {"gone", "boot", "read", "up"}
        /\ phase[mine] \in {"read", "up"} => loaded[mine] \/ unsaved
    BY <1>0, <1>2, BirdAssumption DEF Inv, Control, Launched, TypeOK
  <2>1. BootingVisible' = IF phase[mine] \in Booting THEN BootingVisible \cup {mine}
                          ELSE BootingVisible
    BY <1>0, <1>2 DEF BootingVisible
  <2>2. mine \notin BootingVisible
    BY <1>0 DEF BootingVisible
  <2>3. CASE Bird \in {"up", "stopping"}
    <3>1. PICK d \in Visible : phase[d] \in Answering
      BY <2>3, BirdIs
    <3>2. phase[mine] \notin Answering
      BY <1>0, <1>2, <3>1 DEF Inv, OneAnswers
    <3>3. Bird' = Bird
      BY <1>0, <1>2, <2>3, <3>2 DEF Bird
    <3>4. Fresh' <=> Fresh
      BY <1>0, <1>2, <3>2 DEF Fresh
    <3>5. Spare' <=> Spare \/ phase[mine] \in Booting
      BY <2>1, <2>3, <3>3 DEF Spare
    <3> QED
      BY <2>3, <3>3, <3>4, <3>5, Truths DEF Host!startBIRD, Host!Answers
  <2>4. CASE Bird \notin {"up", "stopping"} /\ phase[mine] = "up"
    <3>1. Bird \in {"booting", "down"} /\ Bird' = "up"
      BY <1>0, <1>2, <2>4, BirdIs DEF Bird
    <3>2. Fresh'
      BY <1>0, <1>2, <2>0, <2>4 DEF Fresh
    <3>3. Bird = "down" => ~Spare'
      BY <2>1, <2>4, <3>1 DEF Spare, Bird
    <3> QED
      BY <2>4, <3>1, <3>2, <3>3, Truths DEF Host!startBIRD, Host!Answers
  <2>5. CASE Bird \notin {"up", "stopping"} /\ phase[mine] # "up"
    <3>1. /\ \A d \in Visible : phase[d] \notin Answering
          /\ \A d \in Daemons : phase[d] \notin Answering
          /\ Bird \in {"booting", "down"}
      BY <1>0, <1>2, <2>0, <2>5, BirdIs
    <3>2. ~ok
      BY <3>1 DEF status
    <3>3. ~Fresh /\ ~Fresh'
      BY <1>0, <3>1 DEF Fresh
    <3>4. CASE phase[mine] \notin Booting
      <4>1. Bird' = Bird /\ BootingVisible' = BootingVisible
        BY <1>0, <2>1, <3>1, <3>4 DEF Bird
      <4>2. Spare' = Spare
        BY <4>1 DEF Spare
      <4> QED
        BY <3>2, <3>3, <4>1, <4>2, Truths DEF Host!startBIRD
    <3>5. CASE phase[mine] \in Booting
      <4>1. Bird' = "booting"
        BY <1>0, <2>1, <3>1, <3>5 DEF Bird
      <4>2. Bird = "down" => ~Spare'
        BY <2>1, <3>1, <3>5, <4>1 DEF Spare, Bird
      <4> QED
        BY <3>1, <3>2, <3>3, <4>1, <4>2, Truths DEF Host!startBIRD, Host!Answers
    <3> QED
      BY <3>4, <3>5
  <2> QED
    BY <2>3, <2>4, <2>5
<1> QED
  BY <1>1, <1>2

\* bird.go:35-56: birdc reaches the one daemon that answers, or fails.
LEMMA BirdcStep == ASSUME Inv, Birdc PROVE BirdStep
<1>0. /\ pc = "birdc" /\ pc' = "idle" /\ op \in {"stop", "reload"} /\ mine = NoDaemon /\ mine' = mine
      /\ unsaved' = unsaved /\ Visible = Daemons /\ Visible' = Daemons /\ res' \in {"ok", "error"}
  BY BirdAssumption DEF Birdc, Return, Visible, Inv, Control
<1>1. CASE res' = "error" /\ UNCHANGED <<phase, loaded>>
  <2>1. UNCHANGED Host!hostVars
    BY <1>0, <1>1, SameView
  <2> QED
    BY <1>0, <1>1, <2>1 DEF BirdStep, Host!stopBIRD, Host!reloadBIRD, Host!MayFail
<1>2. ASSUME NEW d \in Daemons, phase[d] \in Answering, res' = "ok",
             IF op = "stop"
             THEN phase' = [phase EXCEPT ![d] = "stopping"] /\ UNCHANGED loaded
             ELSE loaded' = [loaded EXCEPT ![d] = @ \/ phase[d] = "up"] /\ UNCHANGED phase
      PROVE  BirdStep
  <2>1. \A e \in Daemons \ {d} : phase[e] \notin Answering
    BY <1>2 DEF Inv, OneAnswers
  <2>2. Bird = phase[d]
    BY <1>0, <1>2, <2>1 DEF Bird
  <2>3. Fresh <=> loaded[d]
    BY <1>0, <1>2, <2>1, BirdAssumption DEF Fresh
  <2>4. CASE op = "stop"
    <3>1. phase'[d] = "stopping" /\ (\A e \in Daemons \ {d} : phase'[e] = phase[e]) /\ loaded' = loaded
      BY <1>2, <2>4 DEF Inv, TypeOK
    <3>2. Bird' = "stopping" /\ BootingVisible' = BootingVisible
      BY <1>0, <1>2, <2>1, <3>1 DEF Bird, BootingVisible
    <3>3. Spare' = Spare
      BY <1>2, <2>2, <3>2 DEF Spare
    <3>4. Fresh' <=> Fresh
      BY <1>0, <1>2, <2>1, <2>3, <3>1, BirdAssumption DEF Fresh
    <3>5. Host!stopBIRD(TRUE)
      BY <1>2, <2>2, <3>2, <3>3, <3>4, Truths DEF Host!stopBIRD, Host!Answers
    <3> QED
      BY <1>0, <1>2, <2>4, <3>5 DEF BirdStep
  <2>5. CASE op = "reload"
    <3>1. phase' = phase /\ loaded'[d] = (loaded[d] \/ phase[d] = "up")
      BY <1>2, <2>5 DEF Inv, TypeOK
    <3>2. Bird' = Bird /\ BootingVisible' = BootingVisible
      BY <1>0, <3>1 DEF Bird, BootingVisible
    <3>3. Spare' = Spare
      BY <3>2 DEF Spare
    <3>4. Fresh' <=> loaded[d] \/ phase[d] = "up"
      BY <1>0, <1>2, <2>1, <3>1, BirdAssumption DEF Fresh
    <3>5. Host!reloadBIRD(TRUE)
      BY <1>2, <2>2, <2>3, <3>2, <3>3, <3>4, Truths DEF Host!reloadBIRD, Host!Answers
    <3> QED
      BY <1>0, <1>2, <2>5, <3>5 DEF BirdStep
  <2> QED
    BY <1>0, <2>4, <2>5
<1> QED
  BY <1>1, <1>2 DEF Birdc, Return

\* bird.go:58-96: wherever a Start returns, it has been a step of startBIRD.
LEMMA StartReturnStep ==
  ASSUME Inv, pc \in {"status", "launch", "poll", "wait"}, pc' = "idle",
         UNCHANGED <<op, mine, phase, loaded, unsaved>>,
         res' \in {"ok", "error"}, res' = "ok" => status
  PROVE  BirdStep
<1>1. op = "start"
  BY DEF Inv, Control
<1>2. Host!startBIRD(res' = "ok")
  BY <1>1, StartReturns
<1> QED
  BY <1>1, <1>2 DEF BirdStep

\* ... and until then it shows nothing.
LEMMA StartGoesOn ==
  ASSUME Inv, pc \in {"status", "poll", "wait"}, pc' \in {"launch", "wait", "poll"},
         UNCHANGED <<op, mine, phase, loaded, unsaved>>
  PROVE  BirdStep
<1>1. UNCHANGED Host!hostVars
  <2>1. Visible' = Visible
    BY DEF Visible
  <2> QED
    BY <2>1, SameView
<1> QED
  BY <1>1 DEF BirdStep

\* A daemon that is launched is out of view until the Start returns.
LEMMA StartProcessStep == ASSUME Inv, StartProcess PROVE BirdStep
<1>1. CASE Return("error") /\ UNCHANGED <<phase, mine>>
  BY <1>1, StartReturnStep DEF StartProcess, Return
<1>2. ASSUME NEW d \in Daemons, phase[d] = "gone", phase' = [phase EXCEPT ![d] = "boot"],
             mine' = d, pc' = "poll"
      PROVE  BirdStep
  <2>1. /\ pc = "launch" /\ mine = NoDaemon /\ UNCHANGED <<loaded, unsaved>>
        /\ Visible = Daemons /\ Visible' = Daemons \ {d}
        /\ \A e \in Visible' : phase'[e] = phase[e]
    BY <1>2, BirdAssumption DEF StartProcess, Visible, Inv, Control, TypeOK
  <2>2. Bird' = Bird
    BY <1>2, <2>1 DEF Bird, BootingVisible
  <2>3. BootingVisible' = BootingVisible
    BY <1>2, <2>1 DEF BootingVisible
  <2>4. Spare' = Spare
    BY <2>2, <2>3 DEF Spare
  <2>5. Fresh' <=> Fresh
    BY <1>2, <2>1, BirdAssumption DEF Fresh
  <2>6. UNCHANGED Host!hostVars
    BY <2>2, <2>4, <2>5, Truths
  <2> QED
    BY <1>2, <2>6 DEF BirdStep
<1> QED
  BY <1>1, <1>2 DEF StartProcess

\* The invariant holds throughout every behaviour.
THEOREM Invariance == Spec => []Inv
BY InitInv, NextInv, PTL DEF Spec

\* Types, in particular that no Start polls more than MaxPolls times.
THEOREM TypeCorrect == Spec => []TypeOK
BY Invariance, PTL DEF Inv

\* bird.go:35-96: with any number of daemons left behind by earlier Starts, and
\* with crashes and saves at any moment, every operation amounts to one step of
\* startBIRD, stopBIRD or reloadBIRD with the result it reported.
THEOREM BirdRefined == Spec => ImplementsBird
<1>1. Init => Host!HostInit
  <2> SUFFICES ASSUME Init PROVE Host!HostInit
    OBVIOUS
  <2>1. Bird = "down" /\ BootingVisible = {}
    BY DEF Init, Bird, BootingVisible, Visible
  <2>2. Spare = FALSE /\ Fresh = FALSE
    <3>1. ~Spare
      BY <2>1 DEF Spare
    <3>2. ~Fresh
      BY DEF Init, Fresh, Visible
    <3> QED
      BY <3>1, <3>2, Truths
  <2>3. [p \in {} |-> "none"] = [p \in Host!Prefixes |-> "none"]
    BY DEF Host!Prefixes
  <2> QED
    BY <2>1, <2>2, <2>3 DEF Host!HostInit
<1>2. Inv /\ [Next]_vars => [BirdStep]_vars
  <2> SUFFICES ASSUME Inv, Next PROVE BirdStep
    OBVIOUS
  <2>1. CASE FirstStatus
    BY <2>1, StartReturnStep, StartGoesOn DEF FirstStatus, Return
  <2>2. CASE Poll
    BY <2>2, StartReturnStep, StartGoesOn DEF Poll, Return
  <2>3. CASE Wait
    BY <2>3, StartReturnStep, StartGoesOn DEF Wait, Return
  <2> QED
    BY <2>1, <2>2, <2>3, BeginStep, StartProcessStep, BirdcStep, ReadConfigStep, ListenStep,
       ExitStep, SaveStep
       DEF Next, ManagerStep
<1> QED
  BY <1>1, <1>2, Invariance, PTL DEF Spec, ImplementsBird
=============================================================================
