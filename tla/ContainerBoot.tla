---------------------------- MODULE ContainerBoot ----------------------------
(***************************************************************************)
(* Start of the container: docker-entrypoint.sh launches the supervisor,   *)
(* looks for its socket a bounded number of times and becomes the web      *)
(* process whatever it found; supervisor.Server.Serve replaces the socket  *)
(* file and opens it to the app user; runServe loads app.yaml and, if told *)
(* to, starts the routing stack through the socket, once.                  *)
(*                                                                         *)
(* The container stops at any moment and is started again by `docker run   *)
(* --restart unless-stopped` or by the user; its file system survives, so  *)
(* the socket file of the last supervisor may still be there.  Nothing     *)
(* starts a supervisor again that died alone.                              *)
(***************************************************************************)
EXTENDS Naturals

CONSTANTS
  Polls,      \* times the script looks for the socket
  AutoSteps   \* actions of orchestrator.Routing.Start

ASSUME BootAssumption == Polls \in Nat \ {0} /\ AutoSteps \in Nat \ {0}

VARIABLES
  pid1,     \* process 1: "off", the "script", the web process while it
            \* is "loading", or "serving"
  looks,    \* times the script has looked
  sup,      \* supervisor: "off", "boot", "bound" (listening, mode 0755),
            \* "open" (mode 0660), or "dead"
  sock,     \* socket file: "none", of the "live" supervisor or "stale"
  settings, \* app.yaml: "bad", or Runtime.AutoStart "off" or "on"
  ready,    \* wg0.conf and bird.conf exist
  auto,     \* auto-start: "none", "dial", "wait", "ok" or "failed"
  left,     \* actions that auto-start has still to call
  fault     \* history: the supervisor died or an action failed in this boot

vars == <<pid1, looks, sup, sock, settings, ready, auto, left, fault>>

disk  == <<settings, ready>>
autoV == <<auto, left>>

\* A container that has never run, with or without saved files.
Init ==
  /\ pid1 = "off" /\ looks = 0
  /\ sup = "off" /\ sock = "none"
  /\ settings \in {"off", "on"} /\ ready \in BOOLEAN
  /\ auto = "none" /\ left = 0
  /\ fault = FALSE

----------------------------------------------------------------------------
(* docker-entrypoint.sh *)

Boot ==
  /\ pid1 = "off"
  /\ pid1' = "script" /\ sup' = "boot"
  /\ looks' = 0 /\ fault' = FALSE
  /\ UNCHANGED <<sock, disk, autoV>>

\* Mutant of Poll: the script waits for the socket as long as it takes.
PollUntilFound ==
  /\ pid1 = "script"
  /\ sock # "none" /\ pid1' = "loading"
  /\ UNCHANGED <<looks, sup, sock, disk, autoV, fault>>

\* `[ -S ]` is true of a stale socket; after the last look the script goes on.
Poll ==
  /\ pid1 = "script"
  /\ \/ sock # "none" /\ pid1' = "loading" /\ UNCHANGED looks
     \/ sock = "none" /\ looks < Polls /\ looks' = looks + 1 /\ UNCHANGED pid1
     \/ sock = "none" /\ looks = Polls /\ pid1' = "loading" /\ UNCHANGED looks
  /\ UNCHANGED <<sup, sock, disk, autoV, fault>>

\* The trap ends the supervisor, which unlinks the socket it had bound, and
\* the script goes on where it was.
cleanup ==
  /\ pid1 = "script" /\ sup \in {"boot", "bound", "open"}
  /\ sup' = "dead" /\ fault' = TRUE
  /\ IF sup = "boot" THEN sock' \in {sock, "none"} ELSE sock' = "none"
  /\ UNCHANGED <<pid1, looks, disk, autoV>>

\* Process 1 ended, of itself or by `docker stop`, and the rest with it.
Halt ==
  /\ pid1' = "off" /\ sup' = "off"
  /\ sock' = IF sock = "live" THEN "stale" ELSE sock
  /\ auto' = "none" /\ left' = 0 /\ looks' = 0 /\ fault' = FALSE

Down == pid1 # "off" /\ Halt /\ UNCHANGED disk

----------------------------------------------------------------------------
(* supervisor.Server.Serve *)

\* Mutant of Listen: an existing file is not removed, and Listen fails on it.
ListenOverFile ==
  /\ sup = "boot"
  /\ IF sock = "none" THEN sup' = "bound" /\ sock' = "live"
                      ELSE sup' = "dead" /\ UNCHANGED sock
  /\ UNCHANGED <<pid1, looks, disk, autoV, fault>>

\* Remove the old file, bind and listen.
Listen ==
  /\ sup = "boot"
  /\ \/ sup' = "boot" /\ sock = "stale" /\ sock' = "none"
     \/ sup' = "bound" /\ sock = "none" /\ sock' = "live"
  /\ UNCHANGED <<pid1, looks, disk, autoV, fault>>

Chmod ==
  /\ sup = "bound"
  /\ sup' = "open"
  /\ UNCHANGED <<pid1, looks, sock, disk, autoV, fault>>

\* A panic or the kernel ends the process, or an error makes Serve return.
SupervisorDies ==
  /\ sup \in {"boot", "bound", "open"}
  /\ sup' = "dead" /\ fault' = TRUE
  /\ sock' \in IF sock = "live" THEN {"stale", "none"} ELSE {sock}
  /\ UNCHANGED <<pid1, looks, disk, autoV>>

----------------------------------------------------------------------------
(* runServe *)

\* config.Load fails on a bad app.yaml, which ends the container; otherwise
\* maybeAutoStart runs before the web server listens.
runServe ==
  /\ pid1 = "loading"
  /\ IF settings = "bad"
       THEN Halt /\ UNCHANGED disk
       ELSE /\ pid1' = "serving"
            /\ IF settings = "on" /\ ready
                 THEN auto' = "dial" /\ left' = AutoSteps
                 ELSE UNCHANGED autoV
            /\ UNCHANGED <<looks, sup, sock, disk, fault>>

\* supervisor.Client can connect: the process listens, and app may write.
Reachable == sup = "open"

Dial ==
  /\ auto = "dial"
  /\ auto' = IF Reachable THEN "wait" ELSE "failed"
  /\ UNCHANGED <<pid1, looks, sup, sock, disk, left, fault>>

\* The response, or the error of a connection whose supervisor is gone; the
\* first failure ends the sequence.
Answer ==
  /\ auto = "wait"
  /\ \/ /\ Reachable
        /\ left' = left - 1
        /\ auto' = IF left = 1 THEN "ok" ELSE "dial"
        /\ UNCHANGED fault
     \/ auto' = "failed" /\ fault' = TRUE /\ UNCHANGED left
  /\ UNCHANGED <<pid1, looks, sup, sock, disk>>

\* The user saves the settings or the configs.
Save ==
  /\ pid1 = "serving"
  /\ \/ settings' \in {"off", "on"} /\ UNCHANGED ready
     \/ ready' = TRUE /\ UNCHANGED settings
  /\ UNCHANGED <<pid1, looks, sup, sock, autoV, fault>>

\* The container stops while os.WriteFile rewrites app.yaml in place.
SaveCut ==
  /\ pid1 = "serving"
  /\ settings' = "bad" /\ UNCHANGED ready
  /\ Halt

----------------------------------------------------------------------------
Script     == Poll
Supervisor == Listen \/ Chmod
Web        == runServe \/ Dial \/ Answer

Next ==
  \/ Boot \/ Script \/ Supervisor \/ Web
  \/ cleanup \/ Down \/ SupervisorDies \/ Save \/ SaveCut

Spec == Init /\ [][Next]_vars

\* Processes that can run, run.
FairSpec ==
  /\ Spec
  /\ WF_vars(Script) /\ WF_vars(Supervisor) /\ WF_vars(Web)

----------------------------------------------------------------------------
(* Properties *)

\* The script becomes the web process and auto-start comes to an end, even if
\* the supervisor never listens or dies at any point: nobody waits for it
\* without limit (docker-entrypoint.sh, maybeAutoStart).
BootCompletes ==
  pid1 = "script" ~> \/ pid1 = "off"
                     \/ pid1 = "serving" /\ auto \in {"none", "ok", "failed"}

\* Whatever an earlier run of the container left at the socket's path, a
\* supervisor that does not die becomes reachable by the web process
\* (Serve removes the file before it listens, and then opens it to app).
SupervisorServes ==
  pid1 = "script" ~> (pid1 = "off" \/ fault \/ (Reachable /\ sock = "live"))

\* "Auto start services on container startup" (config.html): with the setting
\* on and the files there, auto-start fails only if something in this boot did.
AutoStarts == auto = "failed" => fault

=============================================================================
