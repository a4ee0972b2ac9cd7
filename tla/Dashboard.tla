------------------------------ MODULE Dashboard ------------------------------
(***************************************************************************)
(* What the dashboard page shows of the host.  app.js asks for /api/status *)
(* when it loads, on every event of the /api/events stream and after every *)
(* routing action; the handler asks the supervisor up to four times, one   *)
(* call after the other, while the host changes; the answers of concurrent *)
(* requests arrive in any order and each one overwrites the page.          *)
(*                                                                         *)
(* http.Server's write timeout ends every event stream after 30 s and the  *)
(* browser opens it again; a login that has expired ends both for good.    *)
(***************************************************************************)
EXTENDS Naturals

CONSTANTS
  Fetches,        \* bound: requests of the page for /api/status at a time
  StreamEvents,   \* events a stream carries before the write timeout
  MaxDisturb      \* bound: changes of the host, losses, expiry of the login

ASSUME DashboardAssumption ==
  StreamEvents \in Nat \ {0} /\ MaxDisturb \in Nat

VARIABLES
  wg, bird,       \* the tunnel device and the BGP session
  sup,            \* the supervisor answers
  disturbed,      \* changes and losses so far
  expired,        \* the login session of the page has expired
  fetch,          \* the requests for /api/status
  shown,          \* states in #wg-status and #bird-status
  stream,         \* EventSource: "connecting", "open" or "closed" for good
  events,         \* events the open stream has still to carry
  streamConnected, \* statusStreamConnected
  connected,      \* [data-refresh-indicator] is-connected
  action          \* runRoutingAction: "none" (buttons enabled), "sent", "done"
                  \* (its answer is on the way) or "refreshing"

hostV == <<wg, bird, sup>>
pageV == <<shown, connected, action>>
streamV == <<stream, events, streamConnected>>
vars  == <<hostV, disturbed, expired, fetch, pageV, streamV>>

States == {"up", "down", "unavailable"}

\* wireGuardStatus, birdStatus: `wg show` succeeds without the device, birdc
\* fails without the daemon, and a failed call is an error of Client.Call.
Wg(w, s)   == IF ~s THEN "unavailable" ELSE w
Bird(b, s) == IF ~s \/ b = "off" THEN "unavailable" ELSE b
View       == [wg |-> Wg(wg, sup), bird |-> Bird(bird, sup)]

\* The order of a request's calls; "ok" and "unauthorized" are on their way back.
Stages == {"free", "sent", "wg", "dump", "bird", "details", "ok", "unauthorized"}

Idle == [at |-> "free", wg |-> "unavailable", bird |-> "unavailable", own |-> FALSE]

Requests == [at : Stages, wg : States, bird : States, own : BOOLEAN]

TypeOK ==
  /\ wg \in {"up", "down"} /\ bird \in {"off", "down", "up"} /\ sup \in BOOLEAN
  /\ disturbed \in 0..MaxDisturb
  /\ expired \in BOOLEAN
  /\ fetch \in [Fetches -> Requests]
  /\ shown \in [wg : States \cup {"none"}, bird : States \cup {"none"}]
  /\ stream \in {"connecting", "open", "closed"}
  /\ events \in 0..StreamEvents
  /\ streamConnected \in BOOLEAN /\ connected \in BOOLEAN
  /\ action \in {"none", "sent", "done", "refreshing"}

\* The page has just been loaded: it sends its first request and opens the
\* stream, and has nothing to show.
Init ==
  /\ wg = "down" /\ bird = "off" /\ sup \in BOOLEAN
  /\ disturbed = 0 /\ expired = FALSE
  /\ \E f \in Fetches :
       fetch = [g \in Fetches |-> IF g = f THEN [Idle EXCEPT !.at = "sent"] ELSE Idle]
  /\ shown = [wg |-> "none", bird |-> "none"]
  /\ stream = "connecting" /\ events = 0
  /\ streamConnected = FALSE /\ connected = FALSE
  /\ action = "none"

----------------------------------------------------------------------------
(* The environment *)

Disturb == disturbed < MaxDisturb /\ disturbed' = disturbed + 1

\* Another user, the peer, a crash or a save changes the host; the supervisor
\* dies, or is back with the container's processes.
HostChanges ==
  /\ Disturb
  /\ \/ wg' \in {"up", "down"} /\ UNCHANGED <<bird, sup>>
     \/ bird' \in {"off", "down", "up"} /\ UNCHANGED <<wg, sup>>
     \/ sup' = ~sup /\ UNCHANGED <<wg, bird>>
  /\ hostV' # hostV
  /\ UNCHANGED <<expired, fetch, pageV, streamV>>

Expire ==
  /\ Disturb
  /\ ~expired /\ expired' = TRUE
  /\ UNCHANGED <<hostV, fetch, pageV, streamV>>

----------------------------------------------------------------------------
(* /api/status *)

\* requireAuth in front of the handler.
Authorize(f) ==
  /\ fetch[f].at = "sent"
  /\ fetch' = [fetch EXCEPT ![f].at = IF expired THEN "unauthorized" ELSE "wg"]
  /\ UNCHANGED <<hostV, disturbed, expired, pageV, streamV>>

\* wg.dump is only asked of a device that is up.  A call that fails although the
\* supervisor lives (it is refused, or times out behind a long action) is an error.
wireGuardStatus(f) ==
  /\ fetch[f].at = "wg"
  /\ \/ /\ fetch' = [fetch EXCEPT ![f].wg = Wg(wg, sup),
                                  ![f].at = IF Wg(wg, sup) = "up" THEN "dump" ELSE "bird"]
        /\ UNCHANGED disturbed
     \/ /\ fetch' = [fetch EXCEPT ![f].wg = "unavailable", ![f].at = "bird"]
        /\ Disturb
  /\ UNCHANGED <<hostV, expired, pageV, streamV>>

\* Whatever it answers, wg.dump leaves the state that was found.
wireGuardStats(f) ==
  /\ fetch[f].at = "dump"
  /\ fetch' = [fetch EXCEPT ![f].at = "bird"]
  /\ UNCHANGED <<hostV, disturbed, expired, pageV, streamV>>

\* Mutant of birdStatus: what birdc says is passed on as it is.
birdStatusRaw(f) ==
  /\ fetch[f].at = "bird"
  /\ fetch' = [fetch EXCEPT ![f].bird = IF sup THEN bird ELSE "unavailable",
                            ![f].at = IF sup THEN "details" ELSE "ok"]
  /\ UNCHANGED <<hostV, disturbed, expired, pageV, streamV>>

birdStatus(f) ==
  /\ fetch[f].at = "bird"
  /\ \/ /\ fetch' = [fetch EXCEPT ![f].bird = Bird(bird, sup),
                                  ![f].at = IF Bird(bird, sup) = "unavailable"
                                              THEN "ok" ELSE "details"]
        /\ UNCHANGED disturbed
     \/ /\ fetch' = [fetch EXCEPT ![f].bird = "unavailable", ![f].at = "ok"]
        /\ Disturb
  /\ UNCHANGED <<hostV, expired, pageV, streamV>>

birdStats(f) ==
  /\ fetch[f].at = "details"
  /\ fetch' = [fetch EXCEPT ![f].at = "ok"]
  /\ UNCHANGED <<hostV, disturbed, expired, pageV, streamV>>

----------------------------------------------------------------------------
(* app.js *)

\* refreshStatus begins; own says that runRoutingAction awaits it.
Fetch(f, own) ==
  /\ fetch[f].at = "free"
  /\ fetch' = [fetch EXCEPT ![f] = [Idle EXCEPT !.at = "sent", !.own = own]]

\* refreshStatus ends, and with it the action that awaits it.
Settle(f) ==
  /\ fetch' = [fetch EXCEPT ![f] = Idle]
  /\ action' = IF fetch[f].own THEN "none" ELSE action

\* Mutant of Refreshed: any answer counts as a connected stream.
RefreshedConnects(f) ==
  /\ fetch[f].at \in {"ok", "unauthorized"}
  /\ shown' = IF fetch[f].at = "ok" THEN [wg |-> fetch[f].wg, bird |-> fetch[f].bird]
                                    ELSE shown
  /\ connected' = (fetch[f].at = "ok")
  /\ Settle(f)
  /\ UNCHANGED <<hostV, disturbed, expired, streamV>>

Refreshed(f) ==
  /\ fetch[f].at \in {"ok", "unauthorized"}
  /\ IF fetch[f].at = "ok"
       THEN /\ shown' = [wg |-> fetch[f].wg, bird |-> fetch[f].bird]
            /\ connected' = streamConnected
       ELSE connected' = FALSE /\ UNCHANGED shown
  /\ Settle(f)
  /\ UNCHANGED <<hostV, disturbed, expired, streamV>>

\* The fetch fails: the network, or a handler that took more than the write
\* timeout.
FetchFails(f) ==
  /\ fetch[f].at # "free"
  /\ Disturb
  /\ connected' = FALSE
  /\ Settle(f)
  /\ UNCHANGED <<hostV, expired, shown, streamV>>

\* runRoutingAction disables the buttons; the request is carried out once.
Click ==
  /\ action = "none" /\ action' = "sent"
  /\ UNCHANGED <<hostV, disturbed, expired, fetch, shown, connected, streamV>>

\* The action leaves the host in some state, counted as a change, or does
\* nothing: the login has expired, the supervisor is gone, or it failed.
Act ==
  /\ action = "sent" /\ action' = "done"
  /\ \/ UNCHANGED <<hostV, disturbed>>
     \/ /\ ~expired /\ sup /\ Disturb
        /\ wg' \in {"up", "down"} /\ bird' \in {"off", "down", "up"} /\ UNCHANGED sup
  /\ UNCHANGED <<expired, fetch, shown, connected, streamV>>

\* Mutant of Acted: a request that was refused is sent again.
ActedRetries ==
  /\ action = "done"
  /\ IF expired THEN action' = "sent" /\ UNCHANGED fetch
                ELSE action' = "refreshing" /\ \E f \in Fetches : Fetch(f, TRUE)
  /\ UNCHANGED <<hostV, disturbed, expired, shown, connected, streamV>>

\* The answer, good or bad, starts a refresh; a request that fails does not.
Acted ==
  /\ \/ /\ action = "done" /\ action' = "refreshing"
        /\ \E f \in Fetches : Fetch(f, TRUE)
        /\ UNCHANGED disturbed
     \/ /\ action \in {"sent", "done"} /\ action' = "none"
        /\ Disturb
        /\ UNCHANGED fetch
  /\ UNCHANGED <<hostV, expired, shown, connected, streamV>>

----------------------------------------------------------------------------
(* /api/events and the EventSource *)

\* "open", or "error" for good when requireAuth refuses it.
Connect ==
  /\ stream = "connecting"
  /\ stream' = IF expired THEN "closed" ELSE "open"
  /\ events' = IF expired THEN 0 ELSE StreamEvents
  /\ streamConnected' = ~expired /\ connected' = ~expired
  /\ UNCHANGED <<hostV, disturbed, expired, fetch, shown, action>>

\* Mutant of StatusEvent: nobody listens to the event.
StatusEventUnheard ==
  /\ stream = "open" /\ events > 0 /\ events' = events - 1
  /\ UNCHANGED <<hostV, disturbed, expired, fetch, pageV, stream, streamConnected>>

\* writeStatusEvent, at once and then every statusEventInterval.
StatusEvent ==
  /\ stream = "open" /\ events > 0 /\ events' = events - 1
  /\ \E f \in Fetches : Fetch(f, FALSE)
  /\ UNCHANGED <<hostV, disturbed, expired, pageV, stream, streamConnected>>

\* The write timeout ends the stream after its events; a broken connection
\* ends it earlier.  "error": the browser opens it again.
StreamEnds ==
  /\ stream = "open" /\ stream' = "connecting" /\ events' = 0
  /\ IF events = 0 THEN UNCHANGED disturbed ELSE Disturb
  /\ streamConnected' = FALSE /\ connected' = FALSE
  /\ UNCHANGED <<hostV, expired, fetch, shown, action>>

----------------------------------------------------------------------------
Handle(f) ==
  \/ Authorize(f) \/ wireGuardStatus(f) \/ wireGuardStats(f)
  \/ birdStatus(f) \/ birdStats(f) \/ Refreshed(f)

Stream == Connect \/ StatusEvent \/ StreamEnds

Next ==
  \/ \E f \in Fetches : Handle(f) \/ FetchFails(f)
  \/ Click \/ Act \/ Acted
  \/ Stream
  \/ HostChanges \/ Expire

Spec == Init /\ [][Next]_vars

\* Requests are answered, the stream is timed and reopened, and an awaited
\* refresh gets its turn among those that the events start.
FairSpec ==
  /\ Spec
  /\ \A f \in Fetches : WF_vars(Handle(f))
  /\ WF_vars(Act) /\ SF_vars(Acted) /\ SF_vars(StatusEvent)
  /\ WF_vars(Connect) /\ WF_vars(StreamEnds)

----------------------------------------------------------------------------
(* Properties *)

\* The indicator says "Status stream connected" (app.js) only while the browser
\* has the stream open, however answers, errors and reconnections interleave.
IndicatorHonest == connected => stream = "open"

\* Once the host stops changing and calls stop failing the page comes to show what
\* the supervisor would answer and keeps showing it, although each answer
\* overwrites the page, older ones too, and carries calls that failed
\* (api_status.go:42-75); one whose login expired comes to say it is disconnected.
PageCatchesUp ==
  <>[](IF expired THEN ~connected ELSE shown = View)

\* The buttons of the page are enabled again after every action, whether its
\* request, its answer or the refresh after it failed (runRoutingAction).
ButtonsComeBack == action = "sent" ~> action = "none"

=============================================================================
