--------------------------- MODULE DashboardProofs ---------------------------
(***************************************************************************)
(* Proof about Dashboard, for any number of concurrent status requests:    *)
(* the indicator never claims a stream that the browser does not have.     *)
(***************************************************************************)
EXTENDS Dashboard, TLAPS

\* The page's flag and its indicator follow the stream.
Follows ==
  /\ streamConnected => stream = "open"
  /\ connected => streamConnected

Inv == TypeOK /\ Follows

\* A request as it is sent.
Sent(own) == [at |-> "sent", wg |-> "unavailable", bird |-> "unavailable", own |-> own]

LEMMA SentFrom ==
  ASSUME NEW r \in Requests, NEW own \in BOOLEAN
  PROVE  /\ [r EXCEPT !.at = "sent"] =
              [at |-> "sent", wg |-> r.wg, bird |-> r.bird, own |-> r.own]
         /\ [r EXCEPT !.at = "sent", !.own = own] =
              [at |-> "sent", wg |-> r.wg, bird |-> r.bird, own |-> own]
<1>1. [r EXCEPT !.at = "sent"] = [at |-> "sent", wg |-> r.wg, bird |-> r.bird, own |-> r.own]
  BY DEF Requests
<1>2. [r EXCEPT !.at = "sent", !.own = own] =
        [at |-> "sent", wg |-> r.wg, bird |-> r.bird, own |-> own]
  <2> DEFINE q == [r EXCEPT !.at = "sent", !.own = own]
  <2>1. q \in Requests
    <3>1. "sent" \in Stages
      BY DEF Stages
    <3> QED
      BY <3>1, Zenon DEF Requests
  <2>2. q.at = "sent" /\ q.wg = r.wg /\ q.bird = r.bird /\ q.own = own
    BY DEF Requests
  <2> HIDE DEF q
  <2>3. q = [at |-> "sent", wg |-> r.wg, bird |-> r.bird, own |-> own]
    BY <2>1, <2>2 DEF Requests
  <2> QED
    BY <2>3 DEF q
<1> QED
  BY <1>1, <1>2

LEMMA SentIdle ==
  /\ [Idle EXCEPT !.at = "sent"] = Sent(FALSE)
  /\ \A own \in BOOLEAN : [Idle EXCEPT !.at = "sent", !.own = own] = Sent(own)
<1>1. /\ Idle \in Requests
      /\ Idle.wg = "unavailable" /\ Idle.bird = "unavailable" /\ Idle.own = FALSE
  BY DEF Idle, Requests, Stages, States
<1> QED
  BY <1>1, SentFrom, Zenon DEF Sent

USE DashboardAssumption

\* The bound on what disturbs the page is kept.
LEMMA DisturbType ==
  TypeOK /\ (Disturb \/ UNCHANGED disturbed) => disturbed' \in 0..MaxDisturb
BY DEF TypeOK, Disturb

\* The page has just been loaded.
LEMMA InitInv == Init => Inv
<1> SUFFICES ASSUME Init
             PROVE  Inv
  OBVIOUS
<1>1. PICK f \in Fetches :
        fetch = [g \in Fetches |-> IF g = f THEN [Idle EXCEPT !.at = "sent"] ELSE Idle]
  BY Zenon DEF Init
<1>2. fetch = [g \in Fetches |-> IF g = f THEN Sent(FALSE) ELSE Idle]
  BY <1>1, SentIdle
<1>3. Sent(FALSE) \in Requests /\ Idle \in Requests
  BY DEF Sent, Idle, Requests, Stages, States
<1>4. fetch \in [Fetches -> Requests]
  BY <1>2, <1>3
<1>5. /\ disturbed \in 0..MaxDisturb /\ events \in 0..StreamEvents
      /\ shown \in [wg : States \cup {"none"}, bird : States \cup {"none"}]
  BY DEF Init
<1>6. TypeOK
  BY <1>4, <1>5, Zenon DEF Init, TypeOK
<1> QED
  BY <1>6 DEF Init, Inv, Follows

----------------------------------------------------------------------------
(* The handler *)

\* A request that moves on, with the states it was given, is still one.
LEMMA MoveOn ==
  ASSUME NEW f \in Fetches, NEW a \in Stages, fetch \in [Fetches -> Requests],
         fetch' = [fetch EXCEPT ![f].at = a]
  PROVE  fetch' \in [Fetches -> Requests]
BY DEF Requests

LEMMA MoveOnWg ==
  ASSUME NEW f \in Fetches, NEW a \in Stages, NEW w \in States,
         fetch \in [Fetches -> Requests], fetch' = [fetch EXCEPT ![f].wg = w, ![f].at = a]
  PROVE  fetch' \in [Fetches -> Requests]
BY DEF Requests

LEMMA MoveOnBird ==
  ASSUME NEW f \in Fetches, NEW a \in Stages, NEW b \in States,
         fetch \in [Fetches -> Requests], fetch' = [fetch EXCEPT ![f].bird = b, ![f].at = a]
  PROVE  fetch' \in [Fetches -> Requests]
BY DEF Requests

\* api_status.go:30-85: each call moves the request on, with what it found.
LEMMA HandlerInv ==
  ASSUME NEW f \in Fetches, Inv,
         \/ Authorize(f) \/ wireGuardStatus(f) \/ wireGuardStats(f)
         \/ birdStatus(f) \/ birdStats(f)
  PROVE  Inv'
<1>1. fetch \in [Fetches -> Requests] /\ Wg(wg, sup) \in States /\ Bird(bird, sup) \in States
  BY DEF Inv, TypeOK, Wg, Bird, States
<1>2. /\ Disturb \/ UNCHANGED disturbed
      /\ UNCHANGED <<hostV, expired, pageV, streamV>>
  BY DEF Authorize, wireGuardStatus, wireGuardStats, birdStatus, birdStats
<1>3. fetch' \in [Fetches -> Requests]
  <2>1. CASE Authorize(f) \/ wireGuardStats(f) \/ birdStats(f)
    <3>1. PICK a \in Stages : fetch' = [fetch EXCEPT ![f].at = a]
      BY <2>1 DEF Authorize, wireGuardStats, birdStats, Stages
    <3> QED
      BY <1>1, <3>1, MoveOn
  <2>2. CASE wireGuardStatus(f)
    <3>1. PICK a \in Stages, w \in States : fetch' = [fetch EXCEPT ![f].wg = w, ![f].at = a]
      BY <1>1, <2>2 DEF wireGuardStatus, Stages, States
    <3> QED
      BY <1>1, <3>1, MoveOnWg
  <2>3. CASE birdStatus(f)
    <3>1. PICK a \in Stages, b \in States : fetch' = [fetch EXCEPT ![f].bird = b, ![f].at = a]
      BY <1>1, <2>3 DEF birdStatus, Stages, States
    <3> QED
      BY <1>1, <3>1, MoveOnBird
  <2> QED
    BY <2>1, <2>2, <2>3
<1>4. TypeOK'
  BY <1>2, <1>3, DisturbType DEF Inv, TypeOK, hostV, pageV, streamV
<1>5. Follows'
  BY <1>2 DEF Inv, Follows, pageV, streamV
<1> QED
  BY <1>4, <1>5 DEF Inv

----------------------------------------------------------------------------
(* The page *)

\* A request begins.
LEMMA FetchType ==
  ASSUME NEW f \in Fetches, NEW own \in BOOLEAN, Inv, Fetch(f, own)
  PROVE  fetch' \in [Fetches -> Requests]
<1>1. fetch' = [fetch EXCEPT ![f] = Sent(own)]
  BY SentIdle DEF Fetch
<1>2. Sent(own) \in Requests
  BY DEF Sent, Requests, Stages, States
<1> QED
  BY <1>1, <1>2 DEF Inv, TypeOK

\* A request ends.
LEMMA SettleType ==
  ASSUME NEW f \in Fetches, Inv, Settle(f)
  PROVE  /\ fetch' \in [Fetches -> Requests]
         /\ action' \in {"none", "sent", "done", "refreshing"}
<1>1. Idle \in Requests
  BY DEF Idle, Requests, Stages, States
<1> QED
  BY <1>1 DEF Settle, Inv, TypeOK

\* app.js:4-32: an answer takes over the indicator only from the stream.
LEMMA RefreshedInv ==
  ASSUME NEW f \in Fetches, Inv, Refreshed(f) \/ FetchFails(f)
  PROVE  Inv'
<1>1. Settle(f) /\ UNCHANGED <<hostV, expired, streamV>>
  BY DEF Refreshed, FetchFails
<1>2. fetch[f] \in Requests
  BY DEF Inv, TypeOK
<1>3. disturbed' \in 0..MaxDisturb
  BY DisturbType DEF Refreshed, FetchFails, Inv
<1>4. shown' \in [wg : States \cup {"none"}, bird : States \cup {"none"}]
  BY <1>2 DEF Refreshed, FetchFails, Inv, TypeOK, Requests
<1>5. connected' \in BOOLEAN
  BY Zenon DEF Refreshed, FetchFails, Inv, TypeOK
<1>6. TypeOK'
  BY <1>1, <1>3, <1>4, <1>5, SettleType DEF Inv, TypeOK, hostV, streamV
<1>7. Follows'
  BY <1>1 DEF Refreshed, FetchFails, Inv, Follows, streamV
<1> QED
  BY <1>6, <1>7 DEF Inv

\* The host changes, by itself or by an action, or the login expires.
LEMMA HostInv ==
  ASSUME Inv, HostChanges \/ Act \/ Expire
  PROVE  Inv'
<1>1. /\ wg' \in {"up", "down"} /\ bird' \in {"off", "down", "up"} /\ sup' \in BOOLEAN
      /\ disturbed' \in 0..MaxDisturb /\ expired' \in BOOLEAN
      /\ action' \in {"none", "sent", "done", "refreshing"}
      /\ UNCHANGED <<fetch, shown, connected, streamV>>
  <2>1. Disturb \/ UNCHANGED disturbed
    BY DEF HostChanges, Act, Expire
  <2>2. /\ wg' \in {"up", "down"} /\ bird' \in {"off", "down", "up"}
        /\ action' \in {"none", "sent", "done", "refreshing"}
        /\ UNCHANGED <<fetch, shown, connected, streamV>>
    BY DEF HostChanges, Act, Expire, Inv, TypeOK, hostV, pageV
  <2>3. sup' \in BOOLEAN /\ expired' \in BOOLEAN
    BY Zenon DEF HostChanges, Act, Expire, Inv, TypeOK, hostV
  <2> QED
    BY <2>1, <2>2, <2>3, DisturbType DEF Inv
<1>2. TypeOK'
  BY <1>1 DEF Inv, TypeOK, streamV
<1>3. Follows'
  BY <1>1 DEF Inv, Follows, streamV
<1> QED
  BY <1>2, <1>3 DEF Inv

\* app.js:89-112: a click, and the refresh after the action's answer.
LEMMA ClickInv ==
  ASSUME Inv, Click \/ Acted
  PROVE  Inv'
<1>1. /\ UNCHANGED <<hostV, expired, shown, connected, streamV>>
      /\ action' \in {"none", "sent", "done", "refreshing"}
      /\ UNCHANGED disturbed \/ Disturb
      /\ UNCHANGED fetch \/ \E f \in Fetches : Fetch(f, TRUE)
  BY DEF Click, Acted
<1>2. fetch' \in [Fetches -> Requests]
  <2>1. CASE UNCHANGED fetch
    BY <2>1 DEF Inv, TypeOK
  <2>2. CASE \E f \in Fetches : Fetch(f, TRUE)
    BY <2>2, FetchType
  <2> QED
    BY <1>1, <2>1, <2>2
<1>3. TypeOK'
  BY <1>1, <1>2 DEF Inv, TypeOK, Disturb, hostV, streamV
<1>4. Follows'
  BY <1>1 DEF Inv, Follows, streamV
<1> QED
  BY <1>3, <1>4 DEF Inv

\* app.js:325-336, api_status.go:212-249: the stream opens, carries its events and
\* ends, and the indicator with it.
LEMMA StreamInv ==
  ASSUME Inv, Stream
  PROVE  Inv'
<1>1. /\ UNCHANGED <<hostV, expired, shown, action>>
      /\ UNCHANGED disturbed \/ Disturb
      /\ UNCHANGED fetch \/ \E f \in Fetches : Fetch(f, FALSE)
  BY DEF Stream, Connect, StatusEvent, StreamEnds, pageV
<1>2. fetch' \in [Fetches -> Requests]
  <2>1. CASE UNCHANGED fetch
    BY <2>1 DEF Inv, TypeOK
  <2>2. CASE \E f \in Fetches : Fetch(f, FALSE)
    BY <2>2, FetchType
  <2> QED
    BY <1>1, <2>1, <2>2
<1>3. /\ stream' \in {"connecting", "open", "closed"}
      /\ events' \in 0..StreamEvents
      /\ streamConnected' \in BOOLEAN /\ connected' \in BOOLEAN
  <2>1. CASE Connect
    <3>1. stream' \in {"connecting", "open", "closed"} /\ events' \in 0..StreamEvents
      BY <2>1 DEF Connect
    <3>2. streamConnected' \in BOOLEAN /\ connected' \in BOOLEAN
      BY <2>1, Zenon DEF Connect
    <3> QED
      BY <3>1, <3>2
  <2>2. CASE StatusEvent
    <3>1. events' \in 0..StreamEvents
      BY <2>2 DEF StatusEvent, Inv, TypeOK
    <3> QED
      BY <2>2, <3>1 DEF StatusEvent, pageV, Inv, TypeOK
  <2>3. CASE StreamEnds
    <3>1. events' \in 0..StreamEvents
      BY <2>3 DEF StreamEnds
    <3> QED
      BY <2>3, <3>1, Zenon DEF StreamEnds
  <2> QED
    BY <2>1, <2>2, <2>3 DEF Stream
<1>4. TypeOK'
  BY <1>1, <1>2, <1>3, DisturbType DEF Inv, TypeOK, hostV
<1>5. Follows'
  <2>1. CASE Connect
    BY <2>1, Zenon DEF Connect, Follows
  <2>2. CASE StatusEvent
    BY <2>2 DEF StatusEvent, pageV, Inv, Follows
  <2>3. CASE StreamEnds
    BY <2>3, Zenon DEF StreamEnds, Follows
  <2> QED
    BY <2>1, <2>2, <2>3 DEF Stream
<1> QED
  BY <1>4, <1>5 DEF Inv

LEMMA StutterInv == Inv /\ UNCHANGED vars => Inv'
BY DEF vars, hostV, pageV, streamV, Inv, TypeOK, Follows

\* Every step preserves the invariant.
LEMMA NextInv == Inv /\ [Next]_vars => Inv'
<1> SUFFICES ASSUME Inv, [Next]_vars
             PROVE  Inv'
  OBVIOUS
<1>1. ASSUME NEW f \in Fetches, Handle(f) \/ FetchFails(f)
      PROVE  Inv'
  BY <1>1, HandlerInv, RefreshedInv DEF Handle
<1>2. CASE Click \/ Act \/ Acted
  BY <1>2, ClickInv, HostInv
<1>3. CASE Stream \/ HostChanges \/ Expire
  BY <1>3, StreamInv, HostInv
<1> QED
  BY <1>1, <1>2, <1>3, StutterInv DEF Next

\* Inv holds of every state that the page and the host reach.
THEOREM Invariance == Spec => []Inv
BY InitInv, NextInv, PTL DEF Spec

----------------------------------------------------------------------------
(* The results *)

\* Every variable keeps its type: requests, stream and buttons stay within the
\* states that app.js gives them.
THEOREM TypeCorrect == Spec => []TypeOK
BY Invariance, PTL DEF Inv

\* app.js:4-32, 325-336: "Status stream connected" is shown only while it is.
THEOREM IndicatorFollowsStream == Spec => []IndicatorHonest
<1>1. Inv => IndicatorHonest
  BY DEF Inv, Follows, IndicatorHonest
<1> QED
  BY <1>1, Invariance, PTL
=============================================================================
