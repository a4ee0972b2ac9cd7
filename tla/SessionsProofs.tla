--------------------------- MODULE SessionsProofs ---------------------------
(***************************************************************************)
(* Proofs about Sessions for any tabs, browsers and lifetimes: only live   *)
(* sessions of the running process act, a session lasts until its time is  *)
(* over, a page's own POSTs are not refused for their token, and a cookie  *)
(* that was refused once gets nothing through any more.                    *)
(***************************************************************************)
EXTENDS Sessions, TLAPS

\* Browsers, pages and requests only ever hold sessions that were issued, and
\* no session was issued by a start of the process that is yet to come.
Known ==
  /\ DOMAIN sessions \subseteq DOMAIN issued
  /\ \A i \in DOMAIN sessions : sessions[i].csrf = i
  /\ \A i \in DOMAIN issued : issued[i].boot <= boot
  /\ \A b \in Browsers : cookie[b] \in DOMAIN issued \cup {None}
  /\ \A t \in Tabs : page[t].under \in DOMAIN issued \cup {None}
  /\ \A t \in Tabs : req[t].cookie \in DOMAIN issued \cup {None}
  /\ \A t \in Tabs : req[t].under \in DOMAIN issued \cup {None}
  /\ \A t \in Tabs : req[t].at <= now
  /\ \A t \in Tabs : req[t].st \in {"render", "reclock"} => req[t].kind = "page"

\* A token is that of the session its page was got with; a page is without one
\* only if that session is gone, and then so it is for the POSTs of the page.
TokenOf(p) == IF p.csrf = None THEN p.under \notin DOMAIN sessions ELSE p.csrf = p.under

OwnTokens ==
  /\ \A t \in Tabs : TokenOf(page[t])
  /\ \A t \in Tabs : req[t].kind = "post" => TokenOf(req[t])

Inv == TypeOK /\ Known /\ OwnTokens /\ AuthorizedOnly /\ SessionLasts /\ OwnPageWorks

\* A new stage for the request of one tab: the others stay, and it keeps its
\* other fields.
Staged(t, s) ==
  /\ req' \in [Tabs -> Requests]
  /\ \A u \in Tabs : u # t => req'[u] = req[u]
  /\ req'[t].st = s /\ req'[t].kind = req[t].kind /\ req'[t].cookie = req[t].cookie
  /\ req'[t].csrf = req[t].csrf /\ req'[t].under = req[t].under

LEMMA NewStage ==
  ASSUME NEW t \in Tabs, NEW s \in Waiting \cup Answers, req \in [Tabs -> Requests],
         req' = [req EXCEPT ![t].st = s]
  PROVE  Staged(t, s) /\ req'[t].at = req[t].at
<1>1. req' \in [Tabs -> Requests]
  BY DEF Requests
<1>2. \A u \in Tabs : u # t => req'[u] = req[u]
  OBVIOUS
<1>3. /\ req'[t].st = s /\ req'[t].kind = req[t].kind /\ req'[t].cookie = req[t].cookie
      /\ req'[t].csrf = req[t].csrf /\ req'[t].under = req[t].under
      /\ req'[t].at = req[t].at
  BY DEF Requests
<1> QED
  BY <1>1, <1>2, <1>3 DEF Staged

LEMMA NewStageAndTime ==
  ASSUME NEW t \in Tabs, NEW s \in Waiting \cup Answers, NEW n \in 0..MaxTime,
         req \in [Tabs -> Requests], req' = [req EXCEPT ![t].st = s, ![t].at = n]
  PROVE  Staged(t, s) /\ req'[t].at = n
<1>1. req' \in [Tabs -> Requests]
  BY DEF Requests
<1>2. \A u \in Tabs : u # t => req'[u] = req[u]
  OBVIOUS
<1>3. /\ req'[t].st = s /\ req'[t].kind = req[t].kind /\ req'[t].cookie = req[t].cookie
      /\ req'[t].csrf = req[t].csrf /\ req'[t].under = req[t].under
      /\ req'[t].at = n
  BY DEF Requests
<1> QED
  BY <1>1, <1>2, <1>3 DEF Staged

USE SessionAssumption DEF Tokens, Times, Waiting, Answers, Boots, NoRequest, Requests

\* A new process: nobody is logged in.
LEMMA InitInv == Init => Inv
BY DEF Init, Inv, TypeOK, Known, OwnTokens, TokenOf, AuthorizedOnly, SessionLasts,
       OwnPageWorks

----------------------------------------------------------------------------
(* Steps that leave the sessions alone *)

\* auth.go:121-126, app.js:84-87: a request takes the cookie and the token of
\* the moment it is sent, and the time of the moment it arrives.
LEMMA SendInv ==
  ASSUME NEW t \in Tabs, NEW k \in {"page", "post"}, Inv, Send(t, k)
  PROVE  Inv'
<1> USE DEF Inv, Send
<1>1. TypeOK'
  BY DEF TypeOK
<1>2. Known' /\ OwnTokens'
  BY DEF TypeOK, Known, OwnTokens, TokenOf
<1>3. AuthorizedOnly' /\ SessionLasts' /\ OwnPageWorks'
  BY DEF TypeOK, AuthorizedOnly, SessionLasts, OwnPageWorks
<1> QED
  BY <1>1, <1>2, <1>3

LEMMA ReadClockInv ==
  ASSUME NEW t \in Tabs, Inv, ReadClock(t)
  PROVE  Inv'
<1>1. /\ req \in [Tabs -> Requests]
      /\ now \in 0..MaxTime
      /\ req[t].st \in {"sent", "render"}
      /\ UNCHANGED <<now, boot, sessions, cookie, page, issued>>
  BY DEF Inv, TypeOK, ReadClock
<1>2. PICK s \in {"clock", "reclock"} :
        /\ req' = [req EXCEPT ![t].st = s, ![t].at = now]
        /\ s = "reclock" => req[t].st = "render"
  BY DEF ReadClock
<1>3. Staged(t, s) /\ req'[t].at = now
  BY <1>1, <1>2, NewStageAndTime
<1>4. TypeOK'
  BY <1>1, <1>3 DEF Staged, Inv, TypeOK
<1>5. Known' /\ OwnTokens'
  BY <1>1, <1>2, <1>3 DEF Staged, Inv, TypeOK, Known, OwnTokens, TokenOf
<1>6. AuthorizedOnly' /\ SessionLasts' /\ OwnPageWorks'
  BY <1>1, <1>2, <1>3 DEF Staged, Inv, TypeOK, AuthorizedOnly, SessionLasts, OwnPageWorks
<1> QED
  BY <1>4, <1>5, <1>6 DEF Inv

\* Time passes; the browser drops a cookie; nothing happens.
LEMMA TickInv == Inv /\ Tick => Inv'
BY DEF Inv, Tick, TypeOK, Known, OwnTokens, TokenOf, AuthorizedOnly, SessionLasts,
       OwnPageWorks

LEMMA DropCookieInv ==
  ASSUME NEW b \in Browsers, Inv, DropCookie(b)
  PROVE  Inv'
BY DEF Inv, DropCookie, TypeOK, Known, OwnTokens, TokenOf, AuthorizedOnly, SessionLasts,
       OwnPageWorks

LEMMA StutterInv == Inv /\ UNCHANGED vars => Inv'
BY DEF Inv, vars, TypeOK, Known, OwnTokens, TokenOf, AuthorizedOnly, SessionLasts,
       OwnPageWorks

----------------------------------------------------------------------------
(* Steps that change the sessions *)

\* auth.go:98-119, 156-183: a login adds a session under an ID that no browser,
\* page or request knows, and leaves the other sessions alone.
LEMMA LoginInv ==
  ASSUME NEW t \in Tabs, NEW k \in Boots, Inv, loginPost(t, k)
  PROVE  Inv'
<1>1. CASE k # boot
  <2>1. /\ req' = [req EXCEPT ![t] =
                     [st |-> "unauthorized", kind |-> "page", cookie |-> None,
                      csrf |-> None, under |-> None, at |-> 0]]
        /\ UNCHANGED <<now, boot, sessions, cookie, page, issued>>
    BY <1>1 DEF loginPost
  <2> QED
    BY <2>1 DEF Inv, TypeOK, Known, OwnTokens, TokenOf, AuthorizedOnly, SessionLasts,
                OwnPageWorks
<1>2. CASE k = boot
  <2>1. PICK id \in Ids \ DOMAIN issued : setSession(BrowserOf[t], id)
    BY <1>2 DEF loginPost
  <2>2. /\ req' = [req EXCEPT ![t] = NoRequest]
        /\ UNCHANGED <<now, boot, page>>
    BY <1>2 DEF loginPost
  <2>3. BrowserOf[t] \in Browsers
    OBVIOUS
  <2>4. /\ now + TTL \in Times
        /\ now <= now + TTL
    BY DEF Inv, TypeOK
  <2>5. TypeOK'
    BY <2>1, <2>2, <2>3, <2>4 DEF setSession, Inv, TypeOK
  <2>6. Known'
    BY <2>1, <2>2, <2>3 DEF setSession, Inv, TypeOK, Known
  <2>7. OwnTokens'
    BY <2>1, <2>2 DEF setSession, Inv, TypeOK, Known, OwnTokens, TokenOf
  <2>8. AuthorizedOnly' /\ OwnPageWorks'
    BY <2>1, <2>2 DEF setSession, Inv, TypeOK, AuthorizedOnly, OwnPageWorks
  <2>9. SessionLasts'
    BY <2>1, <2>2, <2>4 DEF setSession, Inv, TypeOK, Known, SessionLasts
  <2> QED
    BY <2>5, <2>6, <2>7, <2>8, <2>9 DEF Inv
<1> QED
  BY <1>1, <1>2

\* What SessionLasts says of a session in the map, field by field.
LEMMA Recorded ==
  ASSUME SessionLasts
  PROVE  \A i \in DOMAIN sessions :
           issued[i].expires = sessions[i].expires /\ issued[i].boot = boot
<1> SUFFICES ASSUME NEW i \in DOMAIN sessions
             PROVE  issued[i].expires = sessions[i].expires /\ issued[i].boot = boot
  OBVIOUS
<1>1. issued[i] = [expires |-> sessions[i].expires, boot |-> boot]
  BY DEF SessionLasts
<1> QED
  BY <1>1

\* auth.go:133-136: only a session whose time was over at a moment in the past
\* is dropped.
LEMMA DropExpired ==
  ASSUME NEW t \in Tabs, Inv, dropExpired(req[t])
  PROVE  /\ DOMAIN sessions' \subseteq DOMAIN sessions
         /\ \A i \in DOMAIN sessions' : sessions'[i] = sessions[i]
         /\ \A i \in DOMAIN sessions : now <= sessions[i].expires => i \in DOMAIN sessions'
         /\ req[t].cookie \in DOMAIN sessions' <=> sessionForRequest(req[t])
BY DEF dropExpired, sessionForRequest, Inv, TypeOK, Known

\* So a session lasts until its time is over.
LEMMA DropExpiredInv ==
  ASSUME NEW t \in Tabs, Inv, dropExpired(req[t]), UNCHANGED <<now, boot, issued>>
  PROVE  SessionLasts'
<1>1. \A i \in DOMAIN sessions' : issued[i] = [expires |-> sessions'[i].expires, boot |-> boot]
  BY DropExpired DEF Inv, SessionLasts
<1>2. \A i \in DOMAIN issued : issued[i].boot = boot /\ now <= issued[i].expires
        => i \in DOMAIN sessions'
  BY DropExpired, Recorded DEF Inv, SessionLasts
<1> QED
  BY <1>1, <1>2 DEF SessionLasts

\* auth.go:63-87: a POST that gets through has a live session and its token.
LEMMA RequireAuthInv ==
  ASSUME NEW t \in Tabs, Inv, requireAuth(t)
  PROVE  Inv'
<1> DEFINE r == req[t]
<1>1. /\ r.st = "clock" /\ dropExpired(r)
      /\ UNCHANGED <<now, boot, cookie, page, issued>>
  BY DEF requireAuth
<1>2. PICK s \in {"unauthorized", "forbidden", "ok", "render"} :
        /\ req' = [req EXCEPT ![t].st = s]
        /\ s # "unauthorized" => sessionForRequest(r)
        /\ s = "forbidden" => r.kind = "post" /\ ~validCSRF(r)
        /\ s = "ok" => r.kind = "post" /\ validCSRF(r)
        /\ s = "render" => r.kind = "page"
  BY DEF requireAuth
<1>3. req \in [Tabs -> Requests] /\ r \in Requests
  BY DEF Inv, TypeOK
<1>4. /\ DOMAIN sessions' \subseteq DOMAIN sessions
      /\ \A i \in DOMAIN sessions' : sessions'[i] = sessions[i]
  BY <1>1, DropExpired
<1>5. Staged(t, s) /\ req'[t].at = r.at
  BY <1>2, <1>3, NewStage
<1>6. TypeOK'
  BY <1>1, <1>4, <1>5 DEF Staged, Inv, TypeOK
<1>7. Known'
  BY <1>1, <1>2, <1>4, <1>5 DEF Staged, Inv, TypeOK, Known
<1>8. OwnTokens'
  BY <1>1, <1>4, <1>5 DEF Staged, Inv, OwnTokens, TokenOf
<1>9. sessionForRequest(r) =>
        /\ r.cookie \in DOMAIN issued
        /\ issued[r.cookie].boot = boot
        /\ r.at <= issued[r.cookie].expires
        /\ sessions[r.cookie].csrf = r.cookie
  BY Recorded DEF sessionForRequest, Inv, Known
<1>10. AuthorizedOnly'
  BY <1>1, <1>2, <1>5, <1>9 DEF Staged, validCSRF, Inv, AuthorizedOnly
<1>11. s = "forbidden" => r.under # r.cookie
  BY <1>2, <1>9 DEF validCSRF, sessionForRequest, Inv, Known, OwnTokens, TokenOf
<1>12. OwnPageWorks'
  BY <1>5, <1>11 DEF Staged, Inv, OwnPageWorks
<1>13. SessionLasts'
  BY <1>1, DropExpiredInv
<1> QED
  BY <1>6, <1>7, <1>8, <1>10, <1>12, <1>13 DEF Inv

\* pages.go:9-22: the page gets the token of its session, or none if the second
\* lookup found it expired and dropped it.
LEMMA RenderPageInv ==
  ASSUME NEW t \in Tabs, Inv, renderPage(t)
  PROVE  Inv'
<1> DEFINE r == req[t]
<1>1. PICK c \in Tokens :
        /\ page' = [page EXCEPT ![t] = [csrf |-> c, under |-> r.cookie]]
        /\ IF sessionForRequest(r) THEN c = r.cookie ELSE c = None
  BY DEF renderPage, Rendered, sessionForRequest, Inv, TypeOK, Known
<1>2. /\ r.st = "reclock" /\ dropExpired(r)
      /\ req' = [req EXCEPT ![t].st = "ok"]
      /\ UNCHANGED <<now, boot, cookie, issued>>
  BY DEF renderPage, Rendered
<1>3. /\ DOMAIN sessions' \subseteq DOMAIN sessions
      /\ \A i \in DOMAIN sessions' : sessions'[i] = sessions[i]
      /\ r.cookie \in DOMAIN sessions' <=> sessionForRequest(r)
  BY <1>2, DropExpired
<1>4. Staged(t, "ok") /\ req'[t].at = r.at
  BY <1>2, NewStage DEF Inv, TypeOK
<1>5. TypeOK'
  BY <1>1, <1>2, <1>3, <1>4 DEF Staged, Inv, TypeOK
<1>6. Known'
  BY <1>1, <1>2, <1>3, <1>4 DEF Staged, Inv, TypeOK, Known
<1>7. OwnTokens'
  BY <1>1, <1>2, <1>3, <1>4 DEF Staged, Inv, TypeOK, Known, OwnTokens, TokenOf
<1>8. r.kind = "page"
  BY <1>2 DEF Inv, Known
<1>9. AuthorizedOnly' /\ OwnPageWorks'
  BY <1>2, <1>4, <1>8 DEF Staged, Inv, AuthorizedOnly, OwnPageWorks
<1>10. SessionLasts'
  BY <1>2, DropExpiredInv
<1> QED
  BY <1>5, <1>6, <1>7, <1>9, <1>10 DEF Inv

\* main.go:38-60: a restart forgets every session and every request.
LEMMA RestartInv == Inv /\ Restart => Inv'
BY DEF Inv, Restart, TypeOK, Known, OwnTokens, TokenOf, AuthorizedOnly, SessionLasts,
       OwnPageWorks

\* Every step preserves the invariant.
LEMMA NextInv == Inv /\ [Next]_vars => Inv'
<1> SUFFICES ASSUME Inv, [Next]_vars
             PROVE  Inv'
  OBVIOUS
<1>1. ASSUME NEW t \in Tabs, NEW k \in Boots, loginPost(t, k)
      PROVE  Inv'
  BY <1>1, LoginInv
<1>2. ASSUME NEW t \in Tabs, NEW k \in {"page", "post"}, Send(t, k)
      PROVE  Inv'
  BY <1>2, SendInv
<1>3. ASSUME NEW t \in Tabs, ReadClock(t) \/ requireAuth(t) \/ renderPage(t)
      PROVE  Inv'
  BY <1>3, ReadClockInv, RequireAuthInv, RenderPageInv
<1>4. CASE Tick \/ Restart \/ UNCHANGED vars
  BY <1>4, TickInv, RestartInv, StutterInv
<1>5. ASSUME NEW b \in Browsers, DropCookie(b)
      PROVE  Inv'
  BY <1>5, DropCookieInv
<1> QED
  BY <1>1, <1>2, <1>3, <1>4, <1>5 DEF Next

\* Inv holds of every state the sessions reach.
THEOREM Invariance == Spec => []Inv
BY InitInv, NextInv, PTL DEF Spec

----------------------------------------------------------------------------
(* The results *)

\* Every variable keeps its type.
THEOREM TypeCorrect == Spec => []TypeOK
BY Invariance, PTL DEF Inv

\* auth.go:63-87, 121-154: a POST that reached its handler had a session of
\* this start, not expired when it came in, and that session's CSRF token.
THEOREM OnlyLiveSessionsAct == Spec => []AuthorizedOnly
BY Invariance, PTL DEF Inv

\* pages.go:15, auth.go:66-74: a POST under the cookie its page was got with is
\* never refused for its CSRF token.
THEOREM PagesOwnPosts == Spec => []OwnPageWorks
BY Invariance, PTL DEF Inv

\* A session that is gone stays away: a login takes a new ID, and no other step
\* adds to the map.
LEMMA GoneForGood ==
  ASSUME Inv, [Next]_vars, NEW i \in DOMAIN issued \cup {None}, i \notin DOMAIN sessions
  PROVE  i \notin DOMAIN sessions'
<1>1. CASE UNCHANGED sessions
  BY <1>1
<1>2. ASSUME NEW t \in Tabs, dropExpired(req[t])
      PROVE  i \notin DOMAIN sessions'
  BY <1>2, DropExpired
<1>3. ASSUME NEW t \in Tabs, NEW id \in Ids \ DOMAIN issued, setSession(BrowserOf[t], id)
      PROVE  i \notin DOMAIN sessions'
  BY <1>3 DEF setSession
<1>4. CASE Restart
  BY <1>4 DEF Restart
<1> QED
  BY <1>1, <1>2, <1>3, <1>4
     DEF Next, vars, loginPost, Send, ReadClock, requireAuth, renderPage, Tick, DropCookie

\* Who is refused has no session by then.
LEMMA RefusedWithout ==
  ASSUME Inv, [Next]_vars, NEW t \in Tabs, req'[t].st = "unauthorized"
  PROVE  \/ req[t].st = "unauthorized" /\ req'[t].cookie = req[t].cookie
         \/ req'[t].cookie \notin DOMAIN sessions'
<1>1. req \in [Tabs -> Requests]
  BY DEF Inv, TypeOK
<1>2. ASSUME NEW u \in Tabs, requireAuth(u)
      PROVE  \/ req[t].st = "unauthorized" /\ req'[t].cookie = req[t].cookie
             \/ req'[t].cookie \notin DOMAIN sessions'
  <2>1. PICK s \in {"unauthorized", "forbidden", "ok", "render"} :
          /\ req' = [req EXCEPT ![u].st = s]
          /\ s = "unauthorized" => ~sessionForRequest(req[u])
    BY <1>2 DEF requireAuth
  <2>2. Staged(u, s)
    BY <1>1, <2>1, NewStage
  <2>3. req[u].cookie \in DOMAIN sessions' <=> sessionForRequest(req[u])
    BY <1>2, DropExpired DEF requireAuth
  <2> QED
    BY <2>1, <2>2, <2>3 DEF Staged
<1>3. ASSUME NEW u \in Tabs, renderPage(u)
      PROVE  req[t].st = "unauthorized" /\ req'[t].cookie = req[t].cookie
  <2>1. Staged(u, "ok")
    BY <1>1, <1>3, NewStage DEF renderPage, Rendered
  <2> QED
    BY <2>1 DEF Staged
<1>4. ASSUME NEW u \in Tabs, ReadClock(u)
      PROVE  req[t].st = "unauthorized" /\ req'[t].cookie = req[t].cookie
  <2>1. PICK s \in {"clock", "reclock"} : req' = [req EXCEPT ![u].st = s, ![u].at = now]
    BY <1>4 DEF ReadClock
  <2>2. Staged(u, s)
    BY <1>1, <2>1, NewStageAndTime DEF Inv, TypeOK
  <2> QED
    BY <2>2 DEF Staged
<1>5. ASSUME NEW u \in Tabs, NEW k \in {"page", "post"}, Send(u, k)
      PROVE  req[t].st = "unauthorized" /\ req'[t].cookie = req[t].cookie
  BY <1>1, <1>5 DEF Send
<1>6. ASSUME NEW u \in Tabs, NEW k \in Boots, loginPost(u, k)
      PROVE  \/ req[t].st = "unauthorized" /\ req'[t].cookie = req[t].cookie
             \/ req'[t].cookie \notin DOMAIN sessions'
  <2>1. Inv'
    BY <1>6, LoginInv
  <2>2. None \notin DOMAIN sessions'
    BY <2>1 DEF Inv, TypeOK
  <2>3. t # u => req'[t] = req[t]
    BY <1>1, <1>6 DEF loginPost
  <2>4. t = u => req'[t].cookie = None
    BY <1>1, <1>6 DEF loginPost
  <2> QED
    BY <2>2, <2>3, <2>4
<1>7. CASE Restart
  BY <1>7 DEF Restart
<1>8. CASE UNCHANGED req
  BY <1>8
<1> QED
  BY <1>2, <1>3, <1>4, <1>5, <1>6, <1>7, <1>8 DEF Next, vars, Tick, DropCookie

\* auth.go:121-138, 156-170: a session stays in the map until its time is over, and
\* a cookie that a request was refused with never gets another one through,
\* whichever order their clock readings and lookups come in.
THEOREM SessionsLast == Spec => []SessionLifetime
<1>1. Init => RefusalIsFinal
  BY DEF Init, RefusalIsFinal
<1>2. Inv /\ RefusalIsFinal /\ [Next]_vars => RefusalIsFinal'
  <2> SUFFICES ASSUME Inv, RefusalIsFinal, [Next]_vars, NEW t \in Tabs,
                      req'[t].st = "unauthorized"
               PROVE  req'[t].cookie \notin DOMAIN sessions'
    BY DEF RefusalIsFinal
  <2>1. CASE req[t].st = "unauthorized" /\ req'[t].cookie = req[t].cookie
    BY <2>1, GoneForGood DEF Inv, Known, RefusalIsFinal
  <2> QED
    BY <2>1, RefusedWithout
<1>3. Inv => SessionLasts
  BY DEF Inv
<1> QED
  BY <1>1, <1>2, <1>3, Invariance, PTL DEF Spec, SessionLifetime
=============================================================================
