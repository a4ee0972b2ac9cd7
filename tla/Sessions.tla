------------------------------ MODULE Sessions ------------------------------
(***************************************************************************)
(* Login sessions of the web process (internal/server/auth.go): the map of *)
(* sessions, the requireAuth middleware in front of every page and API     *)
(* handler, and the CSRF token that a page carries for its later POSTs.    *)
(*                                                                         *)
(* A browser has one cookie for all its tabs.  A request takes its cookie  *)
(* and its token when it is sent; the server reads the clock, waits for    *)
(* the mutex and then looks the session up, and a page looks it up again   *)
(* when it is rendered.  Time passes, other tabs log in, sessions expire   *)
(* and the process restarts between any two of these steps.                *)
(***************************************************************************)
EXTENDS Naturals

CONSTANTS
  Tabs, Browsers,
  BrowserOf,    \* Tabs -> Browsers
  TTL,          \* sessionTTL
  None,         \* no cookie, no token
  Ids,          \* tokens; each login takes a new one, which bounds the logins
  MaxTime,      \* bound on the clock
  MaxBoots      \* bound on starts of the process

\* GenerateToken never repeats itself, so a session's ID also stands for its
\* CSRF token, and the number of a start for its login token.
Boots == 1..MaxBoots

ASSUME SessionAssumption ==
  /\ BrowserOf \in [Tabs -> Browsers]
  /\ TTL \in Nat /\ MaxTime \in Nat /\ MaxBoots \in Nat \ {0}
  /\ None \notin Ids

VARIABLES
  now,        \* time.Now()
  boot,       \* starts of the process; the current login token
  sessions,   \* a.sessions: ID -> expiry and CSRF token
  cookie,     \* peplink_session cookie of each browser
  page,       \* each tab's page: its CSRF token, and the cookie it was got with
  req,        \* each tab's request
  issued      \* history: expiry and start of every session ever made

vars == <<now, boot, sessions, cookie, page, req, issued>>

Tokens == Ids \cup {None}
Times  == 0..(MaxTime + TTL)

\* "sent" -> "clock" -> an answer, or for a page -> "render" -> "reclock" -> "ok"
Waiting == {"sent", "clock", "render", "reclock"}
Answers == {"none", "ok", "unauthorized", "forbidden"}

Requests == [st : Waiting \cup Answers, kind : {"page", "post"}, cookie : Tokens,
             csrf : Tokens, under : Tokens, at : 0..MaxTime]

TypeOK ==
  /\ now \in 0..MaxTime
  /\ boot \in Boots
  /\ DOMAIN sessions \subseteq Ids
  /\ \A i \in DOMAIN sessions : sessions[i] \in [expires : Times, csrf : Ids]
  /\ cookie \in [Browsers -> Tokens]
  /\ page \in [Tabs -> [csrf : Tokens, under : Tokens]]
  /\ req \in [Tabs -> Requests]
  /\ DOMAIN issued \subseteq Ids
  /\ \A i \in DOMAIN issued : issued[i] \in [expires : Times, boot : Boots]

NoRequest == [st |-> "none", kind |-> "page", cookie |-> None, csrf |-> None,
              under |-> None, at |-> 0]

Init ==
  /\ now = 0
  /\ boot = 1
  /\ sessions = << >>
  /\ cookie = [b \in Browsers |-> None]
  /\ page = [t \in Tabs |-> [csrf |-> None, under |-> None]]
  /\ req = [t \in Tabs |-> NoRequest]
  /\ issued = << >>

----------------------------------------------------------------------------
(* Logging in *)

\* Mutants of setSession: the lifetime is in the wrong unit; a login ends all
\* other sessions.
setSessionUnits(b, id) ==
  /\ sessions' = [i \in DOMAIN sessions \cup {id} |->
                    IF i = id THEN [expires |-> now + 60 * TTL, csrf |-> id] ELSE sessions[i]]
  /\ cookie' = [cookie EXCEPT ![b] = id]
  /\ issued' = [i \in DOMAIN issued \cup {id} |->
                  IF i = id THEN [expires |-> now + TTL, boot |-> boot] ELSE issued[i]]
setSessionAlone(b, id) ==
  /\ sessions' = [i \in {id} |-> [expires |-> now + TTL, csrf |-> id]]
  /\ cookie' = [cookie EXCEPT ![b] = id]
  /\ issued' = [i \in DOMAIN issued \cup {id} |->
                  IF i = id THEN [expires |-> now + TTL, boot |-> boot] ELSE issued[i]]

setSession(b, id) ==
  /\ sessions' = [i \in DOMAIN sessions \cup {id} |->
                    IF i = id THEN [expires |-> now + TTL, csrf |-> id] ELSE sessions[i]]
  /\ cookie' = [cookie EXCEPT ![b] = id]
  /\ issued' = [i \in DOMAIN issued \cup {id} |->
                  IF i = id THEN [expires |-> now + TTL, boot |-> boot] ELSE issued[i]]

Idle(t) == req[t].st \in Answers

\* loginPost with the token that start k logged; matchesToken refuses others.
loginPost(t, k) ==
  /\ Idle(t)
  /\ \/ /\ k = boot
        /\ \E id \in Ids \ DOMAIN issued : setSession(BrowserOf[t], id)
        /\ req' = [req EXCEPT ![t] = NoRequest]
     \/ /\ k # boot
        /\ req' = [req EXCEPT ![t] = [NoRequest EXCEPT !.st = "unauthorized"]]
        /\ UNCHANGED <<sessions, cookie, issued>>
  /\ UNCHANGED <<now, boot, page>>

----------------------------------------------------------------------------
(* Requests *)

\* The tab asks for a page, or its page sends a POST with csrfHeaders().
Send(t, k) ==
  /\ Idle(t)
  /\ req' = [req EXCEPT ![t] =
               [st |-> "sent", kind |-> k, cookie |-> cookie[BrowserOf[t]],
                csrf |-> IF k = "post" THEN page[t].csrf ELSE None,
                under |-> page[t].under, at |-> 0]]
  /\ UNCHANGED <<now, boot, sessions, cookie, page, issued>>

\* sessionForRequest reads the clock, before it waits for a.mu.
ReadClock(t) ==
  /\ req[t].st \in {"sent", "render"}
  /\ req' = [req EXCEPT ![t].st = IF @ = "sent" THEN "clock" ELSE "reclock",
                        ![t].at = now]
  /\ UNCHANGED <<now, boot, sessions, cookie, page, issued>>

\* Mutant of sessionForRequest: the expiry is left to the browser.
sessionWithoutExpiry(r) == r.cookie \in DOMAIN sessions

\* sessionForRequest with a.mu held: r's cookie names a live session.
sessionForRequest(r) ==
  /\ r.cookie \in DOMAIN sessions
  /\ r.at <= sessions[r.cookie].expires

\* Mutants of dropExpired: an expired session stays in the map; a token is good
\* for one POST.
dropExpiredKeeps(r) == UNCHANGED sessions
dropExpiredRotates(r) ==
  sessions' = [i \in {j \in DOMAIN sessions :
                        j = r.cookie => r.at <= sessions[j].expires} |->
                 IF i = r.cookie /\ r.kind = "post"
                 THEN [sessions[i] EXCEPT !.csrf = CHOOSE c \in Ids : c # @] ELSE sessions[i]]

\* It deletes the session if it finds it expired.
dropExpired(r) ==
  sessions' = [i \in {j \in DOMAIN sessions :
                        j = r.cookie => r.at <= sessions[j].expires} |-> sessions[i]]

validCSRF(r) == r.csrf # None /\ r.csrf = sessions[r.cookie].csrf

\* requireAuth, and for a POST the handler behind it
requireAuth(t) ==
  LET r == req[t]
  IN  /\ r.st = "clock"
      /\ dropExpired(r)
      /\ \/ /\ ~sessionForRequest(r)
            /\ req' = [req EXCEPT ![t].st = "unauthorized"]
         \/ /\ sessionForRequest(r) /\ r.kind = "post" /\ ~validCSRF(r)
            /\ req' = [req EXCEPT ![t].st = "forbidden"]
         \/ /\ sessionForRequest(r) /\ r.kind = "post" /\ validCSRF(r)
            /\ req' = [req EXCEPT ![t].st = "ok"]
         \/ /\ sessionForRequest(r) /\ r.kind = "page"
            /\ req' = [req EXCEPT ![t].st = "render"]
      /\ UNCHANGED <<now, boot, cookie, page, issued>>

Rendered(t, token) ==
  /\ page' = [page EXCEPT ![t] = [csrf |-> token, under |-> req[t].cookie]]
  /\ req' = [req EXCEPT ![t].st = "ok"]
  /\ UNCHANGED <<now, boot, cookie, issued>>

\* page: csrfToken looks the session up a second time.
renderPage(t) ==
  /\ req[t].st = "reclock"
  /\ dropExpired(req[t])
  /\ Rendered(t, IF sessionForRequest(req[t]) THEN sessions[req[t].cookie].csrf ELSE None)

----------------------------------------------------------------------------
(* Time, the browser's own expiry, and restarts of the process *)

Tick ==
  /\ now < MaxTime
  /\ now' = now + 1
  /\ UNCHANGED <<boot, sessions, cookie, page, req, issued>>

\* The cookie's Max-Age is over, by the browser's clock.
DropCookie(b) ==
  /\ cookie[b] # None
  /\ now >= issued[cookie[b]].expires
  /\ cookie' = [cookie EXCEPT ![b] = None]
  /\ UNCHANGED <<now, boot, sessions, page, req, issued>>

\* A new token, no sessions, and no answer to the requests in flight.
Restart ==
  /\ boot < MaxBoots
  /\ boot' = boot + 1
  /\ sessions' = << >>
  /\ req' = [t \in Tabs |-> NoRequest]
  /\ UNCHANGED <<now, cookie, page, issued>>

Next ==
  \/ \E t \in Tabs :
       \/ \E k \in Boots : k <= boot /\ loginPost(t, k)
       \/ \E k \in {"page", "post"} : Send(t, k)
       \/ ReadClock(t) \/ requireAuth(t) \/ renderPage(t)
  \/ Tick
  \/ \E b \in Browsers : DropCookie(b)
  \/ Restart

Spec == Init /\ [][Next]_vars

----------------------------------------------------------------------------
(* Properties *)

\* auth.go:63-87, 121-154: an unsafe request reaches its handler only with a
\* session that this start of the process made, which had not expired when the
\* request came in, and with the CSRF token of that very session.
AuthorizedOnly ==
  \A t \in Tabs : req[t].st = "ok" /\ req[t].kind = "post" =>
    /\ req[t].cookie \in DOMAIN issued
    /\ issued[req[t].cookie].boot = boot
    /\ req[t].at <= issued[req[t].cookie].expires
    /\ req[t].csrf = req[t].cookie

\* A session that this start made is in the map until its time is over.
SessionLasts ==
  /\ \A i \in DOMAIN issued : issued[i].boot = boot /\ now <= issued[i].expires
       => i \in DOMAIN sessions
  /\ \A i \in DOMAIN sessions : issued[i] = [expires |-> sessions[i].expires, boot |-> boot]

\* A cookie that a request was refused with has no session, now or later.
RefusalIsFinal ==
  \A t \in Tabs : req[t].st = "unauthorized" => req[t].cookie \notin DOMAIN sessions

\* auth.go:121-138, 156-170: whatever other tabs and browsers do, no request with a
\* live cookie is sent back to the login page; and a cookie that one request was
\* sent back with gets no other one through, not even one that had read the clock
\* before the session's time was over.
SessionLifetime == SessionLasts /\ RefusalIsFinal

\* pages.go:15, auth.go:66-74: a POST from a page is refused for its CSRF token
\* only if the browser's cookie has changed since the page was asked for: a page
\* always works for as long as the session it was served under.
OwnPageWorks ==
  \A t \in Tabs : req[t].st = "forbidden" => req[t].under # req[t].cookie

\* auth_test.go:86-98, TestAuthenticatedPageIncludesCSRFToken: a page that is
\* served to a logged-in browser carries the CSRF token of its session.
PageHasToken ==
  \A t \in Tabs : req[t].st = "ok" /\ req[t].kind = "page" => page[t].csrf # None
==============================================================================
