------------------------------- MODULE Session -------------------------------
(***************************************************************************)
(* The session of one browser: the login, refresh and logout of            *)
(* auth.controller.ts, whose state is the cookies it has the browser keep  *)
(* and the sessions Keycloak keeps, and the client that repeats a request  *)
(* refused with 401 after one refresh shared by the requests of its tab    *)
(* (lib/session/refresh.ts, lib/api.ts, lib/api/apiClient.ts).             *)
(*                                                                         *)
(* An answer changes the cookies when it arrives, not when the server      *)
(* decides it, and every tab sees the same cookies.  A request carries the *)
(* cookies of the moment it is sent.  Keycloak, its realm (no rotation of  *)
(* refresh tokens) and the browser are external.                           *)
(***************************************************************************)
EXTENDS Integers, FiniteSets

CONSTANTS
  Tab, Req, TabsOf, \* tabs, API requests, and the tabs each may be sent from
  MaxLogins,        \* bound: logins begun
  MaxLogouts,       \* bound: logouts
  MaxFaults         \* bound: failures of Keycloak or of the database

ASSUME ConstantsAssumption ==
  /\ TabsOf \in [Req -> (SUBSET Tab) \ {{}}]
  /\ MaxLogins \in Nat /\ MaxLogouts \in Nat /\ MaxFaults \in Nat

\* Keycloak sessions, named for the login that opened each, and no session.
Sid == 1..MaxLogins
None == 0

VARIABLES
  access, refresh,  \* cookies: the session of the token each holds, or None
  begun,            \* cookies oidc_state, oidc_nonce, pkce_verifier: a login, or 0
  logins,           \* logins begun so far
  pages,            \* logins whose Keycloak page is open
  callbacks,        \* requests for /auth/callback under way
  refreshing,       \* tab -> its refreshPromise and the request behind it
  logout,           \* the request for /auth/logout
  req,              \* API requests
  live,             \* sessions Keycloak keeps
  out,              \* whether the browser is logged out
  old,              \* tabs whose refresh was sent before that logout was answered
  logouts, faults

vars == <<access, refresh, begun, logins, pages, callbacks, refreshing, logout, req,
          live, out, old, logouts, faults>>
cookies == <<access, refresh>>
loginVars == <<begun, logins, pages, callbacks>>

\* Requests under way: where they are and the token they carry.  excused: what ends a
\* session happened to the browser since the request was sent.
Quiet == [pc |-> "idle", with |-> None]
Resting(t) == [pc |-> "idle", tab |-> t, with |-> None, excused |-> FALSE]

TypeOK ==
  /\ access \in Sid \cup {None} /\ refresh \in Sid \cup {None}
  /\ logins \in 0..MaxLogins /\ begun \in 0..logins /\ pages \subseteq 1..logins
  /\ callbacks \subseteq 1..logins
  /\ refreshing \in [Tab -> [pc : {"idle", "sent", "granted", "refused", "failed"},
                             with : Sid \cup {None}]]
  /\ logout \in [pc : {"idle", "sent", "done"}, with : Sid \cup {None}]
  /\ req \in [Req -> [pc : {"idle", "sent", "waiting", "again", "unauthorized"}, tab : Tab,
                      with : Sid \cup {None}, excused : BOOLEAN]]
  /\ \A r \in Req : req[r].pc = "waiting" => refreshing[req[r].tab].pc # "idle"
  /\ live \subseteq Sid /\ out \in BOOLEAN /\ old \subseteq Tab
  /\ logouts \in 0..MaxLogouts /\ faults \in 0..MaxFaults

Init ==
  /\ access = None /\ refresh = None
  /\ begun = 0 /\ logins = 0 /\ pages = {} /\ callbacks = {}
  /\ refreshing = [t \in Tab |-> Quiet] /\ logout = Quiet
  /\ req = [r \in Req |-> Resting(CHOOSE t \in TabsOf[r] : TRUE)]
  /\ live = {} /\ out = TRUE /\ old = {}
  /\ logouts = 0 /\ faults = 0

Excuse(rs) == [r \in Req |-> IF r \in rs /\ req[r].pc # "idle"
                             THEN [req[r] EXCEPT !.excused = TRUE] ELSE req[r]]
Fault == faults < MaxFaults /\ faults' = faults + 1

-----------------------------------------------------------------------------
\* Login.  The answer of /auth/login or /auth/login-url sets the cookies of a login and
\* opens its page.
Begin ==
  /\ logins < MaxLogins /\ logins' = logins + 1
  /\ begun' = logins + 1 /\ pages' = pages \cup {logins + 1}
  /\ UNCHANGED <<cookies, callbacks, refreshing, logout, req, live, out, old, logouts, faults>>

LoginCookiesExpire ==
  /\ begun # 0 /\ begun' = 0
  /\ UNCHANGED <<cookies, logins, pages, callbacks, refreshing, logout, req, live, out, old,
                 logouts, faults>>

\* Keycloak sends the browser back with a code; the callback carries the cookies.  With
\* those of another login, or none, it answers /401 without a call of Keycloak.
Return(n) ==
  /\ n \in pages /\ pages' = pages \ {n}
  /\ callbacks' = IF begun = n THEN callbacks \cup {n} ELSE callbacks
  /\ UNCHANGED <<cookies, begun, logins, refreshing, logout, req, live, out, old, logouts,
                 faults>>

\* The answer of a callback whose code Keycloak exchanged for tokens, of a new session or
\* of one the browser has there.  Whatever login the cookies are of by now, they are
\* cleared.
CallbackDone(n, s) ==
  /\ n \in callbacks /\ callbacks' = callbacks \ {n}
  /\ live' = live \cup {s}
  /\ access' = s /\ refresh' = s
  /\ begun' = 0
  /\ out' = FALSE
  /\ req' = Excuse({r \in Req : req[r].with # s})
  /\ UNCHANGED <<logins, pages, refreshing, logout, old, logouts, faults>>

CallbackFails(n) ==
  /\ n \in callbacks /\ callbacks' = callbacks \ {n}
  /\ Fault
  /\ begun' = 0
  /\ UNCHANGED <<cookies, logins, pages, refreshing, logout, req, live, out, old, logouts>>

-----------------------------------------------------------------------------
\* Refresh.  /auth/refresh asks Keycloak with the token the request carries.
Grant(t) ==
  LET s == refreshing[t].with IN
  /\ refreshing[t].pc = "sent"
  /\ s \in live
  /\ refreshing' = [refreshing EXCEPT ![t].pc = "granted"]
  /\ UNCHANGED <<cookies, loginVars, logout, req, live, out, old, logouts, faults>>

\* Without a token or for a session that is over; or because Keycloak fails.
Refuse(t) ==
  LET s == refreshing[t].with IN
  /\ refreshing[t].pc = "sent"
  /\ \/ /\ s \notin live
        /\ refreshing' = [refreshing EXCEPT ![t].pc = "refused"] /\ UNCHANGED faults
     \/ /\ s # None /\ Fault
        /\ refreshing' = [refreshing EXCEPT ![t].pc = "failed"]
  /\ UNCHANGED <<cookies, loginVars, logout, req, live, out, old, logouts>>

\* The answer arrives: refreshPromise is settled and dropped, and the requests that wait
\* for it are sent again, with the new cookie, or fail.
Waiting(t) == {r \in Req : req[r].tab = t /\ req[r].pc = "waiting"}

\* Mistaken: the requests that wait are sent again as they were.
GrantedSameRequest(t) ==
  LET s == refreshing[t].with
      stale == IF s = refresh THEN {} ELSE Req IN
  /\ refreshing[t].pc = "granted"
  /\ access' = s /\ refresh' = s
  /\ refreshing' = [refreshing EXCEPT ![t] = Quiet]
  /\ out' = (out /\ t \notin old) /\ old' = old \ {t}
  /\ req' = [r \in Req |-> IF r \in Waiting(t)
                           THEN [Excuse(stale)[r] EXCEPT !.pc = "again"]
                           ELSE Excuse(stale)[r]]
  /\ UNCHANGED <<loginVars, logout, live, logouts, faults>>

Granted(t) ==
  LET s == refreshing[t].with
      stale == IF s = refresh THEN {} ELSE Req IN
  /\ refreshing[t].pc = "granted"
  /\ access' = s /\ refresh' = s
  /\ refreshing' = [refreshing EXCEPT ![t] = Quiet]
  /\ out' = (out /\ t \notin old) /\ old' = old \ {t}
  /\ req' = [r \in Req |-> IF r \in Waiting(t)
                           THEN [Excuse(stale)[r] EXCEPT !.pc = "again", !.with = s]
                           ELSE Excuse(stale)[r]]
  /\ UNCHANGED <<loginVars, logout, live, logouts, faults>>

\* Mistaken: the requests that wait learn nothing of a refusal.
RefusedSilently(t) ==
  LET s == refreshing[t].with
      stale == IF refreshing[t].pc = "refused" /\ s = refresh THEN {} ELSE Req IN
  /\ refreshing[t].pc \in {"refused", "failed"}
  /\ IF s = None THEN UNCHANGED cookies ELSE access' = None /\ refresh' = None
  /\ refreshing' = [refreshing EXCEPT ![t] = Quiet] /\ old' = old \ {t}
  /\ req' = Excuse(stale)
  /\ UNCHANGED <<loginVars, logout, live, out, logouts, faults>>

\* A refusal clears both cookies, whichever session they are of by now, except the one
\* that had no token.
Refused(t) ==
  LET s == refreshing[t].with
      stale == IF refreshing[t].pc = "refused" /\ s = refresh THEN {} ELSE Req IN
  /\ refreshing[t].pc \in {"refused", "failed"}
  /\ IF s = None THEN UNCHANGED cookies ELSE access' = None /\ refresh' = None
  /\ refreshing' = [refreshing EXCEPT ![t] = Quiet] /\ old' = old \ {t}
  /\ req' = [r \in Req |-> IF r \in Waiting(t)
                           THEN [Excuse(stale)[r] EXCEPT !.pc = "unauthorized"]
                           ELSE Excuse(stale)[r]]
  /\ UNCHANGED <<loginVars, logout, live, out, logouts, faults>>

-----------------------------------------------------------------------------
\* Logout ends the Keycloak session of the cookie as well as it can, then clears the
\* cookies.
Logout ==
  /\ logout.pc = "idle"
  /\ logouts < MaxLogouts /\ logouts' = logouts + 1
  /\ logout' = [pc |-> "sent", with |-> refresh]
  /\ req' = Excuse(Req)
  /\ UNCHANGED <<cookies, loginVars, refreshing, live, out, old, faults>>

EndSession ==
  /\ logout.pc = "sent" /\ logout' = [logout EXCEPT !.pc = "done"]
  /\ \/ live' = live \ {logout.with} /\ UNCHANGED faults
     \/ Fault /\ UNCHANGED live
  /\ UNCHANGED <<cookies, loginVars, refreshing, req, out, old, logouts>>

\* Mistaken: the cookies are cleared when Keycloak has ended the session only.
LoggedOutIfEnded ==
  /\ logout.pc = "done" /\ logout' = Quiet
  /\ IF logout.with \notin live THEN access' = None /\ refresh' = None ELSE UNCHANGED cookies
  /\ req' = Excuse(Req)
  /\ out' = TRUE /\ old' = {t \in Tab : refreshing[t].pc # "idle"}
  /\ UNCHANGED <<loginVars, refreshing, live, logouts, faults>>

LoggedOut ==
  /\ logout.pc = "done" /\ logout' = Quiet
  /\ access' = None /\ refresh' = None
  /\ req' = Excuse(Req)
  /\ out' = TRUE /\ old' = {t \in Tab : refreshing[t].pc # "idle"}
  /\ UNCHANGED <<loginVars, refreshing, live, logouts, faults>>

-----------------------------------------------------------------------------
\* Time: the access cookie is gone before its token expires; the refresh cookie and the
\* session at Keycloak end together.
AccessExpires ==
  /\ access # None /\ access' = None
  /\ UNCHANGED <<refresh, loginVars, refreshing, logout, req, live, out, old, logouts, faults>>

SessionExpires(s) ==
  /\ s \in live /\ live' = live \ {s}
  /\ refresh' = IF refresh = s THEN None ELSE refresh
  /\ req' = Excuse(Req)
  /\ UNCHANGED <<access, loginVars, refreshing, logout, out, old, logouts, faults>>

-----------------------------------------------------------------------------
\* An API request.  The guard takes an access token for what it says, whatever became of
\* its session, and answers 401 when the database fails it too.
SendReq(r, t) ==
  /\ req[r].pc \in {"idle", "unauthorized"}
  /\ req' = [req EXCEPT ![r] = [pc |-> "sent", tab |-> t, with |-> access,
                                excused |-> refresh \notin live
                                              \/ logout.pc # "idle"]]
  /\ UNCHANGED <<cookies, loginVars, refreshing, logout, live, out, old, logouts, faults>>

Ok(r) ==
  /\ req[r].pc \in {"sent", "again"} /\ req[r].with # None
  /\ req' = [req EXCEPT ![r] = Resting(@.tab)]
  /\ UNCHANGED <<cookies, loginVars, refreshing, logout, live, out, old, logouts, faults>>

Unauthorized(r) ==
  \/ req[r].with = None /\ UNCHANGED faults
  \/ req[r].with # None /\ Fault

\* The first 401 starts a refresh unless the tab has one under way.
FirstUnauthorized(r) ==
  LET t == req[r].tab IN
  /\ req[r].pc = "sent" /\ Unauthorized(r)
  /\ req' = [req EXCEPT ![r] = [@ EXCEPT !.pc = "waiting", !.with = None]]
  /\ refreshing' = IF refreshing[t].pc = "idle"
                   THEN [refreshing EXCEPT ![t] = [pc |-> "sent", with |-> refresh]]
                   ELSE refreshing
  /\ UNCHANGED <<cookies, loginVars, logout, live, out, old, logouts>>

\* The second surfaces.
SecondUnauthorized(r) ==
  /\ req[r].pc = "again" /\ Unauthorized(r)
  /\ req' = [req EXCEPT ![r] = [req[r] EXCEPT !.pc = "unauthorized", !.with = None,
                                                !.excused = @ \/ req[r].with # None]]
  /\ UNCHANGED <<cookies, loginVars, refreshing, logout, live, out, old, logouts>>

-----------------------------------------------------------------------------
Answer(r) == Ok(r) \/ FirstUnauthorized(r) \/ SecondUnauthorized(r)
AnswerRefresh(t) == Grant(t) \/ Refuse(t) \/ Granted(t) \/ Refused(t)

Next ==
  \/ Begin \/ LoginCookiesExpire
  \/ \E n \in pages : Return(n)
  \/ \E n \in callbacks : CallbackFails(n) \/ \E s \in live \cup {n} : CallbackDone(n, s)
  \/ \E t \in Tab : AnswerRefresh(t)
  \/ Logout \/ EndSession \/ LoggedOut
  \/ AccessExpires \/ \E s \in live : SessionExpires(s)
  \/ \E r \in Req : Answer(r) \/ \E t \in TabsOf[r] : SendReq(r, t)

Spec == Init /\ [][Next]_vars

\* Every request is answered.
Fairness == /\ \A r \in Req : WF_vars(Answer(r))
            /\ \A t \in Tab : WF_vars(AnswerRefresh(t))

FairSpec == Spec /\ Fairness

-----------------------------------------------------------------------------
\* A request of a browser with a session fails with 401 only when a logout, a login or
\* the end of the session comes between, when Keycloak or the database fails, or when
\* a refresh older than the session is answered.  That the access token has expired
\* never is a reason.
SessionCarriesRequests ==
  \A r \in Req : req[r].pc = "unauthorized" => req[r].excused

\* A logout leaves no cookie behind, whether or not Keycloak could be told of it, and
\* nothing but a login or a refresh sent before the logout brings one back.
LoggedOutStaysOut == out => access = None /\ refresh = None

\* Every request ends, whatever the refreshes of the other tabs do.
RequestsSettle ==
  \A r \in Req : req[r].pc \in {"sent", "waiting", "again"}
                   ~> req[r].pc \in {"idle", "unauthorized"}
=============================================================================
