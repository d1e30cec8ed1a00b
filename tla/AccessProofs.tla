---------------------------- MODULE AccessProofs ----------------------------
(***************************************************************************)
(* Proofs about what a request meets on its way: the session it is sent    *)
(* under (Session), the limit it is counted against (Throttle), and the    *)
(* briefing it may be answered with from the cache (Briefing).             *)
(***************************************************************************)
EXTENDS Session, Throttle, Briefing, TLAPS

-----------------------------------------------------------------------------
(***************************************************************************)
(* Session: a request that nothing excuses has a session behind it all the *)
(* while, so that the refresh it waits for is not refused; and after a     *)
(* logout no refresh under way carries a token, but for those that are     *)
(* known to be older.                                                      *)
(***************************************************************************)

RequestRow == [pc : {"idle", "sent", "waiting", "again", "unauthorized"}, tab : Tab,
               with : Sid \cup {None}, excused : BOOLEAN]

\* Logins whose callback has been answered: those a session can be of.  A session that has
\* ended does not come back, because its login is not answered again.
Spent == (1..logins) \ (pages \cup callbacks)

Tokens ==
  /\ pages \cap callbacks = {}
  /\ live \subseteq Spent
  /\ {access, refresh} \subseteq Spent \cup {None}
  /\ logout.with \in Spent \cup {None}
  /\ \A t \in Tab : refreshing[t].with \in Spent \cup {None}

\* What is known of a tab's refresh when its answer has been decided.
RefreshIsGood(t) ==
  /\ refreshing[t].pc = "idle" => refreshing[t].with = None
  /\ refreshing[t].pc = "granted" => refreshing[t].with # None
  /\ refreshing[t].pc = "refused" => refreshing[t].with \notin live

\* A request that is under way without an excuse.
Carried(r) == req[r].pc # "idle" /\ ~req[r].excused
RequestIsGood(r) ==
  /\ Carried(r) => /\ req[r].pc # "unauthorized"
                   /\ refresh \in live /\ logout.pc = "idle"
  /\ req[r].pc = "again" => req[r].with # None

\* A browser that is logged out has no cookie, and no refresh under way has one.
OutIsOut ==
  out => /\ access = None /\ refresh = None
         /\ \A t \in Tab \ old : refreshing[t].with = None

IInv ==
  /\ TypeOK
  /\ Tokens
  /\ \A t \in Tab : RefreshIsGood(t)
  /\ \A r \in Req : RequestIsGood(r)
  /\ OutIsOut

\* An excuse changes nothing else of a request.
LEMMA Excused ==
  ASSUME TypeOK, NEW rs
  PROVE  /\ Excuse(rs) \in [Req -> RequestRow]
         /\ \A r \in Req :
              LET after == Excuse(rs)[r] IN
              /\ after.pc = req[r].pc /\ after.tab = req[r].tab /\ after.with = req[r].with
              /\ req[r].excused => after.excused
              /\ r \in rs /\ req[r].pc # "idle" => after.excused
  BY ZenonT(40) DEF Excuse, TypeOK, RequestRow

LEMMA BeginKeeps == ASSUME IInv, Begin PROVE IInv'
  BY ConstantsAssumption DEF Begin, cookies, loginVars, IInv, TypeOK, Tokens, Spent,
     RefreshIsGood, RequestIsGood, Carried, OutIsOut, Sid, None

LEMMA LoginCookiesExpireKeeps == ASSUME IInv, LoginCookiesExpire PROVE IInv'
  BY ConstantsAssumption DEF LoginCookiesExpire, cookies, loginVars, IInv, TypeOK, Tokens,
     Spent, RefreshIsGood, RequestIsGood, Carried, OutIsOut, Sid, None

LEMMA ReturnKeeps == ASSUME IInv, NEW n \in pages, Return(n) PROVE IInv'
  BY ConstantsAssumption DEF Return, cookies, loginVars, IInv, TypeOK, Tokens, Spent,
     RefreshIsGood, RequestIsGood, Carried, OutIsOut, Sid, None

LEMMA CallbackDoneKeeps ==
  ASSUME IInv, NEW n \in callbacks, NEW s \in live \cup {n}, CallbackDone(n, s)
  PROVE  IInv'
  <1>1. TypeOK'
    <2>1. s \in Sid
      BY ConstantsAssumption DEF IInv, TypeOK, Sid
    <2>2. req' \in [Req -> RequestRow] /\ \A r \in Req : req'[r].pc = req[r].pc /\ req'[r].tab = req[r].tab
      <3>1. req' = Excuse({r \in Req : req[r].with # s})
        BY DEF CallbackDone
      <3> QED BY <3>1, Excused DEF IInv
    <2>3. \A r \in Req : req'[r].pc = "waiting" => refreshing'[req'[r].tab].pc # "idle"
      BY <2>2 DEF CallbackDone, IInv, TypeOK
    <2>4. /\ access' \in Sid \cup {None} /\ refresh' \in Sid \cup {None} /\ live' \subseteq Sid
          /\ callbacks' \subseteq 1..logins
      BY <2>1 DEF CallbackDone, IInv, TypeOK
    <2>5. logins \in 0..MaxLogins /\ MaxLogins \in Nat
      BY ConstantsAssumption DEF IInv, TypeOK
    <2>6. begun' \in 0..logins'
      BY <2>5 DEF CallbackDone
    <2>7. out' \in BOOLEAN
      BY DEF CallbackDone
    <2> QED BY <2>2, <2>3, <2>4, <2>6, <2>7 DEF CallbackDone, IInv, TypeOK, RequestRow
  <1>2. Tokens'
    BY ConstantsAssumption DEF CallbackDone, cookies, loginVars, IInv, TypeOK, Tokens, Spent,
       Sid, None
  <1>3. \A u \in Tab : RefreshIsGood(u)'
    BY DEF CallbackDone, cookies, loginVars, IInv, TypeOK, Tokens, Spent, RefreshIsGood, Sid, None
  <1>4. \A q \in Req : RequestIsGood(q)'
    BY Excused, ConstantsAssumption DEF CallbackDone, cookies, loginVars, IInv, TypeOK, Tokens,
       Spent, RefreshIsGood, RequestIsGood, Carried, Sid, None
  <1>5. OutIsOut'
    BY DEF CallbackDone, cookies, loginVars, IInv, TypeOK, RefreshIsGood, OutIsOut, Sid, None
  <1> QED BY <1>1, <1>2, <1>3, <1>4, <1>5 DEF IInv

LEMMA CallbackFailsKeeps == ASSUME IInv, NEW n \in callbacks, CallbackFails(n) PROVE IInv'
  BY ConstantsAssumption DEF CallbackFails, Fault, cookies, loginVars, IInv, TypeOK, Tokens,
     Spent, RefreshIsGood, RequestIsGood, Carried, OutIsOut, Sid, None

LEMMA GrantKeeps == ASSUME IInv, NEW t \in Tab, Grant(t) PROVE IInv'
  BY ConstantsAssumption DEF Grant, cookies, loginVars, IInv, TypeOK, Tokens, Spent,
     RefreshIsGood, RequestIsGood, Carried, OutIsOut, Sid, None

LEMMA RefuseKeeps == ASSUME IInv, NEW t \in Tab, Refuse(t) PROVE IInv'
  <1>a. PICK pc \in {"refused", "failed"} :
          /\ refreshing' = [refreshing EXCEPT ![t].pc = pc]
          /\ pc = "refused" => refreshing[t].with \notin live
          /\ refreshing[t].pc = "sent"
    BY DEF Refuse
  <1>b. /\ UNCHANGED <<access, refresh, begun, logins, pages, callbacks, logout, req, live,
                       out, old, logouts>>
        /\ faults' \in 0..MaxFaults
    BY ConstantsAssumption DEF Refuse, Fault, cookies, loginVars, IInv, TypeOK
  <1>c. /\ refreshing' \in [Tab -> [pc : {"idle", "sent", "granted", "refused", "failed"},
                                    with : Sid \cup {None}]]
        /\ \A u \in Tab : /\ refreshing'[u].with = refreshing[u].with
                           /\ refreshing'[u].pc = IF u = t THEN pc ELSE refreshing[u].pc
    BY <1>a DEF IInv, TypeOK
  <1>1. TypeOK'
    BY <1>a, <1>b, <1>c DEF IInv, TypeOK
  <1>2. Tokens'
    BY <1>b, <1>c DEF IInv, Tokens, Spent
  <1>3. \A u \in Tab : RefreshIsGood(u)'
    BY <1>a, <1>b, <1>c DEF IInv, RefreshIsGood
  <1>4. \A q \in Req : RequestIsGood(q)'
    BY <1>b DEF IInv, RequestIsGood, Carried
  <1>5. OutIsOut'
    BY <1>b, <1>c DEF IInv, OutIsOut
  <1> QED BY <1>1, <1>2, <1>3, <1>4, <1>5 DEF IInv

LEMMA GrantedKeeps == ASSUME IInv, NEW t \in Tab, Granted(t) PROVE IInv'
  <1> DEFINE s == refreshing[t].with
             stale == IF s = refresh THEN {} ELSE Req
  <1>a. /\ s \in Sid /\ s \in Spent
        /\ access' = s /\ refresh' = s
        /\ refreshing' = [refreshing EXCEPT ![t] = [pc |-> "idle", with |-> None]]
        /\ UNCHANGED <<begun, logins, pages, callbacks, logout, live, logouts, faults>>
        /\ out' \in BOOLEAN /\ old' \subseteq Tab
    BY DEF Granted, loginVars, Quiet, IInv, TypeOK, Tokens, RefreshIsGood, None
  <1>b. /\ req' \in [Req -> RequestRow]
        /\ \A r \in Req :
             /\ req'[r].tab = req[r].tab
             /\ r \in Waiting(t) => req'[r].pc = "again" /\ req'[r].with = s
             /\ r \notin Waiting(t) => req'[r].pc = req[r].pc /\ req'[r].with = req[r].with
             /\ req[r].excused => req'[r].excused
             /\ r \in stale /\ req[r].pc # "idle" => req'[r].excused
    <2>1. req' = [r \in Req |-> IF r \in Waiting(t)
                               THEN [Excuse(stale)[r] EXCEPT !.pc = "again", !.with = s]
                               ELSE Excuse(stale)[r]]
      BY DEF Granted
    <2>2. /\ Excuse(stale) \in [Req -> RequestRow]
          /\ \A r \in Req :
               LET after == Excuse(stale)[r] IN
               /\ after.pc = req[r].pc /\ after.tab = req[r].tab /\ after.with = req[r].with
               /\ req[r].excused => after.excused
               /\ r \in stale /\ req[r].pc # "idle" => after.excused
      BY Excused DEF IInv
    <2> HIDE DEF s, stale
    <2>3. ASSUME NEW r \in Req
          PROVE  /\ req'[r] \in RequestRow /\ req'[r].tab = req[r].tab
                 /\ r \in Waiting(t) => req'[r].pc = "again" /\ req'[r].with = s
                 /\ r \notin Waiting(t) => req'[r].pc = req[r].pc /\ req'[r].with = req[r].with
                 /\ req[r].excused => req'[r].excused
                 /\ r \in stale /\ req[r].pc # "idle" => req'[r].excused
      <3>1. CASE r \in Waiting(t)
        <4>1. req'[r] = [Excuse(stale)[r] EXCEPT !.pc = "again", !.with = s]
          BY <2>1, <3>1
        <4>2. Excuse(stale)[r] \in RequestRow
          BY <2>2
        <4> QED BY <1>a, <2>2, <3>1, <4>1, <4>2 DEF RequestRow
      <3>2. CASE r \notin Waiting(t)
        BY <2>1, <2>2, <3>2
      <3> QED BY <3>1, <3>2
    <2> QED BY <2>1, <2>3
  <1>1. TypeOK'
    BY <1>a, <1>b DEF IInv, TypeOK, Waiting, RequestRow
  <1>2. Tokens'
    BY <1>a DEF IInv, TypeOK, Tokens, Spent, None
  <1>3. \A u \in Tab : RefreshIsGood(u)'
    BY DEF Granted, Waiting, Quiet, cookies, loginVars, IInv, TypeOK, Tokens, Spent,
       RefreshIsGood, Sid, None
  <1>4. \A q \in Req : RequestIsGood(q)'
    BY <1>a, <1>b DEF IInv, TypeOK, RequestIsGood, Carried, Waiting, None, Sid
  <1>5. OutIsOut'
    BY DEF Granted, Waiting, Quiet, cookies, loginVars, IInv, TypeOK, RefreshIsGood, OutIsOut,
       Sid, None
  <1> QED BY <1>1, <1>2, <1>3, <1>4, <1>5 DEF IInv

LEMMA RefusedKeeps == ASSUME IInv, NEW t \in Tab, Refused(t) PROVE IInv'
  <1> DEFINE stale == IF refreshing[t].pc = "refused" /\ refreshing[t].with = refresh
                      THEN {} ELSE Req
  <1>1. TypeOK'
    <2>1. req' = [r \in Req |-> IF r \in Waiting(t)
                               THEN [Excuse(stale)[r] EXCEPT !.pc = "unauthorized"]
                               ELSE Excuse(stale)[r]]
      BY DEF Refused
    <2>2. /\ Excuse(stale) \in [Req -> RequestRow]
          /\ \A r \in Req : /\ Excuse(stale)[r].pc = req[r].pc
                            /\ Excuse(stale)[r].tab = req[r].tab
      BY Excused DEF IInv
    <2> HIDE DEF stale
    <2>3. ASSUME NEW r \in Req
          PROVE  /\ req'[r] \in RequestRow
                 /\ req'[r].pc = "waiting" =>
                      req[r].pc = "waiting" /\ req'[r].tab = req[r].tab /\ req[r].tab # t
      <3>1. CASE r \in Waiting(t)
        <4>1. req'[r] = [Excuse(stale)[r] EXCEPT !.pc = "unauthorized"]
          BY <2>1, <3>1
        <4> QED BY <2>2, <4>1 DEF RequestRow
      <3>2. CASE r \notin Waiting(t)
        BY <2>1, <2>2, <3>2 DEF Waiting
      <3> QED BY <3>1, <3>2
    <2>4. req' \in [Req -> RequestRow]
      BY <2>1, <2>3
    <2>5. /\ refreshing' = [refreshing EXCEPT ![t] = [pc |-> "idle", with |-> None]]
          /\ access' \in Sid \cup {None} /\ refresh' \in Sid \cup {None} /\ old' \subseteq Tab
          /\ UNCHANGED <<begun, logins, pages, callbacks, logout, live, out, logouts, faults>>
      BY DEF Refused, Quiet, cookies, loginVars, IInv, TypeOK
    <2>6. \A r \in Req : req'[r].pc = "waiting" => refreshing'[req'[r].tab].pc # "idle"
      BY <2>3, <2>5 DEF IInv, TypeOK
    <2> QED BY <2>4, <2>5, <2>6 DEF IInv, TypeOK, RequestRow
  <1>2. Tokens'
    BY ConstantsAssumption DEF Refused, Waiting, Quiet, cookies, loginVars, IInv, TypeOK,
       Tokens, Spent, Sid, None
  <1>3. \A u \in Tab : RefreshIsGood(u)'
    BY DEF Refused, Waiting, Quiet, cookies, loginVars, IInv, TypeOK, Tokens, Spent,
       RefreshIsGood, Sid, None
  <1>4. \A q \in Req : RequestIsGood(q)'
    BY Excused, ConstantsAssumption DEF Refused, Waiting, Quiet, cookies, loginVars, IInv,
       TypeOK, Tokens, Spent, RefreshIsGood, RequestIsGood, Carried, Sid, None
  <1>5. OutIsOut'
    BY DEF Refused, Waiting, Quiet, cookies, loginVars, IInv, TypeOK, RefreshIsGood, OutIsOut,
       Sid, None
  <1> QED BY <1>1, <1>2, <1>3, <1>4, <1>5 DEF IInv

LEMMA LogoutKeeps == ASSUME IInv, Logout PROVE IInv'
  <1>1. TypeOK'
    BY Excused, ConstantsAssumption DEF Logout, cookies, loginVars, IInv, TypeOK, Sid, None,
       RequestRow
  <1>2. Tokens'
    BY ConstantsAssumption DEF Logout, cookies, loginVars, IInv, TypeOK, Tokens, Spent, Sid, None
  <1>3. \A u \in Tab : RefreshIsGood(u)'
    BY DEF Logout, cookies, loginVars, IInv, TypeOK, Tokens, Spent, RefreshIsGood, Sid, None
  <1>4. \A q \in Req : RequestIsGood(q)'
    BY Excused, ConstantsAssumption DEF Logout, cookies, loginVars, IInv, TypeOK, Tokens, Spent,
       RefreshIsGood, RequestIsGood, Carried, Sid, None
  <1>5. OutIsOut'
    BY DEF Logout, cookies, loginVars, IInv, TypeOK, RefreshIsGood, OutIsOut, Sid, None
  <1> QED BY <1>1, <1>2, <1>3, <1>4, <1>5 DEF IInv

LEMMA EndSessionKeeps == ASSUME IInv, EndSession PROVE IInv'
  <1>1. TypeOK'
    BY ConstantsAssumption DEF EndSession, Fault, cookies, loginVars, IInv, TypeOK
  <1>2. Tokens'
    BY DEF EndSession, cookies, loginVars, IInv, TypeOK, Tokens, Spent
  <1>3. \A u \in Tab : RefreshIsGood(u)'
    BY DEF EndSession, IInv, RefreshIsGood
  <1>4. \A q \in Req : RequestIsGood(q)'
    BY DEF EndSession, cookies, IInv, TypeOK, RequestIsGood, Carried
  <1>5. OutIsOut'
    BY DEF EndSession, cookies, IInv, OutIsOut
  <1> QED BY <1>1, <1>2, <1>3, <1>4, <1>5 DEF IInv

LEMMA LoggedOutKeeps == ASSUME IInv, LoggedOut PROVE IInv'
  <1>1. TypeOK'
    BY Excused, ConstantsAssumption DEF LoggedOut, Quiet, cookies, loginVars, IInv, TypeOK, Sid,
       None, RequestRow
  <1>2. Tokens'
    BY ConstantsAssumption DEF LoggedOut, Quiet, cookies, loginVars, IInv, TypeOK, Tokens,
       Spent, Sid, None
  <1>3. \A u \in Tab : RefreshIsGood(u)'
    BY DEF LoggedOut, Quiet, cookies, loginVars, IInv, TypeOK, Tokens, Spent, RefreshIsGood,
       Sid, None
  <1>4. \A q \in Req : RequestIsGood(q)'
    BY Excused, ConstantsAssumption DEF LoggedOut, Quiet, cookies, loginVars, IInv, TypeOK,
       Tokens, Spent, RefreshIsGood, RequestIsGood, Carried, Sid, None
  <1>5. OutIsOut'
    BY DEF LoggedOut, Quiet, cookies, loginVars, IInv, TypeOK, RefreshIsGood, OutIsOut, Sid, None
  <1> QED BY <1>1, <1>2, <1>3, <1>4, <1>5 DEF IInv

LEMMA AccessExpiresKeeps == ASSUME IInv, AccessExpires PROVE IInv'
  BY ConstantsAssumption DEF AccessExpires, cookies, loginVars, IInv, TypeOK, Tokens, Spent,
     RefreshIsGood, RequestIsGood, Carried, OutIsOut, Sid, None

LEMMA SessionExpiresKeeps == ASSUME IInv, NEW s \in live, SessionExpires(s) PROVE IInv'
  <1>1. TypeOK'
    BY Excused, ConstantsAssumption DEF SessionExpires, cookies, loginVars, IInv, TypeOK, Sid,
       None, RequestRow
  <1>2. Tokens'
    BY ConstantsAssumption DEF SessionExpires, cookies, loginVars, IInv, TypeOK, Tokens, Spent,
       Sid, None
  <1>3. \A u \in Tab : RefreshIsGood(u)'
    BY DEF SessionExpires, cookies, loginVars, IInv, TypeOK, Tokens, Spent, RefreshIsGood, Sid,
       None
  <1>4. \A q \in Req : RequestIsGood(q)'
    BY Excused, ConstantsAssumption DEF SessionExpires, cookies, loginVars, IInv, TypeOK,
       Tokens, Spent, RefreshIsGood, RequestIsGood, Carried, Sid, None
  <1>5. OutIsOut'
    BY DEF SessionExpires, cookies, loginVars, IInv, TypeOK, RefreshIsGood, OutIsOut, Sid, None
  <1> QED BY <1>1, <1>2, <1>3, <1>4, <1>5 DEF IInv

LEMMA SendReqKeeps == ASSUME IInv, NEW r \in Req, NEW t \in TabsOf[r], SendReq(r, t) PROVE IInv'
  BY ZenonT(40), ConstantsAssumption DEF SendReq, cookies, loginVars, IInv, TypeOK, Tokens, Spent,
     RefreshIsGood, RequestIsGood, Carried, OutIsOut, Sid, None

LEMMA OkKeeps == ASSUME IInv, NEW r \in Req, Ok(r) PROVE IInv'
  BY ConstantsAssumption DEF Ok, Resting, cookies, loginVars, IInv, TypeOK, Tokens, Spent,
     RefreshIsGood, RequestIsGood, Carried, OutIsOut, Sid, None

LEMMA FirstUnauthorizedKeeps == ASSUME IInv, NEW r \in Req, FirstUnauthorized(r) PROVE IInv'
  <1>1. TypeOK'
    <2>1. req[r].tab \in Tab /\ refresh \in Sid \cup {None}
      BY DEF IInv, TypeOK
    <2>a. req \in [Req -> RequestRow]
      BY DEF IInv, TypeOK, RequestRow
    <2>b. req' = [req EXCEPT ![r] = [req[r] EXCEPT !.pc = "waiting", !.with = None]]
      BY DEF FirstUnauthorized
    <2>2. req' \in [Req -> RequestRow] /\ \A q \in Req : req'[q].tab = req[q].tab /\ (q # r => req'[q].pc = req[q].pc)
      BY <2>a, <2>b DEF RequestRow, None, Sid
    <2>3. /\ refreshing' \in [Tab -> [pc : {"idle", "sent", "granted", "refused", "failed"},
                                      with : Sid \cup {None}]]
          /\ refreshing'[req[r].tab].pc # "idle"
          /\ \A t \in Tab : refreshing[t].pc # "idle" => refreshing'[t].pc # "idle"
      BY <2>1 DEF FirstUnauthorized, IInv, TypeOK
    <2>4. faults' \in 0..MaxFaults
      BY ConstantsAssumption DEF FirstUnauthorized, Unauthorized, Fault, IInv, TypeOK
    <2> QED BY <2>2, <2>3, <2>4 DEF FirstUnauthorized, cookies, loginVars, IInv, TypeOK,
               RequestRow
  <1>2. Tokens'
    BY ConstantsAssumption DEF FirstUnauthorized, Unauthorized, Fault, cookies, loginVars, IInv,
       TypeOK, Tokens, Spent, Sid, None
  <1>3. \A u \in Tab : RefreshIsGood(u)'
    BY DEF FirstUnauthorized, Unauthorized, Fault, cookies, loginVars, IInv, TypeOK, Tokens,
       Spent, RefreshIsGood, Sid, None
  <1>4. \A q \in Req : RequestIsGood(q)'
    BY ConstantsAssumption DEF FirstUnauthorized, Unauthorized, Fault, cookies, loginVars, IInv,
       TypeOK, Tokens, Spent, RefreshIsGood, RequestIsGood, Carried, Sid, None
  <1>5. OutIsOut'
    BY DEF FirstUnauthorized, Unauthorized, Fault, cookies, loginVars, IInv, TypeOK,
       RefreshIsGood, OutIsOut, Sid, None
  <1> QED BY <1>1, <1>2, <1>3, <1>4, <1>5 DEF IInv

LEMMA SecondUnauthorizedKeeps == ASSUME IInv, NEW r \in Req, SecondUnauthorized(r) PROVE IInv'
  <1>1. TypeOK'
    <2>1. req' \in [Req -> RequestRow] /\ \A q \in Req : req'[q].pc = "waiting" => req'[q] = req[q]
      <3>1. req' = [req EXCEPT ![r] = [req[r] EXCEPT !.pc = "unauthorized", !.with = None,
                                          !.excused = req[r].excused \/ req[r].with # None]]
        BY DEF SecondUnauthorized
      <3>2. req[r] \in RequestRow /\ req \in [Req -> RequestRow]
        BY DEF IInv, TypeOK, RequestRow
      <3>3. [req[r] EXCEPT !.pc = "unauthorized", !.with = None,
                           !.excused = req[r].excused \/ req[r].with # None] \in RequestRow
        BY <3>2 DEF RequestRow
      <3> QED BY <3>1, <3>2, <3>3
    <2>2. faults' \in 0..MaxFaults
      BY ConstantsAssumption DEF SecondUnauthorized, Unauthorized, Fault, IInv, TypeOK
    <2> QED BY <2>1, <2>2 DEF SecondUnauthorized, cookies, loginVars, IInv, TypeOK, RequestRow
  <1>2. Tokens'
    BY ConstantsAssumption DEF SecondUnauthorized, Unauthorized, Fault, cookies, loginVars,
       IInv, TypeOK, Tokens, Spent, Sid, None
  <1>3. \A u \in Tab : RefreshIsGood(u)'
    BY DEF SecondUnauthorized, Unauthorized, Fault, cookies, loginVars, IInv, TypeOK, Tokens,
       Spent, RefreshIsGood, Sid, None
  <1>4. \A q \in Req : RequestIsGood(q)'
    <2>1. req[r].with # None /\ req[r].pc = "again"
      BY DEF SecondUnauthorized, IInv, RequestIsGood
    <2>2. req'[r].excused /\ req'[r].pc = "unauthorized" /\ \A q \in Req \ {r} : req'[q] = req[q]
      BY <2>1 DEF SecondUnauthorized, IInv, TypeOK
    <2> QED BY <2>2 DEF SecondUnauthorized, cookies, IInv, RequestIsGood, Carried
  <1>5. OutIsOut'
    BY DEF SecondUnauthorized, Unauthorized, Fault, cookies, loginVars, IInv, TypeOK,
       RefreshIsGood, OutIsOut, Sid, None
  <1> QED BY <1>1, <1>2, <1>3, <1>4, <1>5 DEF IInv

-----------------------------------------------------------------------------
LEMMA Inductive == Spec => []IInv
<1>1. Init => IInv
  <2> SUFFICES ASSUME Init PROVE IInv
    OBVIOUS
  <2>1. TypeOK
    <3>1. \A r \in Req : (CHOOSE t \in TabsOf[r] : TRUE) \in Tab
      BY ConstantsAssumption
    <3> QED BY <3>1, ConstantsAssumption DEF Init, TypeOK, Quiet, Resting, Sid, None
  <2> QED BY <2>1 DEF Init, IInv, Tokens, Spent, RefreshIsGood, RequestIsGood, Carried, OutIsOut,
                      Quiet, Resting, None
<1>2. IInv /\ [Next]_vars => IInv'
  <2> SUFFICES ASSUME IInv, [Next]_vars PROVE IInv'
    OBVIOUS
  <2>1. CASE UNCHANGED vars
    BY <2>1 DEF vars, IInv, TypeOK, Tokens, Spent, RefreshIsGood, RequestIsGood, Carried, OutIsOut
  <2>2. ASSUME NEW t \in Tab, AnswerRefresh(t) PROVE IInv'
    BY <2>2, GrantKeeps, RefuseKeeps, GrantedKeeps, RefusedKeeps DEF AnswerRefresh
  <2>3. ASSUME NEW r \in Req, Answer(r) PROVE IInv'
    BY <2>3, OkKeeps, FirstUnauthorizedKeeps, SecondUnauthorizedKeeps DEF Answer
  <2>4. CASE Next
    BY <2>4, <2>2, <2>3, BeginKeeps, LoginCookiesExpireKeeps, ReturnKeeps, CallbackDoneKeeps,
       CallbackFailsKeeps, LogoutKeeps, EndSessionKeeps, LoggedOutKeeps, AccessExpiresKeeps,
       SessionExpiresKeeps, SendReqKeeps DEF Next
  <2> QED BY <2>1, <2>4
<1> QED BY <1>1, <1>2, PTL DEF Spec

\* The state of the browser and of Keycloak is always of the types stated
\* (auth.controller.ts, lib/session/refresh.ts).
THEOREM TypeCorrect == Spec => []TypeOK
<1>1. IInv => TypeOK
  BY DEF IInv
<1> QED BY <1>1, Inductive, PTL

\* A request fails with 401 only for a logout, a login, an end of the session or a failure
\* after it was sent, for any number of tabs, requests and logins: until then the refresh it
\* waits for is of a session that lives (refresh.ts, apiClient.ts, auth.controller.ts).
THEOREM CarriesCorrect == Spec => []SessionCarriesRequests
<1>1. IInv => SessionCarriesRequests
  BY DEF IInv, RequestIsGood, Carried, SessionCarriesRequests
<1> QED BY <1>1, Inductive, PTL

\* After a logout there is no cookie until a login, or the answer of a refresh sent before,
\* sets one: a refresh that was sent later carries no token (auth.controller.ts).
THEOREM LoggedOutCorrect == Spec => []LoggedOutStaysOut
<1>1. IInv => LoggedOutStaysOut
  BY DEF IInv, OutIsOut, LoggedOutStaysOut
<1> QED BY <1>1, Inductive, PTL

-----------------------------------------------------------------------------
(***************************************************************************)
(* Throttle: whatever expires between the commands of concurrent requests, *)
(* a counter without expiry has a request about to give it one, unless a   *)
(* failure took that request away.                                         *)
(***************************************************************************)

Request == [pc : Pc, blockTtl : 0..Block, ttlBefore : -2..Window, total : 0..Limit + 1]

\* A counter without expiry has a request about to set one.
WindowIsComing ==
  hits.count > 0 /\ hits.ttl = -1 /\ ~broken => \E p \in Served : At(p, "pexpire")

ThrottleInv == ThrottleTypeOK /\ served \in [Served -> Request] /\ WindowIsComing

LEMMA NoRequestIsOne == NoRequest \in Request
  BY ThrottleAssumption DEF NoRequest, Request, Pc

\* A request that has read the time left of its counter, or counted its hit, is one.
LEMMA RequestGoes ==
  ASSUME NEW r \in Request
  PROVE  /\ \A ttl \in -2..Window : [r EXCEPT !.pc = "incr", !.ttlBefore = ttl] \in Request
         /\ \A total \in 0..Limit + 1 : [r EXCEPT !.pc = "pexpire", !.total = total] \in Request
  <1>1. ASSUME NEW ttl \in -2..Window
        PROVE  [r EXCEPT !.pc = "incr", !.ttlBefore = ttl] \in Request
    BY ThrottleAssumption DEF Request, Pc
  <1>2. ASSUME NEW total \in 0..Limit + 1
        PROVE  [r EXCEPT !.pc = "pexpire", !.total = total] \in Request
    BY ThrottleAssumption DEF Request, Pc
  <1> QED BY <1>1, <1>2

LEMMA ThrottleStarts == ASSUME ThrottleInit PROVE ThrottleInv
  <1>1. served \in [Served -> Request]
    BY NoRequestIsOne DEF ThrottleInit
  <1>2. broken \in BOOLEAN
    BY DEF ThrottleInit
  <1>3. ThrottleTypeOK
    BY <1>1, <1>2, ThrottleAssumption DEF ThrottleInit, ThrottleTypeOK, NoKey, Request
  <1>4. WindowIsComing
    BY DEF ThrottleInit, WindowIsComing, NoKey
  <1> QED BY <1>1, <1>3, <1>4 DEF ThrottleInv

\* Counts above the limit all act alike, and are counted as one more than it.
LEMMA OneMoreInRange == ASSUME NEW count \in 0..Limit + 1 PROVE OneMore(count) \in 1..Limit + 1
  BY ThrottleAssumption DEF OneMore

LEMMA PttlBlockKeeps == ASSUME ThrottleInv, NEW p \in Served, PttlBlock(p) PROVE ThrottleInv'
  <1>1. /\ served' \in [Served -> Request]
        /\ \A q \in Served \ {p} : served'[q] = served[q]
        /\ ~At(p, "pexpire")
    BY NoRequestIsOne, ThrottleAssumption DEF PttlBlock, Turns, At, NoRequest, Pc, Request, ThrottleInv, ThrottleTypeOK
  <1>2. UNCHANGED <<hits, block, broken, failures>> /\ last' \in {last, "blocked"}
    BY DEF PttlBlock
  <1> QED BY <1>1, <1>2 DEF ThrottleInv, ThrottleTypeOK, Request, WindowIsComing, At

LEMMA PttlHitsKeeps == ASSUME ThrottleInv, NEW p \in Served, PttlHits(p) PROVE ThrottleInv'
  <1>1. /\ served' \in [Served -> Request]
        /\ \A q \in Served \ {p} : served'[q] = served[q]
        /\ ~At(p, "pexpire")
    <2>1. Pttl \in -2..Window
      BY ThrottleAssumption DEF Pttl, ThrottleInv, ThrottleTypeOK
    <2>2. [NoRequest EXCEPT !.pc = "incr", !.ttlBefore = Pttl] \in Request
      BY <2>1, NoRequestIsOne, RequestGoes
    <2> QED BY <2>2, NoRequestIsOne DEF PttlHits, Turns, At, ThrottleInv
  <1>2. UNCHANGED <<hits, block, broken, failures>> /\ last' \in {last, "blocked"}
    BY DEF PttlHits
  <1> QED BY <1>1, <1>2 DEF ThrottleInv, ThrottleTypeOK, Request, WindowIsComing, At

LEMMA IncrKeeps == ASSUME ThrottleInv, NEW p \in Served, Incr(p) PROVE ThrottleInv'
  <1> DEFINE total == OneMore(hits.count)
  <1>1. total \in 1..Limit + 1
    BY OneMoreInRange DEF ThrottleInv, ThrottleTypeOK
  <1>2. /\ hits' \in [count : 0..Limit + 1, ttl : -1..Window]
        /\ hits'.count = total
        /\ hits'.ttl = IF hits.count = 0 THEN -1 ELSE hits.ttl
    BY <1>1, ThrottleAssumption DEF Incr, ThrottleInv, ThrottleTypeOK
  <1> HIDE DEF total
  <1>3. ThrottleTypeOK' /\ served' \in [Served -> Request]
    <2>1. served' \in [Served -> Request]
      <3>0. total \in 0..Limit + 1
        BY <1>1, ThrottleAssumption
      <3>1. [served[p] EXCEPT !.pc = "pexpire", !.total = total] \in Request
        BY <3>0, RequestGoes DEF ThrottleInv
      <3>2. [NoRequest EXCEPT !.pc = "set"] \in Request
        BY ThrottleAssumption DEF NoRequest, Request, Pc
      <3> QED BY <3>1, <3>2, NoRequestIsOne DEF Incr, Judge, Turns, ThrottleInv, total
    <2>2. /\ UNCHANGED <<block, broken, failures>>
          /\ last' \in {last, "let"}
      BY DEF Incr, Judge
    <2>3. hits'.count = 0 <=> hits'.ttl = 0
      BY <1>1, <1>2, ThrottleAssumption DEF ThrottleInv, ThrottleTypeOK
    <2> QED BY <1>2, <2>1, <2>2, <2>3 DEF ThrottleInv, ThrottleTypeOK, Request
  <1>4. WindowIsComing'
    <2>1. CASE hits.count = 0
      <3>1. total = 1
        BY <2>1, ThrottleAssumption DEF total, OneMore
      <3>2. served'[p].pc = "pexpire"
        BY <3>1 DEF Incr, Turns, ThrottleInv, Request, total
      <3> QED BY <3>2 DEF WindowIsComing, At
    <2>2. CASE hits.count # 0
      <3> SUFFICES ASSUME hits'.ttl = -1, ~broken' PROVE \E q \in Served : served'[q].pc = "pexpire"
        BY DEF WindowIsComing, At
      <3>1. hits.count > 0 /\ hits.ttl = -1 /\ ~broken
        BY <2>2, <1>2 DEF Incr, ThrottleInv, ThrottleTypeOK
      <3>2. PICK q \in Served : served[q].pc = "pexpire"
        BY <3>1 DEF ThrottleInv, WindowIsComing, At
      <3>3. served'[q].pc = "pexpire"
        BY <3>2 DEF Incr, Judge, Turns, At, ThrottleInv, Request
      <3> QED BY <3>3
    <2> QED BY <2>1, <2>2
  <1> QED BY <1>3, <1>4 DEF ThrottleInv

LEMMA PexpireKeeps == ASSUME ThrottleInv, NEW p \in Served, Pexpire(p) PROVE ThrottleInv'
  <1>1. /\ hits' \in [count : 0..Limit + 1, ttl : -1..Window]
        /\ hits'.count = 0 <=> hits'.ttl = 0
        /\ hits'.count > 0 => hits'.ttl = Window
    BY ThrottleAssumption DEF Pexpire, ThrottleInv, ThrottleTypeOK
  <1>2. ThrottleTypeOK' /\ served' \in [Served -> Request]
    BY <1>1, ThrottleAssumption
    DEF Pexpire, Judge, Turns, At, NoRequest, Pc, Request, ThrottleInv, ThrottleTypeOK
  <1> QED BY <1>1, <1>2, ThrottleAssumption DEF ThrottleInv, WindowIsComing

LEMMA SetKeeps == ASSUME ThrottleInv, NEW p \in Served, Set(p) PROVE ThrottleInv'
  BY ThrottleAssumption
  DEF Set, Turns, At, NoRequest, Pc, Request, ThrottleInv, ThrottleTypeOK, WindowIsComing

LEMMA FailKeeps == ASSUME ThrottleInv, NEW p \in Served, Fail(p) PROVE ThrottleInv'
  BY ThrottleAssumption
  DEF Fail, Turns, At, NoRequest, Pc, Request, ThrottleInv, ThrottleTypeOK, WindowIsComing

LEMMA TimePassesKeeps == ASSUME ThrottleInv, TimePasses PROVE ThrottleInv'
  <1>1. /\ hits' \in [count : 0..Limit + 1, ttl : -1..Window]
        /\ hits'.count = 0 <=> hits'.ttl = 0
        /\ hits'.ttl = -1 => hits.ttl = -1
        /\ hits'.count > 0 => hits.count > 0
    BY ThrottleAssumption DEF TimePasses, NoKey, ThrottleInv, ThrottleTypeOK
  <1>2. block' \in 0..Block
    BY ThrottleAssumption DEF TimePasses, ThrottleInv, ThrottleTypeOK
  <1>3. /\ broken' \in BOOLEAN
        /\ broken /\ hits'.count > 0 => broken'
    BY DEF TimePasses
  <1>4. UNCHANGED <<served, last, failures>>
    BY DEF TimePasses
  <1> QED BY <1>1, <1>2, <1>3, <1>4 DEF ThrottleInv, ThrottleTypeOK, WindowIsComing, At

LEMMA ThrottleStepKeeps == ASSUME ThrottleInv, [ThrottleNext]_throttleVars PROVE ThrottleInv'
  <1>1. CASE UNCHANGED throttleVars
    BY <1>1 DEF throttleVars, ThrottleInv, ThrottleTypeOK, WindowIsComing, At
  <1>2. CASE ThrottleNext
    BY <1>2, PttlBlockKeeps, PttlHitsKeeps, IncrKeeps, PexpireKeeps, SetKeeps, FailKeeps, TimePassesKeeps
    DEF ThrottleNext, Continue
  <1> QED BY <1>1, <1>2

LEMMA ThrottleInvariant == ThrottleSpec => []ThrottleInv
  BY ThrottleStarts, ThrottleStepKeeps, PTL DEF ThrottleSpec

\* Counts and times to live stay within the limit, the window and the block that the
\* throttler was configured with, and only a key that is there has a time to live.
THEOREM ThrottleTypeCorrect == ThrottleSpec => []ThrottleTypeOK
  <1>1. ThrottleInv => ThrottleTypeOK
    BY DEF ThrottleInv
  <1> QED BY <1>1, ThrottleInvariant, PTL

\* However many requests of a caller are served at once, and whatever expires between
\* the PTTL of one and its INCR, a counter is left without expiry only by a failure: a
\* counter that has none has a request at its PEXPIRE, which sees that the key is new or
\* that it had no expiry.
THEOREM ExpiryCorrect == ThrottleSpec => []CountersExpire
  <1>1. ThrottleInv => CountersExpire
    BY ThrottleAssumption DEF ThrottleInv, ThrottleTypeOK, WindowIsComing, CountersExpire, At
  <1> QED BY <1>1, ThrottleInvariant, PTL

-----------------------------------------------------------------------------
(***************************************************************************)
(* Briefing: the briefing an office is shown was composed of rows that     *)
(* were the company's not longer ago than the cache keeps it, and an       *)
(* overload it reports is of one day and one worker, although the code     *)
(* counts by the name of the weekday.                                      *)
(***************************************************************************)

(***************************************************************************)
(* The arithmetic of the days ahead: n days in a row have n names, and     *)
(* each name is that of one of them.                                       *)
(***************************************************************************)
LEMMA Division ==
  ASSUME NEW n \in Nat \ {0}, NEW x \in Int
  PROVE  \E q \in Int, r \in 0..(n - 1) : x \div n = q /\ x % n = r /\ x = n * q + r
  OBVIOUS

LEMMA Between ==
  ASSUME NEW n \in Nat \ {0}, NEW e \in Int, n * e < n, -n < n * e
  PROVE  e = 0
  <1>1. ~(e >= 1) /\ ~(e <= -1)
    OBVIOUS
  <1> QED BY <1>1

LEMMA OneDayAhead ==
  ASSUME NEW n \in Nat \ {0}, NEW t \in Int, NEW a \in t..(t + n - 1), NEW b \in t..(t + n - 1),
         a % n = b % n
  PROVE  a = b
  <1>0. a \in Int /\ b \in Int
    OBVIOUS
  <1>1. PICK q \in Int, r \in 0..(n - 1) : a % n = r /\ a = n * q + r
    BY <1>0, Division
  <1>2. PICK p \in Int, s \in 0..(n - 1) : b % n = s /\ b = n * p + s
    BY <1>0, Division
  <1>3. a - b < n /\ -n < a - b
    OBVIOUS
  <1>4. PICK e \in Int : e = q - p
    OBVIOUS
  <1>5. n * e = a - b
    BY <1>0, <1>1, <1>2, <1>4
  <1>6. e = 0
    BY <1>0, <1>3, <1>5, Between
  <1> QED BY <1>0, <1>5, <1>6

LEMMA ADayAhead ==
  ASSUME NEW n \in Nat \ {0}, NEW t \in Int, NEW o \in 0..(n - 1)
  PROVE  \E d \in t..(t + n - 1) : d % n = o
  <1>0. o - t \in Int /\ o \in Int
    OBVIOUS
  <1>x. PICK x \in Int : x = o - t
    BY <1>0
  <1>y. PICK q \in Int, r \in 0..(n - 1) : x \div n = q /\ x % n = r /\ x = n * q + r
    BY Division
  <1>1. o - t = n * q + r
    BY <1>x, <1>y
  <1>r. t + r \in t..(t + n - 1)
    OBVIOUS
  <1>2. PICK d \in t..(t + n - 1) : d = t + r
    BY <1>r
  <1>d. d \in Int
    OBVIOUS
  <1>3. PICK p \in Int, s \in 0..(n - 1) : d % n = s /\ d = n * p + s
    BY <1>d, Division
  <1>4. PICK e \in Int : e = q + p
    OBVIOUS
  <1>5. n * e = o - s
    BY <1>1, <1>2, <1>3, <1>4
  <1>6. e = 0
    <2>1. n * e < n /\ -n < n * e
      BY <1>5
    <2> QED BY <2>1, Between
  <1>7. o = s
    BY <1>0, <1>5, <1>6
  <1> QED BY <1>3, <1>7

LEMMA Monotone ==
  ASSUME NEW n \in Nat \ {0}, NEW s \in Int, NEW t \in Int, s <= t
  PROVE  s \div n \in Int /\ t \div n \in Int /\ s \div n <= t \div n
  <1>1. PICK q \in Int, r \in 0..(n - 1) : s \div n = q /\ s = n * q + r
    BY Division
  <1>2. PICK p \in Int, m \in 0..(n - 1) : t \div n = p /\ t = n * p + m
    BY Division
  <1>3. PICK e \in Int : e = q - p
    OBVIOUS
  <1>4. n * e < n
    BY <1>1, <1>2, <1>3
  <1>5. ~(e >= 1)
    BY <1>4
  <1> QED BY <1>1, <1>2, <1>3, <1>5

-----------------------------------------------------------------------------
(***************************************************************************)
(* The invariant                                                           *)
(***************************************************************************)

\* Records, whatever their fields are.
IsProc(r) ==
  r \in [stage : {r.stage}, arrived : {r.arrived}, at : {r.at}, seen : {r.seen},
         answer : {r.answer}]

IsBriefing(b) ==
  b \in [since : {b.since}, ahead : {b.ahead}, overloaded : {b.overloaded},
         source : {b.source}, quiet : {b.quiet}, alerts : {b.alerts}, insights : {b.insights}]

\* The jobs that an overload was found in are of the days ahead of one moment.
IsHonest(b) ==
  b.overloaded # {} =>
    /\ b.since \in First..Last
    /\ \A j \in DOMAIN b.ahead : IsAhead(b.ahead[j].start, b.since)
    /\ \A o \in b.overloaded :
         o.day \in 0..(Days - 1) /\ TooMuch(b.ahead, JobsOf(b.ahead, o.worker, o.day))

Sound(b) == IsBriefing(b) /\ b.since \in Int /\ IsHonest(b)

\* A request reads after it has come, and what it is told was read after it came or is
\* kept for as long as it is recent.
Fresh(r, time) ==
  /\ IsProc(r) /\ Sound(r.answer) /\ r.arrived \in Int
  /\ r.stage # "idle" => r.arrived <= time
  /\ r.stage \in {"reading", "asking"} => r.at \in First..Last /\ r.arrived <= r.at
  /\ r.stage = "asking" => r.answer.since = r.at
  /\ r.stage = "answered" => r.answer.since > r.arrived - Ttl

KeptIsFresh ==
  /\ Sound(kept.value) /\ kept.until \in Int
  /\ kept.until > 0 => kept.value.since >= kept.until - Ttl

BriefingInv ==
  /\ now \in First..Last
  /\ KeptIsFresh
  /\ proc = [p \in Proc |-> proc[p]]
  /\ \A p \in Proc : Fresh(proc[p], now)

-----------------------------------------------------------------------------
(***************************************************************************)
(* The steps                                                               *)
(***************************************************************************)
LEMMA BriefingConstants ==
  ASSUME BriefingAssumption
  PROVE  /\ Day \in Nat \ {0} /\ Days \in Nat \ {0} /\ Ttl \in Nat \ {0}
         /\ First \in Nat /\ Last \in Nat /\ First <= Last
  BY DEF BriefingAssumption

LEMMA NothingIsSound == Sound(NoBriefing)
  BY DEF Sound, IsBriefing, IsHonest, NoBriefing

LEMMA IdleIsFresh == ASSUME NEW time PROVE Fresh(Idle, time)
  <1>1. PICK b : b = NoBriefing
    OBVIOUS
  <1>2. Sound(b)
    BY <1>1, NothingIsSound
  <1>3. Idle = [stage |-> "idle", arrived |-> 0, at |-> 0, seen |-> {}, answer |-> b]
    BY <1>1 DEF Idle
  <1>4. IsProc(Idle) /\ Idle.stage = "idle" /\ Idle.answer = b /\ Idle.arrived = 0
    BY <1>3 DEF IsProc
  <1> QED BY <1>2, <1>4 DEF Fresh

\* A request that goes on, when what is kept stays fresh.
LEMMA GoesOn ==
  ASSUME BriefingAssumption, BriefingInv, NEW p \in Proc, NEW from, NEW r, Goes(p, from, r),
         UNCHANGED now, Fresh(r, now), KeptIsFresh'
  PROVE  BriefingInv'
  <1>1. proc' = [proc EXCEPT ![p] = r]
    BY DEF Goes
  <1>2. /\ proc' = [q \in Proc |-> proc'[q]]
        /\ \A q \in Proc : proc'[q] = IF q = p THEN r ELSE proc[q]
    BY <1>1 DEF BriefingInv
  <1>3. \A q \in Proc : Fresh(proc'[q], now)
    BY <1>2 DEF BriefingInv
  <1> QED BY <1>2, <1>3 DEF BriefingInv

LEMMA ArriveKeeps == ASSUME BriefingAssumption, BriefingInv, NEW p \in Proc, Arrive(p) PROVE BriefingInv'
  <1>1. UNCHANGED <<now, kept>> /\ KeptIsFresh' /\ now \in Nat /\ now \in Int
    BY BriefingConstants DEF Arrive, BriefingInv, KeptIsFresh
  <1>2. PICK b : b = kept.value /\ Sound(b) /\ (kept.until > 0 => b.since >= kept.until - Ttl)
    BY DEF BriefingInv, KeptIsFresh
  <1>3. PICK n : n = NoBriefing /\ Sound(n)
    BY NothingIsSound
  <1>4. CASE kept.until > now
    <2> DEFINE r == [stage |-> "answered", arrived |-> now, at |-> 0, seen |-> {}, answer |-> b]
    <2>1. Goes(p, "idle", r)
      BY <1>2, <1>4 DEF Arrive, Idle
    <2>2. b.since > now - Ttl
      BY <1>1, <1>2, <1>4, BriefingConstants DEF BriefingInv, KeptIsFresh, Sound
    <2>3. Fresh(r, now)
      BY <1>1, <1>2, <2>2 DEF Fresh, IsProc
    <2> HIDE DEF r
    <2> QED BY <1>1, <2>1, <2>3, GoesOn
  <1>5. CASE ~(kept.until > now)
    <2> DEFINE r == [stage |-> "come", arrived |-> now, at |-> 0, seen |-> {}, answer |-> n]
    <2>1. Goes(p, "idle", r)
      BY <1>3, <1>5 DEF Arrive, Idle
    <2>2. Fresh(r, now)
      BY <1>1, <1>3 DEF Fresh, IsProc
    <2> HIDE DEF r
    <2> QED BY <1>1, <2>1, <2>2, GoesOn
  <1> QED BY <1>4, <1>5

LEMMA ReadCompanyKeeps ==
  ASSUME BriefingAssumption, BriefingInv, NEW p \in Proc, ReadCompany(p) PROVE BriefingInv'
  <1>1. UNCHANGED <<now, kept>> /\ KeptIsFresh'
    BY DEF ReadCompany, BriefingInv, KeptIsFresh
  <1>2. PICK i : i = proc[p] /\ Fresh(i, now) /\ i.stage = "come"
    BY DEF BriefingInv, ReadCompany, Goes
  <1> DEFINE r == [i EXCEPT !.stage = "reading", !.at = now, !.seen = {job}]
  <1>3. Goes(p, "come", r)
    BY <1>2 DEF ReadCompany
  <1>4. /\ IsProc(r) /\ r.stage = "reading" /\ r.arrived = i.arrived /\ r.at = now
        /\ r.answer = i.answer
    <2>1. IsProc(i)
      BY <1>2 DEF Fresh
    <2> QED BY <2>1 DEF IsProc
  <1>5. Fresh(r, now)
    <2> HIDE DEF r
    <2> QED BY <1>2, <1>4 DEF Fresh, BriefingInv
  <1> HIDE DEF r
  <1> QED BY <1>1, <1>3, <1>5, GoesOn

\* A request that is given a briefing it has read itself, and keeps it.
LEMMA AnswersKeeps ==
  ASSUME BriefingAssumption, BriefingInv, NEW p \in Proc, NEW b, Answers(p, b), Sound(b),
         proc[p].stage \in {"reading", "asking"}, b.since = proc[p].at
  PROVE  BriefingInv'
  <1>1. PICK i : i = proc[p] /\ Fresh(i, now) /\ i.stage \in {"reading", "asking"}
    BY DEF BriefingInv
  <1> DEFINE r == [i EXCEPT !.stage = "answered", !.answer = b, !.seen = {}]
  <1>2. Goes(p, i.stage, r) /\ UNCHANGED now
    BY <1>1 DEF Answers
  <1>3. IsProc(r) /\ r.stage = "answered" /\ r.arrived = i.arrived /\ r.answer = b
    <2>1. IsProc(i)
      BY <1>1 DEF Fresh
    <2> QED BY <2>1 DEF IsProc
  <1>4. /\ b.since \in Int /\ b.since = i.at /\ i.arrived \in Int /\ i.arrived <= b.since
        /\ i.arrived <= now /\ Ttl \in Nat \ {0}
    BY <1>1, BriefingConstants DEF Fresh, Sound
  <1>5. b.since > i.arrived - Ttl
    BY <1>4
  <1>6. Fresh(r, now)
    <2> HIDE DEF r
    <2> QED BY <1>3, <1>4, <1>5 DEF Fresh
  <1>7. KeptIsFresh'
    <2>1. kept' = [until |-> i.arrived + Ttl, value |-> b]
      BY <1>1 DEF Answers, KeptUntil
    <2>2. kept'.until = i.arrived + Ttl /\ kept'.value = b
      BY <2>1
    <2>3. b.since >= kept'.until - Ttl /\ kept'.until \in Int
      BY <1>4, <2>2
    <2>4. Sound(kept'.value)
      BY <2>2
    <2> QED BY <2>2, <2>3, <2>4 DEF KeptIsFresh, Sound, IsBriefing, IsHonest
  <1> HIDE DEF r
  <1> QED BY <1>2, <1>6, <1>7, GoesOn

LEMMA OverloadsAreFound ==
  ASSUME NEW rows, NEW S \in Overloads(rows), NEW o \in S
  PROVE  o.day \in 0..(Days - 1) /\ TooMuch(rows, JobsOf(rows, o.worker, o.day))
  <1>1. S \subseteq {b \in [worker : Worker, day : 0..(Days - 1)] :
                       TooMuch(rows, JobsOf(rows, b.worker, b.day))}
    BY DEF Overloads
  <1> QED BY <1>1

LEMMA ReturnedAhead ==
  ASSUME NEW rows, NEW t, NEW j \in DOMAIN Returned("ahead", rows, t)
  PROVE  IsAhead(Returned("ahead", rows, t)[j].start, t)
  <1>1. j \in {i \in Job : Asked("ahead", rows[i], t)}
    BY DEF Returned, Restrict
  <1>2. Returned("ahead", rows, t)[j] = rows[j]
    BY <1>1 DEF Returned, Restrict
  <1> QED BY <1>1, <1>2 DEF Asked

LEMMA ComputeKeeps == ASSUME BriefingAssumption, BriefingInv, NEW p \in Proc, Compute(p) PROVE BriefingInv'
  <1>1. PICK i : i = proc[p] /\ Fresh(i, now) /\ i.stage = "reading"
    BY DEF BriefingInv, Compute
  <1>2. PICK moment \in [Query -> i.seen] :
          LET read == [q \in Query |-> Returned(q, moment[q], i.at)] IN
          \E overloaded \in Overloads(read["ahead"]) :
            LET said == Rules(read, overloaded, now)
                briefing == [since |-> i.at, ahead |-> read["ahead"], overloaded |-> overloaded,
                             source |-> "RULES", quiet |-> said.quiet, alerts |-> said.alerts,
                             insights |-> said.insights]
            IN IF useAi
               THEN /\ Goes(p, "reading", [i EXCEPT !.stage = "asking", !.answer = briefing,
                                                    !.seen = {}])
                    /\ UNCHANGED <<job, now, useAi, kept, changes>>
               ELSE Answers(p, briefing)
    BY ZenonT(40), <1>1 DEF Compute
  <1> DEFINE read == [q \in Query |-> Returned(q, moment[q], i.at)]
             ahead == Returned("ahead", moment["ahead"], i.at)
  <1>3. read["ahead"] = ahead
    BY DEF Query
  <1>4. PICK overloaded, quiet, alerts, insights :
          /\ overloaded \in Overloads(ahead)
          /\ LET briefing == [since |-> i.at, ahead |-> ahead, overloaded |-> overloaded,
                              source |-> "RULES", quiet |-> quiet, alerts |-> alerts,
                              insights |-> insights]
             IN IF useAi
                THEN /\ Goes(p, "reading", [i EXCEPT !.stage = "asking", !.answer = briefing,
                                                     !.seen = {}])
                     /\ UNCHANGED <<job, now, useAi, kept, changes>>
                ELSE Answers(p, briefing)
    BY ZenonT(40), <1>2, <1>3
  <1> DEFINE b == [since |-> i.at, ahead |-> ahead, overloaded |-> overloaded,
                   source |-> "RULES", quiet |-> quiet, alerts |-> alerts,
                   insights |-> insights]
  <1>5. /\ IsBriefing(b) /\ b.since = i.at /\ b.ahead = ahead /\ b.overloaded = overloaded
    BY DEF IsBriefing
  <1>6. i.at \in First..Last /\ i.at \in Int
    BY <1>1, BriefingConstants DEF Fresh
  <1>7. \A j \in DOMAIN ahead : IsAhead(ahead[j].start, i.at)
    BY ReturnedAhead
  <1>8. \A o \in overloaded :
          o.day \in 0..(Days - 1) /\ TooMuch(ahead, JobsOf(ahead, o.worker, o.day))
    BY <1>4, OverloadsAreFound
  <1> HIDE DEF ahead
  <1>9. Sound(b)
    <2> HIDE DEF b
    <2> QED BY <1>5, <1>6, <1>7, <1>8 DEF Sound, IsHonest
  <1>10. CASE useAi
    <2> DEFINE r == [i EXCEPT !.stage = "asking", !.answer = b, !.seen = {}]
    <2>1. Goes(p, "reading", r) /\ UNCHANGED <<now, kept>>
      BY <1>4, <1>10
    <2> HIDE DEF b
    <2>2. /\ IsProc(r) /\ r.stage = "asking" /\ r.arrived = i.arrived /\ r.at = i.at
          /\ r.answer = b
      <3>1. IsProc(i)
        BY <1>1 DEF Fresh
      <3> QED BY <3>1 DEF IsProc
    <2> HIDE DEF r
    <2>3. Fresh(r, now)
      BY <1>1, <1>5, <1>9, <2>2 DEF Fresh
    <2>4. KeptIsFresh'
      BY <2>1 DEF BriefingInv, KeptIsFresh
    <2> QED BY <2>1, <2>3, <2>4, GoesOn
  <1>11. CASE ~useAi
    <2>1. Answers(p, b)
      BY <1>4, <1>11
    <2> HIDE DEF b
    <2> QED BY <1>1, <1>5, <1>9, <2>1, AnswersKeeps
  <1> QED BY <1>10, <1>11

LEMMA AskModelKeeps == ASSUME BriefingAssumption, BriefingInv, NEW p \in Proc, AskModel(p) PROVE BriefingInv'
  <1>1. PICK b : b = proc[p].answer /\ Sound(b) /\ b.since = proc[p].at
    BY DEF BriefingInv, Fresh, AskModel
  <1>2. PICK source : Answers(p, [b EXCEPT !.source = source])
    BY <1>1 DEF AskModel
  <1> DEFINE c == [b EXCEPT !.source = source]
  <1>3. /\ IsBriefing(c) /\ c.since = b.since /\ c.ahead = b.ahead
        /\ c.overloaded = b.overloaded
    BY <1>1 DEF Sound, IsBriefing
  <1> HIDE DEF c
  <1>4. Sound(c)
    BY <1>1, <1>3 DEF Sound, IsHonest
  <1> QED BY <1>1, <1>2, <1>3, <1>4, AnswersKeeps DEF AskModel, c

LEMMA LeaveKeeps == ASSUME BriefingAssumption, BriefingInv, NEW p \in Proc, Leave(p) PROVE BriefingInv'
  <1>1. UNCHANGED <<now, kept>> /\ KeptIsFresh' /\ Goes(p, "answered", Idle)
    BY DEF Leave, BriefingInv, KeptIsFresh
  <1> QED BY <1>1, IdleIsFresh, GoesOn

LEMMA ChangeKeeps ==
  ASSUME BriefingInv, NEW j, NEW s, Change(j, s) PROVE BriefingInv'
  <1>1. UNCHANGED <<now, kept>> /\ KeptIsFresh'
    BY DEF Change, BriefingInv, KeptIsFresh
  <1>2. proc' = [p \in Proc |-> IF proc[p].stage = "reading"
                                THEN [proc[p] EXCEPT !.seen = proc[p].seen \cup {job'}]
                                ELSE proc[p]]
    BY DEF Change
  <1>3. ASSUME NEW p \in Proc PROVE Fresh(proc'[p], now)
    <2>1. PICK i : i = proc[p] /\ Fresh(i, now)
      BY DEF BriefingInv
    <2> DEFINE r == [i EXCEPT !.seen = i.seen \cup {job'}]
    <2>2. proc'[p] = i \/ proc'[p] = r
      BY <1>2, <2>1
    <2>3. /\ IsProc(r) /\ r.stage = i.stage /\ r.arrived = i.arrived /\ r.at = i.at
          /\ r.answer = i.answer
      <3>1. IsProc(i)
        BY <2>1 DEF Fresh
      <3> QED BY <3>1 DEF IsProc
    <2> HIDE DEF r
    <2>4. Fresh(r, now)
      BY <2>1, <2>3 DEF Fresh
    <2> QED BY <2>1, <2>2, <2>4
  <1>4. proc' = [p \in Proc |-> proc'[p]]
    BY <1>2
  <1> QED BY <1>1, <1>3, <1>4 DEF BriefingInv

LEMMA TickKeeps == ASSUME BriefingAssumption, BriefingInv, Tick PROVE BriefingInv'
  <1>1. /\ UNCHANGED <<kept, proc>> /\ KeptIsFresh' /\ now' = now + 1
        /\ now \in Int /\ now' \in First..Last
    BY BriefingConstants DEF Tick, BriefingInv, KeptIsFresh
  <1>2. ASSUME NEW p \in Proc PROVE Fresh(proc[p], now')
    <2>1. PICK i : i = proc[p] /\ Fresh(i, now) /\ i.arrived \in Int
      BY DEF BriefingInv, Fresh
    <2>2. i.arrived <= now => i.arrived <= now'
      BY <1>1, <2>1
    <2> QED BY <2>1, <2>2 DEF Fresh
  <1> QED BY <1>1, <1>2 DEF BriefingInv

LEMMA NoneIsFresh == ASSUME NEW k, k = [until |-> 0, value |-> NoBriefing]
                     PROVE  Sound(k.value) /\ k.until \in Int /\ ~(k.until > 0)
  BY NothingIsSound

LEMMA RestartKeeps == ASSUME BriefingAssumption, BriefingInv, Restart PROVE BriefingInv'
  <1>1. /\ UNCHANGED now /\ kept' = [until |-> 0, value |-> NoBriefing]
        /\ proc' = [p \in Proc |-> Idle]
    BY DEF Restart
  <1>2. Sound(kept'.value) /\ kept'.until \in Int /\ ~(kept'.until > 0)
    BY <1>1, NoneIsFresh
  <1>3. KeptIsFresh'
    BY <1>2 DEF KeptIsFresh, Sound, IsBriefing, IsHonest
  <1>4. proc' = [p \in Proc |-> proc'[p]] /\ \A p \in Proc : proc'[p] = Idle
    BY <1>1
  <1> QED BY <1>1, <1>3, <1>4, IdleIsFresh DEF BriefingInv

LEMMA BriefingStarts == ASSUME BriefingAssumption, BriefingInit PROVE BriefingInv
  <1>1. KeptIsFresh
    BY NoneIsFresh DEF BriefingInit, KeptIsFresh
  <1>2. proc = [p \in Proc |-> proc[p]] /\ \A p \in Proc : proc[p] = Idle
    BY DEF BriefingInit
  <1> QED BY <1>1, <1>2, IdleIsFresh, BriefingConstants DEF BriefingInv, BriefingInit

LEMMA BriefingStepKeeps == ASSUME BriefingAssumption, BriefingInv, [BriefingNext]_briefingVars PROVE BriefingInv'
  <1>1. CASE UNCHANGED briefingVars
    <2>1. UNCHANGED <<now, kept, proc>> /\ KeptIsFresh'
      BY <1>1 DEF briefingVars, BriefingInv, KeptIsFresh
    <2> QED BY <2>1 DEF BriefingInv
  <1>2. CASE BriefingNext
    BY <1>2, ArriveKeeps, ReadCompanyKeeps, ComputeKeeps, AskModelKeeps, LeaveKeeps, ChangeKeeps,
       TickKeeps, RestartKeeps DEF BriefingNext
  <1> QED BY <1>1, <1>2

LEMMA BriefingInvariant == BriefingAssumption => (BriefingSpec => []BriefingInv)
  <1> SUFFICES ASSUME BriefingAssumption PROVE BriefingSpec => []BriefingInv
    OBVIOUS
  <1>1. BriefingInit => BriefingInv
    BY BriefingStarts
  <1>2. BriefingInv /\ [BriefingNext]_briefingVars => BriefingInv'
    BY BriefingStepKeeps
  <1> QED BY <1>1, <1>2, PTL DEF BriefingSpec

\* However long the queries and the model take, whoever read what is kept, and although a
\* slower request keeps what it read earlier, a briefing that is handed out was read from
\* the jobs less than Ttl before it was asked for: what is kept is kept until Ttl after its
\* reader came, and the reader read after that.
THEOREM RecentCorrect == BriefingAssumption => (BriefingSpec => []BriefingsAreRecent)
  <1>1. BriefingInv => BriefingsAreRecent
    BY DEF BriefingInv, Fresh, BriefingsAreRecent
  <1> QED BY <1>1, BriefingInvariant, PTL

-----------------------------------------------------------------------------
(***************************************************************************)
(* Overloads                                                               *)
(***************************************************************************)

\* The days that are looked ahead are in the calendar.
LEMMA DaysAhead ==
  ASSUME BriefingAssumption, NEW t \in First..Last
  PROVE  /\ DayOf(t) \in Int /\ DayOf(t)..(DayOf(t) + Ahead) = DayOf(t)..(DayOf(t) + Days - 1)
         /\ DayOf(t)..(DayOf(t) + Ahead) \subseteq DayOf(First)..(DayOf(Last) + Days)
  <1>1. t \in Int /\ First <= t /\ t <= Last /\ First \in Int /\ Last \in Int /\ Days \in Nat
    BY BriefingConstants
  <1>2. First \div Day <= t \div Day /\ t \div Day <= Last \div Day
    BY <1>1, BriefingConstants, Monotone
  <1>3. First \div Day \in Int /\ t \div Day \in Int /\ Last \div Day \in Int
    BY <1>1, BriefingConstants, Monotone
  <1> DEFINE f == First \div Day
             d == t \div Day
             l == Last \div Day
  <1> HIDE DEF f, d, l
  <1>4. f <= d /\ d <= l /\ f \in Int /\ d \in Int /\ l \in Int
    BY <1>2, <1>3 DEF f, d, l
  <1>5. d..(d + (Days - 1)) = d..(d + Days - 1) /\ d..(d + (Days - 1)) \subseteq f..(l + Days)
    BY <1>1, <1>4
  <1> QED BY <1>4, <1>5 DEF f, d, l, DayOf, Ahead

\* The jobs of the days of one name are those of one day: the days that are looked ahead
\* have different names.
LEMMA OneDayOfThatName ==
  ASSUME BriefingAssumption, NEW b, Sound(b), NEW o \in b.overloaded
  PROVE  \E d \in DayOf(First)..(DayOf(Last) + Days) :
           TooMuch(b.ahead, {j \in DOMAIN b.ahead : /\ o.worker \in b.ahead[j].workers
                                                    /\ DayOf(b.ahead[j].start) = d})
  <1>1. /\ b.since \in First..Last /\ o.day \in 0..(Days - 1)
        /\ TooMuch(b.ahead, JobsOf(b.ahead, o.worker, o.day))
        /\ \A j \in DOMAIN b.ahead : IsAhead(b.ahead[j].start, b.since)
    BY DEF Sound, IsHonest
  <1> DEFINE t == DayOf(b.since)
             window == t..(t + Days - 1)
  <1>2. /\ t \in Int /\ window \subseteq DayOf(First)..(DayOf(Last) + Days)
        /\ \A j \in DOMAIN b.ahead : DayOf(b.ahead[j].start) \in window
    BY <1>1, DaysAhead DEF IsAhead
  <1>3. PICK d \in window : d % Days = o.day
    BY <1>1, <1>2, BriefingConstants, ADayAhead
  <1>4. \A j \in DOMAIN b.ahead :
          DayOf(b.ahead[j].start) % Days = o.day <=> DayOf(b.ahead[j].start) = d
    BY <1>2, <1>3, BriefingConstants, OneDayAhead
  <1>5. JobsOf(b.ahead, o.worker, o.day)
          = {j \in DOMAIN b.ahead : /\ o.worker \in b.ahead[j].workers
                                    /\ DayOf(b.ahead[j].start) = d}
    BY <1>4 DEF JobsOf, Weekday
  <1> QED BY <1>1, <1>2, <1>3, <1>5

\* A worker who is called overloaded on a weekday has too much on one day of the calendar,
\* although the jobs of all days of that name are added up: the days that are looked ahead
\* have different names, and what is kept or worded by the model is about the days that
\* were ahead when it was read.
THEOREM OverloadedCorrect == BriefingAssumption => (BriefingSpec => []OverloadedIsOfOneDay)
  <1> SUFFICES ASSUME BriefingAssumption PROVE BriefingSpec => []OverloadedIsOfOneDay
    OBVIOUS
  <1>1. ASSUME BriefingInv PROVE OverloadedIsOfOneDay
    <2>1. \A p \in Proc : Sound(proc[p].answer)
      BY <1>1 DEF BriefingInv, Fresh
    <2> QED BY <2>1, OneDayOfThatName DEF OverloadedIsOfOneDay
  <1> QED BY <1>1, BriefingInvariant, PTL
=============================================================================
