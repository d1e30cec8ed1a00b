---------------------------- MODULE ReviewsProofs ----------------------------
(***************************************************************************)
(* Proofs about Reviews: a booking that is due is in the inbox of every    *)
(* manager, or on the way there; and the link a customer was given is the  *)
(* booking's until it expires.                                             *)
(***************************************************************************)
EXTENDS Reviews, TLAPS

\* A request that writes alerts or links is about a booking.
Aimed == \A p \in Proc : proc[p].pc # "idle" => proc[p].job \in Job

\* Request p will see to it that the managers from the start have an open alert for j: it
\* has not read who they are yet, or those it is done with have one.
WillRaise(p, j) ==
  /\ proc[p].job = j
  /\ \/ proc[p].pc = "managers"
     \/ /\ proc[p].pc = "upsert"
        /\ \A m \in FirstManager \ proc[p].todo : alert[<<j, m>>].status = "OPEN"

DueInv ==
  /\ FirstManager \subseteq manager
  /\ \A j \in due : \/ j \in died
                    \/ \A m \in FirstManager : alert[<<j, m>>].status = "OPEN"
                    \/ \E p \in Proc : WillRaise(p, j)

\* A link that was handed out while no other was being minted is the booking's row, and
\* as long as it is valid nobody mints another.
LinkInv ==
  \A h \in handed : h.expires > now /\ ~h.racing =>
    /\ link[h.job] = [token |-> h.token, expires |-> h.expires]
    /\ \A p \in Proc : ~(proc[p].pc = "mint" /\ proc[p].job = h.job)

IInv == TypeOK /\ Aimed /\ DueInv /\ LinkInv

AlertKeys == Job \X Member
Request == [pc : Pc, job : Job \cup {None}, reason : Reason, todo : SUBSET Member]
LinkRow == [token : 0..MaxToken, expires : 0..MaxTime + Lifetime]
Link == [job : Job, token : 1..MaxToken, expires : 0..MaxTime + Lifetime, racing : BOOLEAN]

LEMMA IdleIsRequest == Idle \in Request /\ Idle.pc = "idle"
BY DEF Idle, Request, Pc, Reason

\* A step of p that writes neither links nor time, mints nothing, and after which p is about
\* a booking.
LEMMA LinkStays ==
  ASSUME IInv, NEW p \in Proc, NEW rec, Goes(p, rec), rec.pc # "mint",
         UNCHANGED <<link, now, handed>>
  PROVE  LinkInv'
BY DEF Goes, IInv, TypeOK, LinkInv

\* A step that leaves what is due to others: p is no witness, or stays one, alerts that are
\* open stay so.
LEMMA DueStays ==
  ASSUME IInv, NEW p \in Proc, NEW rec, Goes(p, rec),
         proc[p].pc \notin {"managers", "upsert"},
         due' \subseteq due, died \subseteq died', FirstManager \subseteq manager',
         \A j \in due', m \in Member :
           alert[<<j, m>>].status = "OPEN" => alert'[<<j, m>>].status = "OPEN"
  PROVE  DueInv'
<1>1. FirstManager \subseteq Member
  BY ConstantsAssumption
<1>2. ASSUME NEW j \in due', NEW q \in Proc, WillRaise(q, j) PROVE WillRaise(q, j)'
  <2>1. q # p
    BY <1>2 DEF WillRaise
  <2>2. proc'[q] = proc[q]
    BY <2>1 DEF Goes, IInv, TypeOK
  <2> QED BY <1>1, <1>2, <2>2 DEF WillRaise
<1> QED BY <1>1, <1>2 DEF IInv, DueInv

LEMMA StartKeeps ==
  ASSUME IInv, NEW p \in Proc, NEW rec \in Request, Start(p, rec),
         rec.pc # "idle" => rec.job \in Job, rec.pc # "mint",
         rec.pc = "managers" \/ due' = due,
         due' \subseteq due \cup {rec.job},
         due' \subseteq Job,
         job' \in [Job -> [status : {"PENDING_CONFIRMATION", "SCHEDULED"}, paid : BOOLEAN]],
         UNCHANGED <<alert, link>>, Only
  PROVE  IInv'
<1>1. /\ Goes(p, rec) /\ proc[p].pc = "idle"
      /\ UNCHANGED <<alert, link, manager, now, handed, died>> /\ ops' \in 0..MaxOps
  BY ConstantsAssumption DEF Start, At, Only, IInv, TypeOK
<1>2. proc' \in [Proc -> Request] /\ proc'[p] = rec /\ \A q \in Proc \ {p} : proc'[q] = proc[q]
  BY <1>1 DEF Goes, IInv, TypeOK, Request
<1>3. TypeOK' /\ Aimed'
  BY <1>1, <1>2 DEF IInv, TypeOK, Aimed, Request
<1>4. LinkInv'
  BY <1>1, LinkStays
<1>5. DueInv'
  <2>1. ASSUME NEW j \in due, NEW q \in Proc, WillRaise(q, j) PROVE WillRaise(q, j)'
    BY <1>1, <1>2, <2>1 DEF WillRaise
  <2>2. ASSUME NEW j \in due', j \notin due PROVE WillRaise(p, j)'
    BY <1>2, <2>2 DEF WillRaise
  <2> QED BY <1>1, <2>1, <2>2 DEF IInv, DueInv
<1> QED BY <1>3, <1>4, <1>5 DEF IInv

LEMMA PayKeeps == ASSUME IInv, NEW p \in Proc, NEW j \in Job, Pay(p, j) PROVE IInv'
<1> DEFINE rec == [Idle EXCEPT !.pc = "managers", !.job = j]
<1>1. rec \in Request /\ rec.pc = "managers" /\ rec.job = j
  BY DEF Idle, Request, Pc, Reason
<1>2. Start(p, rec) /\ UNCHANGED <<alert, link>> /\ Only /\ due' = due \cup {j}
  BY DEF Pay
<1>3. job' \in [Job -> [status : {"PENDING_CONFIRMATION", "SCHEDULED"}, paid : BOOLEAN]]
  BY DEF Pay, IInv, TypeOK
<1>4. due' \subseteq Job
  BY <1>2 DEF IInv, TypeOK
<1> HIDE DEF rec
<1> QED BY <1>1, <1>2, <1>3, <1>4, StartKeeps

LEMMA RequestChangesKeeps ==
  ASSUME IInv, NEW p \in Proc, NEW h \in handed, RequestBookingChanges(p, h)
  PROVE  IInv'
<1> DEFINE rec == [Idle EXCEPT !.pc = "managers", !.job = h.job, !.reason = "CHANGE_REQUEST"]
<1>0. h.job \in Job
  BY DEF IInv, TypeOK
<1>1. rec \in Request /\ rec.pc = "managers" /\ rec.job = h.job
  BY <1>0 DEF Idle, Request, Pc, Reason
<1>2. /\ Start(p, rec) /\ UNCHANGED <<job, alert, link>> /\ Only /\ due' = due \cup {h.job}
  BY DEF RequestBookingChanges
<1>3. due' \subseteq Job /\ job' \in [Job -> [status : {"PENDING_CONFIRMATION", "SCHEDULED"}, paid : BOOLEAN]]
  BY <1>0, <1>2 DEF IInv, TypeOK
<1> HIDE DEF rec
<1> QED BY <1>0, <1>1, <1>2, <1>3, StartKeeps

LEMMA ReviewKeeps ==
  ASSUME IInv, NEW p \in Proc, NEW j \in Job, NEW confirm \in BOOLEAN, NEW changes,
         Review(p, j, confirm, changes)
  PROVE  IInv'
<1> DEFINE rec == IF confirm THEN [Idle EXCEPT !.pc = "resolve", !.job = j] ELSE Idle
<1>1. rec \in Request /\ rec.pc \in {"idle", "resolve"} /\ (rec.pc = "resolve" => rec.job = j)
  BY DEF Idle, Request, Pc, Reason
<1>2. Start(p, rec) /\ UNCHANGED <<alert, link, due>> /\ Only
  BY DEF Review
<1>3. job' \in [Job -> [status : {"PENDING_CONFIRMATION", "SCHEDULED"}, paid : BOOLEAN]]
  BY DEF Review, IInv, TypeOK
<1>4. due' = due /\ due' \subseteq Job
  BY <1>2 DEF IInv, TypeOK
<1> HIDE DEF rec
<1> QED BY <1>1, <1>2, <1>3, <1>4, StartKeeps

LEMMA EditKeeps ==
  ASSUME IInv, NEW p \in Proc, NEW j \in Job,
         NEW status \in {"PENDING_CONFIRMATION", "SCHEDULED"}, Edit(p, j, status)
  PROVE  IInv'
<1>1. Start(p, Idle) /\ UNCHANGED <<alert, link, due>> /\ Only
  BY DEF Edit
<1>2. job' \in [Job -> [status : {"PENDING_CONFIRMATION", "SCHEDULED"}, paid : BOOLEAN]]
  BY DEF Edit, IInv, TypeOK
<1>3. due' = due /\ due' \subseteq Job
  BY <1>1 DEF IInv, TypeOK
<1> QED BY <1>1, <1>2, <1>3, StartKeeps, IdleIsRequest

-----------------------------------------------------------------------------
LEMMA ReadManagersKeeps == ASSUME IInv, NEW p \in Proc, ReadManagers(p) PROVE IInv'
<1> DEFINE rec == IF manager = {} THEN Idle
                  ELSE [proc[p] EXCEPT !.pc = "upsert", !.todo = manager]
<1>1. /\ proc[p].pc = "managers" /\ Goes(p, rec)
      /\ UNCHANGED <<job, alert, link, due, ops, manager, now, handed, died>>
  BY DEF ReadManagers, At, NoWrite, Only
<1>2. proc[p] \in Request /\ proc[p].job \in Job /\ manager \subseteq Member
  BY <1>1 DEF IInv, TypeOK, Aimed, Request
<1>3. /\ rec \in Request
      /\ \/ manager = {} /\ rec.pc = "idle"
         \/ rec.pc = "upsert" /\ rec.todo = manager /\ rec.job = proc[p].job
  BY <1>2, IdleIsRequest DEF Request, Pc
<1> HIDE DEF rec
<1>4. proc' \in [Proc -> Request] /\ proc'[p] = rec /\ \A q \in Proc \ {p} : proc'[q] = proc[q]
  BY <1>1, <1>3 DEF Goes, IInv, TypeOK, Request
<1>5. TypeOK' /\ Aimed'
  BY <1>1, <1>2, <1>3, <1>4 DEF IInv, TypeOK, Aimed, Request
<1>6. LinkInv'
  BY <1>1, <1>3, LinkStays
<1>7. DueInv'
  <2>1. ASSUME NEW j \in due, NEW q \in Proc, WillRaise(q, j), manager # {}
        PROVE  WillRaise(q, j)'
    BY <1>1, <1>3, <1>4, <2>1 DEF WillRaise, IInv, DueInv
  <2>2. manager = {} => FirstManager = {}
    BY DEF IInv, DueInv
  <2> QED BY <1>1, <2>1, <2>2 DEF IInv, DueInv
<1> QED BY <1>5, <1>6, <1>7 DEF IInv

LEMMA UpsertKeeps == ASSUME IInv, NEW p \in Proc, NEW m \in Member, Upsert(p, m) PROVE IInv'
<1> DEFINE rec == IF proc[p].todo = {m} THEN Idle
                  ELSE [proc[p] EXCEPT !.todo = proc[p].todo \ {m}]
           i == proc[p].job
<1>1. /\ proc[p].pc = "upsert" /\ m \in proc[p].todo
      /\ alert' = [alert EXCEPT ![<<i, m>>] = Raised(p)]
      /\ Goes(p, rec)
      /\ UNCHANGED <<job, link, due, ops, manager, now, handed, died>>
  BY DEF Upsert, AfterUpsert, At, Only
<1>2. proc[p] \in Request /\ i \in Job /\ alert \in [AlertKeys -> AlertRow]
  BY <1>1 DEF IInv, TypeOK, Aimed, Request, AlertKeys
<1>3. /\ rec \in Request
      /\ \/ proc[p].todo = {m} /\ rec.pc = "idle"
         \/ rec.pc = "upsert" /\ rec.todo = proc[p].todo \ {m} /\ rec.job = i
  BY <1>1, <1>2, IdleIsRequest DEF Request
<1>4. Raised(p) \in AlertRow /\ Raised(p).status = "OPEN"
  BY <1>2 DEF Raised, AlertRow, Request
<1> HIDE DEF rec
<1>5. proc' \in [Proc -> Request] /\ proc'[p] = rec /\ \A q \in Proc \ {p} : proc'[q] = proc[q]
  BY <1>1, <1>3 DEF Goes, IInv, TypeOK, Request
<1>6. /\ alert' \in [AlertKeys -> AlertRow]
      /\ \A k \in AlertKeys : alert[k].status = "OPEN" => alert'[k].status = "OPEN"
      /\ alert'[<<i, m>>].status = "OPEN"
  BY <1>1, <1>2, <1>4 DEF AlertKeys
<1>7. TypeOK' /\ Aimed'
  BY <1>1, <1>2, <1>3, <1>5, <1>6 DEF IInv, TypeOK, Aimed, Request, AlertKeys
<1>8. LinkInv'
  BY <1>1, <1>3, LinkStays
<1>9. DueInv'
  <2>0. FirstManager \subseteq Member
    BY ConstantsAssumption
  <2>1. ASSUME NEW j \in due, NEW l \in Member
        PROVE  alert[<<j, l>>].status = "OPEN" => alert'[<<j, l>>].status = "OPEN"
    BY <1>6 DEF AlertKeys, IInv, TypeOK
  <2>2. ASSUME NEW j \in due, NEW q \in Proc \ {p}, WillRaise(q, j) PROVE WillRaise(q, j)'
    BY <1>5, <2>0, <2>1, <2>2 DEF WillRaise
  <2>3. ASSUME NEW j \in due, WillRaise(p, j)
        PROVE  \/ \A l \in FirstManager : alert'[<<j, l>>].status = "OPEN"
               \/ WillRaise(p, j)'
    <3>1. j = i /\ \A l \in FirstManager \ proc[p].todo : alert[<<j, l>>].status = "OPEN"
      BY <1>1, <2>3 DEF WillRaise
    <3>2. \A l \in FirstManager \ (proc[p].todo \ {m}) : alert'[<<j, l>>].status = "OPEN"
      BY <1>6, <2>0, <2>1, <3>1
    <3> QED BY <1>3, <1>5, <3>1, <3>2 DEF WillRaise
  <2> QED BY <1>1, <2>0, <2>1, <2>2, <2>3 DEF IInv, DueInv
<1> QED BY <1>7, <1>8, <1>9 DEF IInv

-----------------------------------------------------------------------------
\* The end of a request that is neither raising alerts nor minting.
LEMMA EndKeeps ==
  ASSUME IInv, NEW p \in Proc, Goes(p, Idle), proc[p].pc \in {"resolve", "read"},
         UNCHANGED <<job, link, ops>>, Only, due' \subseteq due,
         alert' \in [AlertKeys -> AlertRow],
         \A j \in due', m \in Member :
           alert[<<j, m>>].status = "OPEN" => alert'[<<j, m>>].status = "OPEN"
  PROVE  IInv'
<1>1. UNCHANGED <<manager, now, handed, died>>
  BY DEF Only
<1>2. proc' \in [Proc -> Request] /\ proc'[p] = Idle /\ \A q \in Proc \ {p} : proc'[q] = proc[q]
  BY IdleIsRequest DEF Goes, IInv, TypeOK, Request
<1>3. TypeOK' /\ Aimed'
  BY <1>1, <1>2, IdleIsRequest DEF IInv, TypeOK, Aimed, Request, AlertKeys
<1>4. LinkInv'
  BY <1>1, LinkStays, IdleIsRequest
<1>5. DueInv'
  BY <1>1, DueStays DEF IInv, DueInv
<1> QED BY <1>3, <1>4, <1>5 DEF IInv

LEMMA ResolveKeeps == ASSUME IInv, NEW p \in Proc, Resolve(p) PROVE IInv'
<1>1. /\ proc[p].pc = "resolve" /\ Goes(p, Idle)
      /\ UNCHANGED <<job, link, ops>> /\ Only /\ due' = due \ {proc[p].job}
      /\ alert \in [AlertKeys -> AlertRow] /\ due \subseteq Job
  BY DEF Resolve, At, IInv, TypeOK, AlertKeys
<1>2. alert' = [k \in AlertKeys |-> IF k[1] = proc[p].job /\ alert[k].status = "OPEN"
                                  THEN [alert[k] EXCEPT !.status = "RESOLVED"] ELSE alert[k]]
  BY <1>1 DEF Resolve
<1>3. \A row \in AlertRow : [row EXCEPT !.status = "RESOLVED"] \in AlertRow
  BY DEF AlertRow
<1>4. alert' \in [AlertKeys -> AlertRow]
  BY <1>1, <1>2, <1>3
<1>5. ASSUME NEW j \in due', NEW m \in Member
      PROVE  alert'[<<j, m>>] = alert[<<j, m>>]
  <2>1. <<j, m>> \in AlertKeys /\ <<j, m>>[1] # proc[p].job
    BY <1>1, <1>5 DEF AlertKeys
  <2> QED BY <1>2, <2>1
<1> QED BY <1>1, <1>4, <1>5, EndKeeps

LEMMA MarkReadKeeps == ASSUME IInv, NEW p \in Proc, MarkRead(p) PROVE IInv'
<1>1. /\ proc[p].pc = "read" /\ Goes(p, Idle)
      /\ UNCHANGED <<job, link, due, ops>> /\ Only
      /\ alert \in [AlertKeys -> AlertRow] /\ due \subseteq Job
  BY DEF MarkRead, At, IInv, TypeOK, AlertKeys
<1> DEFINE Marked(k) == k \in {proc[p].job} \X proc[p].todo
<1>2. alert' = [k \in AlertKeys |-> IF Marked(k) THEN [alert[k] EXCEPT !.read = TRUE]
                                  ELSE alert[k]]
  BY <1>1 DEF MarkRead
<1>3. \A row \in AlertRow : /\ [row EXCEPT !.read = TRUE] \in AlertRow
                            /\ [row EXCEPT !.read = TRUE].status = row.status
  BY DEF AlertRow
<1> HIDE DEF Marked
<1>4. alert' \in [AlertKeys -> AlertRow] /\ \A k \in AlertKeys : alert'[k].status = alert[k].status
  BY <1>1, <1>2, <1>3
<1>5. \A j \in due', m \in Member : alert'[<<j, m>>].status = alert[<<j, m>>].status
  BY <1>1, <1>4 DEF AlertKeys
<1> QED BY <1>1, <1>4, <1>5, EndKeeps

LEMMA FindAlertKeeps ==
  ASSUME IInv, NEW p \in Proc, NEW k \in DOMAIN alert, FindAlert(p, k)
  PROVE  IInv'
<1> DEFINE rec == [Idle EXCEPT !.pc = "read", !.job = k[1], !.todo = {k[2]}]
<1>0. k \in Job \X Member
  BY DEF IInv, TypeOK
<1>1. rec \in Request /\ rec.pc = "read" /\ rec.job \in Job
  BY <1>0 DEF Idle, Request, Pc, Reason
<1>2. /\ Goes(p, rec) /\ proc[p].pc = "idle"
      /\ UNCHANGED <<job, alert, link, due, ops, manager, now, handed, died>>
  BY DEF FindAlert, At, NoWrite, Only
<1> HIDE DEF rec
<1>3. proc' \in [Proc -> Request] /\ proc'[p] = rec /\ \A q \in Proc \ {p} : proc'[q] = proc[q]
  BY <1>1, <1>2 DEF Goes, IInv, TypeOK, Request
<1>4. TypeOK' /\ Aimed'
  BY <1>1, <1>2, <1>3 DEF IInv, TypeOK, Aimed, Request
<1>5. LinkInv'
  BY <1>1, <1>2, LinkStays
<1>6. DueInv'
  BY <1>2, DueStays DEF IInv, DueInv
<1> QED BY <1>4, <1>5, <1>6 DEF IInv

-----------------------------------------------------------------------------
LEMMA FindLinkKeeps == ASSUME IInv, NEW p \in Proc, NEW j \in Job, FindLink(p, j) PROVE IInv'
<1>1. /\ proc[p].pc = "idle"
      /\ UNCHANGED <<job, alert, link, due, manager, now, ops, died>>
      /\ now \in 0..MaxTime /\ link[j] \in LinkRow
  BY DEF FindLink, At, NoWrite, IInv, TypeOK, LinkRow
<1>2. CASE Valid(j)
  <2> DEFINE h == [job |-> j, token |-> link[j].token, expires |-> link[j].expires,
                   racing |-> Minting(j, p)]
  <2>1. handed' = handed \cup {h} /\ UNCHANGED proc
    BY <1>2 DEF FindLink, Hand
  <2>2. h \in Link
    BY <1>1, <1>2, ConstantsAssumption DEF Valid, Link, LinkRow, Minting
  <2>3. TypeOK' /\ Aimed' /\ DueInv'
    BY <1>1, <2>1, <2>2 DEF IInv, TypeOK, Aimed, DueInv, WillRaise, Link
  <2>4. ~h.racing => \A q \in Proc : ~(proc[q].pc = "mint" /\ proc[q].job = j)
    BY <1>1 DEF Minting, At
  <2>5. link[j] = [token |-> h.token, expires |-> h.expires]
    BY <1>1 DEF LinkRow
  <2>6. h.job = j
    OBVIOUS
  <2> HIDE DEF h
  <2>7. LinkInv'
    BY <1>1, <2>1, <2>4, <2>5, <2>6 DEF IInv, LinkInv
  <2> QED BY <2>3, <2>7 DEF IInv
<1>3. CASE ~Valid(j)
  <2> DEFINE rec == [Idle EXCEPT !.pc = "mint", !.job = j]
  <2>1. Goes(p, rec) /\ UNCHANGED handed
    BY <1>3 DEF FindLink
  <2>2. rec \in Request /\ rec.pc = "mint" /\ rec.job = j
    BY DEF Idle, Request, Pc, Reason
  <2> HIDE DEF rec
  <2>3. proc' \in [Proc -> Request] /\ proc'[p] = rec /\ \A q \in Proc \ {p} : proc'[q] = proc[q]
    BY <2>1, <2>2 DEF Goes, IInv, TypeOK, Request
  <2>4. TypeOK' /\ Aimed'
    BY <1>1, <2>1, <2>2, <2>3 DEF IInv, TypeOK, Aimed, Request
  <2>5. DueInv'
    BY <1>1, <2>1, DueStays DEF IInv, DueInv
  <2>6. ASSUME NEW h \in handed, h.expires > now, ~h.racing, h.job = j PROVE FALSE
    <3>1. link[j] = [token |-> h.token, expires |-> h.expires]
      BY <2>6 DEF IInv, LinkInv
    <3>2. h.token > 0
      BY DEF IInv, TypeOK
    <3> QED BY <1>3, <2>6, <3>1, <3>2 DEF Valid
  <2>7. LinkInv'
    BY <1>1, <2>1, <2>2, <2>3, <2>6 DEF IInv, LinkInv
  <2> QED BY <2>4, <2>5, <2>7 DEF IInv
<1> QED BY <1>2, <1>3

LEMMA MintLinkKeeps == ASSUME IInv, NEW p \in Proc, MintLink(p) PROVE IInv'
<1> DEFINE j == proc[p].job
           token == CHOOSE t \in 1..MaxToken : t \notin Tokens
           row == [token |-> token, expires |-> now + Lifetime]
           h == [job |-> j, token |-> token, expires |-> now + Lifetime,
                 racing |-> Minting(j, p)]
<1>1. /\ proc[p].pc = "mint"
      /\ link' = [link EXCEPT ![j] = row]
      /\ handed' = handed \cup {h}
      /\ Goes(p, Idle)
      /\ UNCHANGED <<job, manager, alert, now, ops, due, died>>
  BY DEF MintLink, Hand, At
<1>2. j \in Job
  BY <1>1 DEF IInv, Aimed
<1>3. token \in 1..MaxToken
  BY DEF MintLink
<1>4. now + Lifetime \in 0..MaxTime + Lifetime
  BY ConstantsAssumption DEF IInv, TypeOK
<1>5. row \in LinkRow /\ h \in Link /\ Minting(j, p) \in BOOLEAN
  BY <1>2, <1>3, <1>4, ConstantsAssumption DEF LinkRow, Link, Minting
<1>6. /\ h.job = j /\ h.racing = Minting(j, p)
      /\ row = [token |-> h.token, expires |-> h.expires]
  OBVIOUS
<1> HIDE DEF row, h, token
<1>7. proc' \in [Proc -> Request] /\ proc'[p] = Idle /\ \A q \in Proc \ {p} : proc'[q] = proc[q]
  BY <1>1, IdleIsRequest DEF Goes, IInv, TypeOK, Request
<1>8. TypeOK' /\ Aimed'
  BY <1>1, <1>2, <1>5, <1>7, IdleIsRequest DEF IInv, TypeOK, Aimed, Request, LinkRow, Link
<1>9. DueInv'
  BY <1>1, DueStays DEF IInv, DueInv
<1>10. LinkInv'
  <2>1. ASSUME NEW g \in handed, g.expires > now, ~g.racing
        PROVE  /\ link'[g.job] = [token |-> g.token, expires |-> g.expires]
               /\ \A q \in Proc : ~(proc'[q].pc = "mint" /\ proc'[q].job = g.job)
    <3>1. g.job # j /\ g.job \in Job
      BY <1>1, <2>1 DEF IInv, TypeOK, LinkInv
    <3>2. /\ link[g.job] = [token |-> g.token, expires |-> g.expires]
          /\ \A q \in Proc : ~(proc[q].pc = "mint" /\ proc[q].job = g.job)
      BY <2>1 DEF IInv, LinkInv
    <3>3. link'[g.job] = link[g.job]
      BY <1>1, <3>1 DEF IInv, TypeOK
    <3> QED BY <1>7, <3>2, <3>3, IdleIsRequest
  <2>2. link'[j] = row
    BY <1>1, <1>2 DEF IInv, TypeOK
  <2>3. ~h.racing => \A q \in Proc : ~(proc'[q].pc = "mint" /\ proc'[q].job = j)
    BY <1>6, <1>7, IdleIsRequest DEF Minting, At
  <2> QED BY <1>1, <1>6, <2>1, <2>2, <2>3 DEF LinkInv
<1> QED BY <1>8, <1>9, <1>10 DEF IInv

-----------------------------------------------------------------------------
LEMMA DieKeeps == ASSUME IInv, NEW p \in Proc, Die(p) PROVE IInv'
<1>1. /\ proc[p].pc # "idle" /\ Goes(p, Idle) /\ died' = died \cup {proc[p].job}
      /\ UNCHANGED <<job, alert, link, due, manager, now, ops, handed>>
  BY DEF Die, At, NoWrite
<1>2. proc' \in [Proc -> Request] /\ proc'[p] = Idle /\ \A q \in Proc \ {p} : proc'[q] = proc[q]
  BY <1>1, IdleIsRequest DEF Goes, IInv, TypeOK, Request
<1>3. TypeOK' /\ Aimed'
  BY <1>1, <1>2, IdleIsRequest DEF IInv, TypeOK, Aimed, Request
<1>4. LinkInv'
  BY <1>1, LinkStays, IdleIsRequest
<1>5. DueInv'
  <2>1. ASSUME NEW j \in due, NEW q \in Proc, WillRaise(q, j)
        PROVE  j \in died' \/ WillRaise(q, j)'
    BY <1>1, <1>2, <2>1 DEF WillRaise
  <2> QED BY <1>1, <2>1 DEF IInv, DueInv
<1> QED BY <1>3, <1>4, <1>5 DEF IInv

LEMMA SetRoleKeeps == ASSUME IInv, NEW m \in Member, SetRole(m) PROVE IInv'
<1>1. /\ FirstManager \subseteq manager' /\ manager' \subseteq Member /\ ops' \in 0..MaxOps
      /\ UNCHANGED <<job, alert, link, proc, now, handed, due, died>>
  BY ConstantsAssumption DEF SetRole, IInv, TypeOK, DueInv
<1> QED BY <1>1 DEF IInv, TypeOK, Aimed, DueInv, WillRaise, LinkInv

LEMMA TickKeeps == ASSUME IInv, Tick PROVE IInv'
<1>1. /\ now' = now + 1 /\ now' \in 0..MaxTime
      /\ UNCHANGED <<job, alert, link, due, manager, proc, ops, handed, died>>
  BY ConstantsAssumption DEF Tick, NoWrite, IInv, TypeOK
<1>2. \A h \in handed : h.expires \in Nat
  BY ConstantsAssumption DEF IInv, TypeOK
<1>3. LinkInv'
  BY <1>1, <1>2 DEF IInv, TypeOK, LinkInv
<1> QED BY <1>1, <1>3 DEF IInv, TypeOK, Aimed, DueInv, WillRaise

-----------------------------------------------------------------------------
LEMMA Inductive == Spec => []IInv
<1>1. Init => IInv
  BY ConstantsAssumption
  DEF Init, IInv, TypeOK, Aimed, DueInv, LinkInv, Idle, Pc, Reason, NoAlert, AlertRow, NoLink
<1>2. IInv /\ [Next]_vars => IInv'
  <2> SUFFICES ASSUME IInv, [Next]_vars PROVE IInv'
    OBVIOUS
  <2>1. CASE UNCHANGED vars
    BY <2>1 DEF vars, IInv, TypeOK, Aimed, DueInv, WillRaise, LinkInv
  <2>2. ASSUME NEW p \in Proc, Continue(p) PROVE IInv'
    BY <2>2, ReadManagersKeeps, ResolveKeeps, MarkReadKeeps, MintLinkKeeps, UpsertKeeps
    DEF Continue
  <2>3. CASE Next
    BY <2>2, <2>3, DieKeeps, RequestChangesKeeps, FindAlertKeeps, PayKeeps, FindLinkKeeps,
       ReviewKeeps, EditKeeps, SetRoleKeeps, TickKeeps
    DEF Next
  <2> QED BY <2>1, <2>3
<1> QED BY <1>1, <1>2, PTL DEF Spec

\* Alerts, links and requests are always of the types stated (alerts.service.ts,
\* booking-access.service.ts).
THEOREM TypeCorrect == Spec => []TypeOK
<1>1. IInv => TypeOK
  BY DEF IInv
<1> QED BY <1>1, Inductive, PTL

\* A booking that is due is in the inbox of every manager from the start, unless a request
\* is still to put it there or one has died, for any number of bookings, managers and
\* requests (raiseBookingReviewAlerts, resolveBookingReviewAlerts, reviewJob).
THEOREM DueCorrect == Spec => []DueIsInInbox
<1>1. IInv => DueIsInInbox
  BY DEF IInv, TypeOK, DueInv, DueIsInInbox, WillRaise, Raising, InInbox, Listed
<1> QED BY <1>1, Inductive, PTL

\* The link a customer was given opens the booking until it expires, whoever asks for or
\* mints links, unless another was being minted when it was given
\* (ensureBookingAccessLink).
THEOREM LinksCorrect == Spec => []LinksWork
<1>1. ASSUME IInv, NEW h \in handed, h.expires > now, ~h.racing PROVE Works(h)
  <2>1. link[h.job] = [token |-> h.token, expires |-> h.expires]
    BY <1>1 DEF IInv, LinkInv
  <2> QED BY <1>1, <2>1 DEF Works
<1>2. IInv => LinksWork
  BY <1>1 DEF LinksWork
<1> QED BY <1>2, Inductive, PTL
=============================================================================
