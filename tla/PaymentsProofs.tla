--------------------------- MODULE PaymentsProofs ---------------------------
(***************************************************************************)
(* Proofs about Payments, for any jobs, checkouts, prices and number of    *)
(* concurrent requests.                                                    *)
(***************************************************************************)
EXTENDS PaymentsBooks, TLAPS

(***************************************************************************)
(* The computations on a job's money columns stay within their types.      *)
(***************************************************************************)
LEMMA LessType == \A a, b \in Nat : Less(a, b) \in Nat
BY DEF Less

LEMMA CreatedType == \A t \in Nat : Created(t) \in Money
BY DEF Created, Money

LEMMA LedgerType ==
  \A row, seen \in Money, n \in Nat :
    /\ Redrafted(row, n) \in Money
    /\ Repriced(row, seen, n) \in Money
    /\ Credited(row, seen, n) \in Money
    /\ Refunded(row, seen, n) \in Money
<1> SUFFICES ASSUME NEW row \in Money, NEW seen \in Money, NEW n \in Nat
             PROVE  /\ Redrafted(row, n) \in Money
                    /\ Repriced(row, seen, n) \in Money
                    /\ Credited(row, seen, n) \in Money
                    /\ Refunded(row, seen, n) \in Money
  OBVIOUS
<1>1. seen.total \in Nat /\ seen.paid \in Nat /\ row.paidAt \in BOOLEAN
  BY DEF Money
<1>2. Less(n, seen.paid) \in Nat
  BY <1>1, LessType
<1>3. /\ seen.paid + n \in Nat
      /\ Less(seen.total, seen.paid + n) \in Nat
  <2>1. seen.paid + n \in Nat
    BY <1>1
  <2> QED BY <1>1, <2>1, LessType
<1>4. Less(seen.paid, n) \in Nat /\ Less(seen.total, Less(seen.paid, n)) \in Nat
  BY <1>1, LessType
<1>5. Redrafted(row, n) \in Money
  BY DEF Redrafted, Money
<1>6. Repriced(row, seen, n) \in Money
  BY <1>2 DEF Repriced, Money
<1>7. Credited(row, seen, n) \in Money
  BY <1>1, <1>3 DEF Credited, Money
<1>8. Refunded(row, seen, n) \in Money
  BY <1>4 DEF Refunded, Money
<1> QED BY <1>5, <1>6, <1>7, <1>8

LEMMA IdleType == Idle \in Request
BY CreatedType DEF Idle, Request, Pc

-----------------------------------------------------------------------------
(***************************************************************************)
(* A request names the job and the checkout it works on.  This is what     *)
(* makes TypeOK inductive: a handler indexes the tables with the key and   *)
(* the job its request carries.                                            *)
(***************************************************************************)
OnCheckout(p) == proc[p].key \in Key /\ proc[p].job = JobOf[proc[p].key]
Aimed ==
  \A p \in Proc :
    /\ proc[p].pc \in {"findPayment", "createSession", "upsertPayment",
                       "creditBegin", "creditCommit", "refundCommit"} => OnCheckout(p)
    /\ proc[p].pc \in {"raiseAlert", "repriceCommit"} => proc[p].job \in Job

TypeInv == TypeOK /\ Aimed

\* What a request's step changes of the requests.
LEMMA GotoFacts ==
  ASSUME proc \in [Proc -> Request], NEW p \in Proc, NEW pc \in Pc, Goto(p, pc)
  PROVE  /\ proc' \in [Proc -> Request]
         /\ proc'[p].pc = pc /\ proc'[p].key = proc[p].key
         /\ proc'[p].job = proc[p].job /\ proc'[p].event = proc[p].event
         /\ proc'[p].amount = proc[p].amount /\ proc'[p].seen = proc[p].seen
         /\ \A q \in Proc \ {p} : proc'[q] = proc[q]
BY DEF Goto, Request

LEMMA ReturnFacts ==
  ASSUME proc \in [Proc -> Request], NEW p \in Proc, Return(p)
  PROVE  /\ proc' \in [Proc -> Request]
         /\ proc'[p] = Idle
         /\ \A q \in Proc \ {p} : proc'[q] = proc[q]
BY IdleType DEF Return

LEMMA TypeInvInit == Init => TypeInv
<1> SUFFICES ASSUME Init PROVE TypeInv
  OBVIOUS
<1>1. TypeOK
  BY ConstantsAssumption, CreatedType, IdleType
  DEF Init, TypeOK, PaymentRow, PaymentStatus, Session, SessionState
<1>2. Aimed
  BY DEF Init, Aimed, Idle
<1> QED BY <1>1, <1>2 DEF TypeInv

LEMMA TypeInvStep == TypeInv /\ [Next]_vars => TypeInv'
<1> SUFFICES ASSUME TypeInv, [Next]_vars PROVE TypeInv'
  OBVIOUS
<1> USE ConstantsAssumption DEF TypeInv, TypeOK, Aimed, OnCheckout, At, Goto, Return,
        stripeVars, serverVars
<1>1. ASSUME NEW p \in Proc, NEW k \in Key, CheckoutStart(p, k) PROVE TypeInv'
  <2>1. job[JobOf[k]].balance \in Nat
    BY DEF Money
  <2>2. proc' \in [Proc -> Request]
    BY <1>1, <2>1, IdleType DEF CheckoutStart, Request, Idle, Pc
  <2> QED BY <1>1, <2>2 DEF CheckoutStart, Idle
<1>2. ASSUME NEW p \in Proc, CheckoutFind(p) PROVE TypeInv'
  BY <1>2, IdleType DEF CheckoutFind, Request, Idle, Pc
<1>3. ASSUME NEW p \in Proc, CheckoutCreate(p) PROVE TypeInv'
  <2>1. session' \in [Key -> Session]
    BY <1>3 DEF CheckoutCreate, Session, SessionState, Request
  <2>2. CASE Goto(p, "upsertPayment")
    BY <1>3, <2>1, <2>2 DEF CheckoutCreate, Request, Pc
  <2>3. CASE Return(p)
    BY <1>3, <2>1, <2>3, IdleType DEF CheckoutCreate, Idle
  <2> QED BY <1>3, <2>2, <2>3 DEF CheckoutCreate
<1>4. ASSUME NEW p \in Proc, CheckoutUpsert(p) PROVE TypeInv'
  <2>1. payment' \in [Key -> PaymentRow]
    BY <1>4 DEF CheckoutUpsert, PaymentRow, PaymentStatus, Request
  <2> QED BY <1>4, <2>1, IdleType DEF CheckoutUpsert, Request, Idle, Pc
<1>5. ASSUME NEW p \in Proc, NEW k \in Key, NEW e \in events \cup {None},
             CompletionFind(p, k, e) PROVE TypeInv'
  <2>1. payment[k].amount \in Nat
    BY DEF PaymentRow
  <2>2. proc' \in [Proc -> Request]
    BY <1>5, <2>1, IdleType DEF CompletionFind, Request, Idle, Pc
  <2> QED BY <1>5, <2>2 DEF CompletionFind, Idle
<1>6. ASSUME NEW p \in Proc, CreditBegin(p) PROVE TypeInv'
  <2>1. proc[p].job \in Job
    BY <1>6 DEF CreditBegin
  <2>2. [proc[p] EXCEPT !.pc = "creditCommit", !.seen = job[proc[p].job]] \in Request
    <3>1. \A r \in Request, m \in Money :
            [r EXCEPT !.pc = "creditCommit", !.seen = m] \in Request
      BY DEF Request, Pc
    <3>2. job[proc[p].job] \in Money
      BY <2>1
    <3> QED BY <3>1, <3>2
  <2>3. proc' \in [Proc -> Request]
    BY <1>6, <2>2 DEF CreditBegin
  <2> QED BY <1>6, <2>3 DEF CreditBegin
<1>7. ASSUME NEW p \in Proc, CreditCommit(p) PROVE TypeInv'
  <2>1. payment' \in [Key -> PaymentRow]
    BY <1>7 DEF CreditCommit, PaymentRow, PaymentStatus
  <2>2. proc[p].seen \in Money /\ proc[p].amount \in Nat
    BY DEF Request
  <2>3. job' \in [Job -> Money]
    BY <1>7, <2>2, LedgerType DEF CreditCommit
  <2>4. PICK pc \in {"raiseAlert", "answer"} : Goto(p, pc)
    BY <1>7 DEF CreditCommit
  <2>5. pc \in Pc
    BY DEF Pc
  <2>6. /\ proc' \in [Proc -> Request]
        /\ proc'[p].pc = pc /\ proc'[p].job = proc[p].job
        /\ \A q \in Proc \ {p} : proc'[q] = proc[q]
    BY <2>4, <2>5, GotoFacts
  <2>7. TypeOK'
    BY <1>7, <2>1, <2>3, <2>6 DEF CreditCommit
  <2>8. proc[p].job \in Job
    BY <1>7 DEF CreditCommit
  <2>9. Aimed'
    BY <2>6, <2>8
  <2> QED BY <2>7, <2>9
<1>8. ASSUME NEW p \in Proc, RaiseAlert(p) PROVE TypeInv'
  BY <1>8 DEF RaiseAlert, Request, Pc
<1>9. ASSUME NEW p \in Proc, NEW e \in events, WebhookFailed(p, e) PROVE TypeInv'
  <2>1. e.key \in Key
    BY DEF Event
  <2>2. payment' \in [Key -> PaymentRow]
    <3>1. [payment[e.key] EXCEPT !.status = "FAILED"] \in PaymentRow
      BY <2>1 DEF PaymentRow, PaymentStatus
    <3> QED BY <1>9, <2>1, <3>1 DEF WebhookFailed
  <2>3. proc' \in [Proc -> Request]
    BY <1>9, IdleType DEF WebhookFailed, Request, Idle, Pc
  <2> QED BY <1>9, <2>2, <2>3 DEF WebhookFailed, Idle
<1>10. ASSUME NEW p \in Proc, NEW e \in events, WebhookRefunded(p, e) PROVE TypeInv'
  <2>1. e.key \in Key /\ e.refunded \in Nat
    BY DEF Event
  <2>2. /\ JobOf[e.key] \in Job
        /\ job[JobOf[e.key]] \in Money
    BY <2>1
  <2>3. CASE payment[e.key].intent
    <3> DEFINE r == [pc |-> "refundCommit", job |-> JobOf[e.key], key |-> e.key,
                     event |-> e, amount |-> e.refunded, seen |-> job[JobOf[e.key]]]
    <3>1. r \in Request
      BY <2>1, <2>2 DEF Request, Pc
    <3>2. proc' = [proc EXCEPT ![p] = r]
      BY <1>10, <2>3 DEF WebhookRefunded
    <3>3. r.key = e.key /\ r.job = JobOf[e.key] /\ r.pc = "refundCommit"
      OBVIOUS
    <3> HIDE DEF r
    <3> QED BY <1>10, <2>1, <3>1, <3>2, <3>3 DEF WebhookRefunded
  <2>4. CASE ~payment[e.key].intent
    <3> DEFINE r == [Idle EXCEPT !.pc = "answer", !.event = e]
    <3>1. r \in Request /\ r.pc = "answer"
      BY IdleType DEF Request, Idle, Pc
    <3>2. proc' = [proc EXCEPT ![p] = r]
      BY <1>10, <2>4 DEF WebhookRefunded
    <3> HIDE DEF r
    <3> QED BY <1>10, <3>1, <3>2 DEF WebhookRefunded
  <2> QED BY <2>3, <2>4
<1>11. ASSUME NEW p \in Proc, RefundCommit(p) PROVE TypeInv'
  <2>1. payment' \in [Key -> PaymentRow]
    BY <1>11 DEF RefundCommit, PaymentRow, PaymentStatus
  <2>2. proc[p].seen \in Money /\ proc[p].amount \in Nat
    BY DEF Request
  <2>3. job' \in [Job -> Money]
    BY <1>11, <2>2, LedgerType DEF RefundCommit
  <2>4. proc' \in [Proc -> Request]
    BY <1>11 DEF RefundCommit, Request, Pc
  <2> QED BY <1>11, <2>1, <2>3, <2>4 DEF RefundCommit
<1>12. ASSUME NEW p \in Proc, Answer(p) PROVE TypeInv'
  BY <1>12, IdleType DEF Answer, Idle
<1>13. ASSUME NEW p \in Proc, NEW j \in Job, NEW total \in Price, Redraft(p, j, total)
       PROVE TypeInv'
  <2>1. job' \in [Job -> Money]
    BY <1>13, LedgerType DEF Redraft
  <2> QED BY <1>13, <2>1 DEF Redraft
<1>14. ASSUME NEW p \in Proc, NEW j \in Job, NEW total \in LineItemTotal,
              RepriceBegin(p, j, total) PROVE TypeInv'
  <2>1. proc' \in [Proc -> Request]
    BY <1>14, IdleType DEF RepriceBegin, Request, Idle, Pc
  <2> QED BY <1>14, <2>1 DEF RepriceBegin, Idle
<1>15. ASSUME NEW p \in Proc, RepriceCommit(p) PROVE TypeInv'
  <2>1. proc[p].seen \in Money /\ proc[p].amount \in Nat
    BY DEF Request
  <2>2. job' \in [Job -> Money]
    BY <1>15, <2>1, LedgerType DEF RepriceCommit
  <2> QED BY <1>15, <2>2, IdleType DEF RepriceCommit, Idle
<1>16. ASSUME NEW p \in Proc, Die(p) PROVE TypeInv'
  BY <1>16, IdleType DEF Die, Idle
<1>17. ASSUME NEW k \in Key, Pay(k) \/ Decline(k) \/ Submit(k) \/ Settle(k)
       PROVE TypeInv'
  <2>1. session' \in [Key -> Session]
    <3>1. [session[k] EXCEPT !.declined = TRUE] \in Session
      BY DEF Session
    <3>2. \A s \in SessionState : [session[k] EXCEPT !.state = s] \in Session
      BY DEF Session
    <3>3. \A s \in SessionState : SessionBecomes(k, s) => session' \in [Key -> Session]
      BY <3>2 DEF SessionBecomes
    <3>4. {"paid", "processing", "lapsed"} \subseteq SessionState
      BY DEF SessionState
    <3> QED BY <1>17, <3>1, <3>3, <3>4 DEF Pay, Decline, Submit, Settle
  <2>2. events' \subseteq Event
    BY <1>17 DEF Pay, Decline, Submit, Settle, Emit, Event, EventType
  <2> QED BY <1>17, <2>1, <2>2 DEF Pay, Decline, Submit, Settle
<1>18. ASSUME NEW k \in Key, NEW amount \in 1..session[k].amount, IssueRefund(k, amount)
       PROVE TypeInv'
  <2>1. session[k].refunded + amount \in Nat
    BY DEF Session
  <2>2. session' \in [Key -> Session]
    BY <1>18, <2>1 DEF IssueRefund, Session
  <2>3. events' \subseteq Event
    BY <1>18, <2>1 DEF IssueRefund, Emit, Event, EventType
  <2> QED BY <1>18, <2>2, <2>3 DEF IssueRefund
<1>19. CASE UNCHANGED vars
  BY <1>19 DEF vars
<1> QED
  BY <1>1, <1>2, <1>3, <1>4, <1>5, <1>6, <1>7, <1>8, <1>9, <1>10, <1>11, <1>12,
     <1>13, <1>14, <1>15, <1>16, <1>17, <1>18, <1>19
  DEF Next, Handler, Webhook, Stripe, WebhookCompleted, Poll, Reconcile, Event
-----------------------------------------------------------------------------
THEOREM TypeInvariant == Spec => []TypeInv
<1> QED BY TypeInvInit, TypeInvStep, PTL DEF Spec

\* Every variable keeps its type; in particular a job's paid amount and balance
\* never go below zero, whatever is refunded or edited in whatever order.
THEOREM TypeCorrect == Spec => []TypeOK
<1>1. TypeInv => TypeOK
  BY DEF TypeInv
<1> QED BY <1>1, TypeInvariant, PTL

-----------------------------------------------------------------------------
(***************************************************************************)
(* SessionsAreBooked is not inductive: the row is written from the amount  *)
(* its request carries, and a row that is credited or refunded is taken    *)
(* to exist because the request saw it.  BookedInv adds what the requests  *)
(* in progress know.                                                       *)
(***************************************************************************)
HasSession(k, amount) == session[k].state # "none" /\ session[k].amount = amount
Exists(k) == payment[k].status # "none"

BookedInv ==
  /\ SessionsAreBooked
  /\ \A k \in Key : payment[k].intent => Exists(k)
  /\ \A p \in Proc :
       /\ proc[p].pc = "upsertPayment" => HasSession(proc[p].key, proc[p].amount)
       /\ proc[p].pc \in {"creditBegin", "creditCommit", "refundCommit"} =>
            Exists(proc[p].key)

LEMMA BookedInvInit == Init => BookedInv
BY DEF Init, BookedInv, SessionsAreBooked, Idle

LEMMA BookedInvStep == TypeInv /\ BookedInv /\ [Next]_vars => BookedInv'
<1> SUFFICES ASSUME TypeInv, BookedInv, [Next]_vars PROVE BookedInv'
  OBVIOUS
<1> USE ConstantsAssumption DEF HasSession, Exists, At, stripeVars, serverVars
<1>1. /\ payment \in [Key -> PaymentRow]
      /\ session \in [Key -> Session]
      /\ proc \in [Proc -> Request]
      /\ urls \subseteq Key
      /\ events \subseteq Event
  BY DEF TypeInv, TypeOK
<1>2. \A p \in Proc :
        proc[p].pc \in {"findPayment", "createSession", "upsertPayment",
                        "creditBegin", "creditCommit", "refundCommit"} =>
          proc[p].key \in Key
  BY DEF TypeInv, Aimed, OnCheckout
\* A step of p that writes neither rows nor sessions and takes p to none of the
\* statements BookedInv speaks of.
<1>3. ASSUME UNCHANGED <<payment, session, urls>>, NEW p \in Proc,
             \A q \in Proc \ {p} : proc'[q] = proc[q],
             proc'[p] = proc[p] \/ proc'[p].pc \notin
               {"upsertPayment", "creditBegin", "creditCommit", "refundCommit"}
      PROVE  BookedInv'
  BY <1>3 DEF BookedInv, SessionsAreBooked
<1>4. ASSUME NEW p \in Proc, NEW k \in Key, CheckoutStart(p, k) PROVE BookedInv'
  BY <1>1, <1>3, <1>4 DEF CheckoutStart, Idle
<1>5. ASSUME NEW p \in Proc, CheckoutFind(p) PROVE BookedInv'
  <2>1. CASE ~Exists(proc[p].key)
    <3>1. /\ Goto(p, "createSession")
          /\ UNCHANGED <<payment, session, urls>>
      BY <1>5, <2>1 DEF CheckoutFind
    <3>2. "createSession" \in Pc
      BY DEF Pc
    <3> QED BY <1>1, <1>3, <3>1, <3>2, GotoFacts
  <2>2. CASE Exists(proc[p].key)
    <3>1. proc[p].key \in Key /\ Return(p) /\ urls' = urls \cup {proc[p].key}
      BY <1>2, <1>5, <2>2 DEF CheckoutFind
    <3> QED BY <1>1, <1>5, <2>2, <3>1, ReturnFacts
            DEF BookedInv, SessionsAreBooked, CheckoutFind, Idle
  <2> QED BY <2>1, <2>2
<1>6. ASSUME NEW p \in Proc, CheckoutCreate(p) PROVE BookedInv'
  <2> DEFINE k == proc[p].key
  <2>1. /\ k \in Key
        /\ UNCHANGED <<payment, urls>>
        /\ \A l \in Key \ {k} : session'[l] = session[l]
        /\ session[k].state # "none" => session'[k] = session[k]
    BY <1>1, <1>2, <1>6 DEF CheckoutCreate
  <2>2. CASE session[k].state # "none" /\ session[k].amount # proc[p].amount
    <3>1. Return(p) /\ UNCHANGED <<payment, session, urls>>
      BY <1>6, <2>2 DEF CheckoutCreate
    <3> QED BY <1>1, <1>3, <3>1, ReturnFacts DEF Idle
  <2>3. CASE session[k].state = "none" \/ session[k].amount = proc[p].amount
    <3>1. /\ Goto(p, "upsertPayment")
          /\ session'[k].state # "none" /\ session'[k].amount = proc[p].amount
      <4>1. CASE session[k].state = "none"
        BY <1>1, <1>6, <2>1, <4>1 DEF CheckoutCreate, Session
      <4>2. CASE session[k].state # "none"
        BY <1>6, <2>3, <4>2 DEF CheckoutCreate
      <4> QED BY <4>1, <4>2
    <3>2. /\ proc'[p].key = k /\ proc'[p].amount = proc[p].amount
          /\ proc'[p].pc = "upsertPayment"
          /\ \A q \in Proc \ {p} : proc'[q] = proc[q]
      BY <1>1, <3>1, GotoFacts DEF Pc
    <3> QED BY <1>1, <1>2, <2>1, <3>1, <3>2 DEF BookedInv, SessionsAreBooked
  <2> QED BY <2>2, <2>3
<1>7. ASSUME NEW p \in Proc, CheckoutUpsert(p) PROVE BookedInv'
  <2> DEFINE k == proc[p].key
  <2>1. /\ k \in Key
        /\ HasSession(k, proc[p].amount)
        /\ UNCHANGED session
        /\ urls' = urls \cup {k}
        /\ Return(p)
    BY <1>2, <1>7 DEF CheckoutUpsert, BookedInv
  <2>2. /\ \A l \in Key \ {k} : payment'[l] = payment[l]
        /\ payment'[k].status = "REQUIRES_ACTION"
        /\ payment'[k].amount = IF Exists(k) THEN payment[k].amount ELSE proc[p].amount
    BY <1>1, <1>7, <2>1 DEF CheckoutUpsert, PaymentRow
  <2>3. HasSession(k, payment'[k].amount)
    BY <2>1, <2>2 DEF BookedInv, SessionsAreBooked
  <2> QED BY <1>1, <1>2, <2>1, <2>2, <2>3, ReturnFacts DEF BookedInv, SessionsAreBooked, Idle
<1>8. ASSUME NEW p \in Proc, NEW k \in Key, NEW e, CompletionFind(p, k, e)
      PROVE  BookedInv'
  <2>1. /\ UNCHANGED <<payment, session, urls>>
        /\ proc'[p].key = k
        /\ proc'[p].pc = IF payment[k].status \in {"none", "SUCCEEDED"}
                         THEN "answer" ELSE "creditBegin"
        /\ \A q \in Proc \ {p} : proc'[q] = proc[q]
    BY <1>1, <1>8 DEF CompletionFind, Idle
  <2> QED BY <1>1, <2>1 DEF BookedInv, SessionsAreBooked
<1>9. ASSUME NEW p \in Proc, CreditBegin(p) PROVE BookedInv'
  <2>1. /\ UNCHANGED <<payment, session, urls>>
        /\ proc[p].pc = "creditBegin" /\ proc'[p].pc = "creditCommit"
        /\ proc'[p].key = proc[p].key
        /\ \A q \in Proc \ {p} : proc'[q] = proc[q]
    BY <1>1, <1>9 DEF CreditBegin, Request
  <2> QED BY <1>1, <2>1 DEF BookedInv, SessionsAreBooked
<1>10. ASSUME NEW p \in Proc, CreditCommit(p) PROVE BookedInv'
  <2> DEFINE k == proc[p].key
  <2>1. /\ k \in Key
        /\ Exists(k)
        /\ UNCHANGED <<session, urls>>
    BY <1>2, <1>10 DEF CreditCommit, BookedInv
  <2>2. /\ \A l \in Key \ {k} : payment'[l] = payment[l]
        /\ payment'[k].status = "SUCCEEDED"
        /\ payment'[k].amount = payment[k].amount
    BY <1>1, <1>10, <2>1 DEF CreditCommit, PaymentRow
  <2>3. /\ proc'[p].pc \in {"raiseAlert", "answer"}
        /\ \A q \in Proc \ {p} : proc'[q] = proc[q]
    BY <1>1, <1>10, GotoFacts DEF CreditCommit, Pc
  <2> QED BY <1>1, <1>2, <2>1, <2>2, <2>3 DEF BookedInv, SessionsAreBooked
<1>11. ASSUME NEW p \in Proc, RaiseAlert(p) PROVE BookedInv'
  BY <1>1, <1>3, <1>11, GotoFacts DEF RaiseAlert, Pc
<1>12. ASSUME NEW p \in Proc, NEW e \in events, WebhookFailed(p, e) PROVE BookedInv'
  <2>1. /\ e.key \in Key
        /\ UNCHANGED <<session, urls>>
        /\ proc'[p].pc = "answer"
        /\ \A q \in Proc \ {p} : proc'[q] = proc[q]
    BY <1>1, <1>12 DEF WebhookFailed, Idle, Event
  <2>2. CASE payment[e.key].intent
    <3>1. /\ \A l \in Key \ {e.key} : payment'[l] = payment[l]
          /\ payment'[e.key].status = "FAILED"
          /\ payment'[e.key].amount = payment[e.key].amount
      BY <1>1, <1>12, <2>1, <2>2 DEF WebhookFailed, PaymentRow
    <3> QED BY <1>1, <1>2, <2>1, <2>2, <3>1 DEF BookedInv, SessionsAreBooked
  <2>3. CASE ~payment[e.key].intent
    BY <1>3, <1>12, <2>1, <2>3 DEF WebhookFailed
  <2> QED BY <2>2, <2>3
<1>13. ASSUME NEW p \in Proc, NEW e \in events, WebhookRefunded(p, e) PROVE BookedInv'
  <2>1. /\ UNCHANGED <<payment, session, urls>>
        /\ \A q \in Proc \ {p} : proc'[q] = proc[q]
    BY <1>1, <1>13 DEF WebhookRefunded
  <2>2. CASE payment[e.key].intent
    <3>1. e.key \in Key /\ proc'[p].key = e.key
      BY <1>1, <1>13, <2>2 DEF WebhookRefunded, Event
    <3>2. proc'[p].pc = "refundCommit"
      BY <1>1, <1>13, <2>2 DEF WebhookRefunded
    <3> QED BY <1>1, <2>1, <2>2, <3>1, <3>2 DEF BookedInv, SessionsAreBooked
  <2>3. CASE ~payment[e.key].intent
    <3>1. proc' = [proc EXCEPT ![p] = [Idle EXCEPT !.pc = "answer", !.event = e]]
      BY <1>13, <2>3 DEF WebhookRefunded
    <3>2. proc'[p].pc = "answer"
      BY <1>1, <3>1 DEF Idle
    <3>3. UNCHANGED <<payment, session, urls>>
      BY <2>1
    <3> QED BY <1>3, <2>1, <3>2, <3>3
  <2> QED BY <2>2, <2>3
<1>14. ASSUME NEW p \in Proc, RefundCommit(p) PROVE BookedInv'
  <2> DEFINE k == proc[p].key
  <2>1. /\ k \in Key
        /\ Exists(k)
        /\ UNCHANGED <<session, urls>>
    BY <1>2, <1>14 DEF RefundCommit, BookedInv
  <2>2. /\ \A l \in Key \ {k} : payment'[l] = payment[l]
        /\ payment'[k].status = "REFUNDED"
        /\ payment'[k].amount = payment[k].amount
    BY <1>1, <1>14, <2>1 DEF RefundCommit, PaymentRow
  <2>3. /\ proc'[p].pc = "answer"
        /\ \A q \in Proc \ {p} : proc'[q] = proc[q]
    BY <1>1, <1>14, GotoFacts DEF RefundCommit, Pc
  <2> QED BY <1>1, <1>2, <2>1, <2>2, <2>3 DEF BookedInv, SessionsAreBooked
<1>15. ASSUME NEW p \in Proc, Answer(p) \/ RepriceCommit(p) \/ Die(p)
       PROVE  BookedInv'
  <2>1. Return(p) /\ UNCHANGED <<payment, session, urls>>
    BY <1>15 DEF Answer, RepriceCommit, Die
  <2> QED BY <1>1, <1>3, <2>1, ReturnFacts DEF Idle
<1>16. ASSUME NEW p \in Proc, NEW j \in Job, NEW total, RepriceBegin(p, j, total)
       PROVE  BookedInv'
  BY <1>1, <1>3, <1>16 DEF RepriceBegin, Idle
<1>17. ASSUME NEW p \in Proc, NEW j \in Job, NEW total, Redraft(p, j, total)
       PROVE  BookedInv'
  BY <1>3, <1>17 DEF Redraft
<1>18. ASSUME NEW k \in Key, NEW amount,
              Pay(k) \/ Decline(k) \/ Submit(k) \/ Settle(k) \/ IssueRefund(k, amount)
       PROVE  BookedInv'
  <2>1. UNCHANGED <<payment, proc, urls>>
    BY <1>18 DEF Pay, Decline, Submit, Settle, IssueRefund
  <2> DEFINE Keeps(l) == /\ session'[l].amount = session[l].amount
                         /\ session[l].state # "none" => session'[l].state # "none"
  <2>2. \A l \in Key : Keeps(l)
    <3>1. ASSUME NEW s \in {"paid", "processing", "lapsed"}, SessionBecomes(k, s)
          PROVE  \A l \in Key : Keeps(l)
      BY <1>1, <3>1 DEF SessionBecomes, Session
    <3>2. CASE Decline(k) \/ IssueRefund(k, amount)
      BY <1>1, <3>2 DEF Decline, IssueRefund, Session
    <3> QED BY <1>18, <3>1, <3>2 DEF Pay, Submit, Settle
  <2> QED BY <1>1, <1>2, <2>1, <2>2 DEF BookedInv, SessionsAreBooked
<1>19. CASE UNCHANGED vars
  BY <1>19 DEF vars, BookedInv, SessionsAreBooked
<1> QED
  BY <1>4, <1>5, <1>6, <1>7, <1>8, <1>9, <1>10, <1>11, <1>12, <1>13, <1>14, <1>15,
     <1>16, <1>17, <1>18, <1>19, <1>1
  DEF Next, Handler, Webhook, Stripe, WebhookCompleted, Poll, Reconcile, Event

\* A URL is answered only for a checkout whose row is written with the amount
\* its session charges, for any number of requests, keys and prices.
THEOREM BookedCorrect == Spec => []SessionsAreBooked
<1>1. BookedInv => SessionsAreBooked
  BY DEF BookedInv
<1>2. Spec => []BookedInv
  BY TypeInvariant, BookedInvInit, BookedInvStep, PTL DEF Spec
<1> QED BY <1>1, <1>2, PTL

-----------------------------------------------------------------------------
(***************************************************************************)
(* CreditsAreFunded: a request that is about to credit was told so by a    *)
(* session that is paid, or by an event such a session has emitted.        *)
(***************************************************************************)
FundedInv ==
  "async" \notin StripeBehaviour =>
    /\ \A k \in Key : /\ session[k].state # "processing"
                      /\ payment[k].intent => session[k].state = "paid"
    /\ \A e \in events : e.type \in CompletionType => session[e.key].state = "paid"
    /\ \A p \in Proc : proc[p].pc \in {"creditBegin", "creditCommit"} =>
                         session[proc[p].key].state = "paid"

(***************************************************************************)
(* PaidAtIsEarned: besides paidAt, the paid amount, in the row and in the  *)
(* copies of it that requests have read, comes from a paid checkout.       *)
(***************************************************************************)
Earned(j) == \E k \in Key : JobOf[k] = j /\ session[k].state = "paid"
EarnedInv ==
  "async" \notin StripeBehaviour =>
    /\ \A j \in Job : job[j].paidAt \/ job[j].paid > 0 => Earned(j)
    /\ \A p \in Proc :
         proc[p].pc \in {"creditCommit", "refundCommit", "repriceCommit"} =>
           (proc[p].seen.paid > 0 => Earned(proc[p].job))

(***************************************************************************)
(* PaidFallsOnlyByRefund: the lock of the payment row admits one           *)
(* transaction, so with one checkout per job the paid amount it has read   *)
(* is still the row's when it commits.                                     *)
(***************************************************************************)
Holds(p) == proc[p].pc \in {"creditCommit", "refundCommit"}
LockInv ==
  OneCheckoutPerJob =>
    /\ \A p, q \in Proc : Holds(p) /\ Holds(q) /\ proc[p].key = proc[q].key => p = q
    /\ \A p \in Proc : Holds(p) => proc[p].seen.paid = job[proc[p].job].paid

-----------------------------------------------------------------------------
(***************************************************************************)
(* What each step changes of the sessions, the requests and the jobs.      *)
(***************************************************************************)

\* The steps that neither read a job's money to write it back nor write it.
Quiet(p) ==
  \/ \E k \in Key : CheckoutStart(p, k)
  \/ CheckoutFind(p) \/ CheckoutCreate(p) \/ CheckoutUpsert(p) \/ RaiseAlert(p)
  \/ \E e \in events : WebhookFailed(p, e)
  \/ \E e \in events : WebhookRefunded(p, e) /\ ~payment[e.key].intent
  \/ Answer(p) \/ Die(p)

Others(p) == \A q \in Proc \ {p} : proc'[q] = proc[q]

LEMMA TypeFacts ==
  TypeInv => /\ job \in [Job -> Money]
             /\ payment \in [Key -> PaymentRow]
             /\ session \in [Key -> Session]
             /\ proc \in [Proc -> Request]
             /\ urls \subseteq Key
             /\ events \subseteq Event
             /\ \A p \in Proc :
                  /\ proc[p].pc \in {"createSession", "upsertPayment", "creditBegin",
                                     "creditCommit", "refundCommit"} =>
                       proc[p].key \in Key /\ proc[p].job = JobOf[proc[p].key]
                  /\ proc[p].pc \in {"creditBegin", "creditCommit", "refundCommit",
                                     "repriceCommit"} => proc[p].job \in Job
BY ConstantsAssumption DEF TypeInv, TypeOK, Aimed, OnCheckout

QuietEffect(p) ==
  /\ UNCHANGED job
  /\ events' \subseteq events
  /\ \A k \in Key : /\ payment'[k].intent = payment[k].intent
                    /\ \/ session'[k].state = session[k].state
                       \/ session[k].state = "none" /\ session'[k].state = "open"
  /\ Others(p)
  /\ proc'[p].pc \notin {"creditBegin", "creditCommit", "refundCommit", "repriceCommit"}

LEMMA QuietStep ==
  ASSUME TypeInv, NEW p \in Proc, Quiet(p)
  PROVE  QuietEffect(p)
<1> USE TypeFacts DEF At, Others, stripeVars, serverVars, QuietEffect
<1>1. ASSUME NEW k \in Key, CheckoutStart(p, k) PROVE QuietEffect(p)
  BY <1>1 DEF CheckoutStart, Idle
<1>2. CASE CheckoutFind(p)
  BY <1>2, GotoFacts, ReturnFacts DEF CheckoutFind, Idle, Pc
<1>3. CASE CheckoutCreate(p)
  <2>1. /\ UNCHANGED <<job, payment, events>>
        /\ Goto(p, "upsertPayment") \/ Return(p)
    BY <1>3 DEF CheckoutCreate
  <2>2. Others(p) /\ proc'[p].pc \in {"upsertPayment", "idle"}
    BY <2>1, GotoFacts, ReturnFacts DEF Idle, Pc
  <2>3. CASE session[proc[p].key].state = "none"
    BY <1>3, <2>1, <2>2, <2>3 DEF CheckoutCreate, Session
  <2>4. CASE session[proc[p].key].state # "none"
    BY <1>3, <2>1, <2>2, <2>4 DEF CheckoutCreate
  <2> QED BY <2>3, <2>4
<1>4. CASE CheckoutUpsert(p)
  <2>1. /\ UNCHANGED <<job, session, events>>
        /\ Return(p)
    BY <1>4 DEF CheckoutUpsert
  <2>2. \A k \in Key : payment'[k].intent = payment[k].intent
    BY <1>4 DEF CheckoutUpsert, PaymentRow
  <2> QED BY <2>1, <2>2, ReturnFacts DEF Idle
<1>5. CASE RaiseAlert(p)
  BY <1>5, GotoFacts DEF RaiseAlert, Pc
<1>6. ASSUME NEW e \in events, WebhookFailed(p, e) PROVE QuietEffect(p)
  <2>1. \A k \in Key : payment'[k].intent = payment[k].intent
    BY <1>6 DEF WebhookFailed, PaymentRow
  <2> QED BY <1>6, <2>1 DEF WebhookFailed, Idle
<1>7. ASSUME NEW e \in events, WebhookRefunded(p, e), ~payment[e.key].intent
      PROVE  QuietEffect(p)
  <2>1. proc' = [proc EXCEPT ![p] = [Idle EXCEPT !.pc = "answer", !.event = e]]
    BY <1>7 DEF WebhookRefunded
  <2>2. proc'[p].pc = "answer"
    BY <2>1 DEF Idle
  <2> QED BY <1>7, <2>1, <2>2 DEF WebhookRefunded
<1>8. CASE Answer(p)
  BY <1>8, ReturnFacts DEF Answer, Idle
<1>9. CASE Die(p)
  BY <1>9, ReturnFacts DEF Die, Idle
<1> QED
  BY <1>1, <1>2, <1>3, <1>4, <1>5, <1>6, <1>7, <1>8, <1>9 DEF Quiet

LEMMA CompletionFindStep ==
  ASSUME TypeInv, NEW p \in Proc, NEW k \in Key, NEW e, CompletionFind(p, k, e)
  PROVE  /\ UNCHANGED <<job, payment, session, events>>
         /\ Others(p)
         /\ proc'[p].pc \in {"answer", "creditBegin"}
         /\ proc'[p].key = k
BY TypeFacts DEF CompletionFind, Idle, Others, stripeVars

LEMMA CreditBeginStep ==
  ASSUME TypeInv, NEW p \in Proc, CreditBegin(p)
  PROVE  /\ UNCHANGED <<job, payment, session, events>>
         /\ Others(p)
         /\ proc[p].pc = "creditBegin" /\ proc'[p].pc = "creditCommit"
         /\ proc'[p].key = proc[p].key /\ proc'[p].job = proc[p].job
         /\ proc'[p].seen = job[proc[p].job]
         /\ ~Locked(proc[p].key)
BY TypeFacts DEF CreditBegin, At, Others, Request, stripeVars

LEMMA CreditCommitStep ==
  ASSUME TypeInv, NEW p \in Proc, CreditCommit(p)
  PROVE  /\ UNCHANGED <<session, events>>
         /\ Others(p)
         /\ proc[p].pc = "creditCommit" /\ proc'[p].pc \in {"raiseAlert", "answer"}
         /\ \A k \in Key : payment'[k].intent => payment[k].intent \/ k = proc[p].key
         /\ \A j \in Job \ {proc[p].job} : job'[j] = job[j]
         /\ job'[proc[p].job] = Credited(job[proc[p].job], proc[p].seen, proc[p].amount)
<1> USE TypeFacts DEF At
<1>1. /\ UNCHANGED <<session, events>>
      /\ proc[p].pc = "creditCommit"
      /\ proc[p].key \in Key /\ proc[p].job \in Job
  BY DEF CreditCommit, stripeVars
<1>2. Others(p) /\ proc'[p].pc \in {"raiseAlert", "answer"}
  BY GotoFacts DEF CreditCommit, Others, Pc
<1>3. \A k \in Key : payment'[k].intent => payment[k].intent \/ k = proc[p].key
  BY <1>1 DEF CreditCommit, PaymentRow
<1>4. /\ \A j \in Job \ {proc[p].job} : job'[j] = job[j]
      /\ job'[proc[p].job] = Credited(job[proc[p].job], proc[p].seen, proc[p].amount)
  BY <1>1 DEF CreditCommit
<1> QED BY <1>1, <1>2, <1>3, <1>4

LEMMA WebhookRefundedStep ==
  ASSUME TypeInv, NEW p \in Proc, NEW e \in events, WebhookRefunded(p, e),
         payment[e.key].intent
  PROVE  /\ UNCHANGED <<job, payment, session, events>>
         /\ Others(p)
         /\ e.key \in Key
         /\ proc'[p].pc = "refundCommit"
         /\ proc'[p].key = e.key /\ proc'[p].job = JobOf[e.key]
         /\ proc'[p].seen = job[JobOf[e.key]]
         /\ ~Locked(e.key)
<1>1. proc' = [proc EXCEPT ![p] =
         [pc |-> "refundCommit", job |-> JobOf[e.key], key |-> e.key, event |-> e,
          amount |-> e.refunded, seen |-> job[JobOf[e.key]]]]
  BY DEF WebhookRefunded
<1> QED BY <1>1, TypeFacts DEF WebhookRefunded, Others, Event, stripeVars

LEMMA RefundCommitStep ==
  ASSUME TypeInv, NEW p \in Proc, RefundCommit(p)
  PROVE  /\ UNCHANGED <<session, events>>
         /\ Others(p)
         /\ proc[p].pc = "refundCommit" /\ proc'[p].pc = "answer"
         /\ \A k \in Key : payment'[k].intent = payment[k].intent
         /\ \A j \in Job \ {proc[p].job} : job'[j] = job[j]
         /\ job'[proc[p].job] = Refunded(job[proc[p].job], proc[p].seen, proc[p].amount)
<1> USE TypeFacts DEF At
<1>1. /\ UNCHANGED <<session, events>>
      /\ proc[p].pc = "refundCommit"
      /\ proc[p].key \in Key /\ proc[p].job \in Job
  BY DEF RefundCommit, stripeVars
<1>2. Others(p) /\ proc'[p].pc = "answer"
  BY GotoFacts DEF RefundCommit, Others, Pc
<1>3. \A k \in Key : payment'[k].intent = payment[k].intent
  BY <1>1 DEF RefundCommit, PaymentRow
<1>4. /\ \A j \in Job \ {proc[p].job} : job'[j] = job[j]
      /\ job'[proc[p].job] = Refunded(job[proc[p].job], proc[p].seen, proc[p].amount)
  BY <1>1 DEF RefundCommit
<1> QED BY <1>1, <1>2, <1>3, <1>4

LEMMA RepriceBeginStep ==
  ASSUME TypeInv, NEW p \in Proc, NEW j \in Job, NEW total, RepriceBegin(p, j, total)
  PROVE  /\ UNCHANGED <<job, payment, session, events>>
         /\ Others(p)
         /\ proc'[p].pc = "repriceCommit" /\ proc'[p].job = j /\ proc'[p].seen = job[j]
BY TypeFacts DEF RepriceBegin, Idle, Others, stripeVars

LEMMA RepriceCommitStep ==
  ASSUME TypeInv, NEW p \in Proc, RepriceCommit(p)
  PROVE  /\ UNCHANGED <<payment, session, events>>
         /\ Others(p)
         /\ proc[p].pc = "repriceCommit" /\ proc'[p].pc = "idle"
         /\ \A j \in Job \ {proc[p].job} : job'[j] = job[j]
         /\ job'[proc[p].job] = Repriced(job[proc[p].job], proc[p].seen, proc[p].amount)
BY TypeFacts, ReturnFacts DEF RepriceCommit, At, Idle, Others, stripeVars

LEMMA RedraftStep ==
  ASSUME TypeInv, NEW p \in Proc, NEW j \in Job, NEW total, Redraft(p, j, total)
  PROVE  /\ UNCHANGED <<payment, proc, session, events>>
         /\ job[j].paid = 0
         /\ \A i \in Job \ {j} : job'[i] = job[i]
         /\ job'[j] = Redrafted(job[j], total)
BY TypeFacts DEF Redraft, stripeVars

\* The steps Stripe takes for cards, with which no session is ever processing.
StripeEffect(k) ==
  /\ UNCHANGED <<job, payment, proc>>
  /\ \A l \in Key : session'[l].state = session[l].state \/ session'[l].state = "paid"
  /\ \A e \in events' : \/ e \in events
                        \/ e.type \notin CompletionType
                        \/ session'[e.key].state = "paid"

LEMMA StripeStep ==
  ASSUME TypeInv, "async" \notin StripeBehaviour, NEW k \in Key, NEW amount,
         session[k].state # "processing",
         Pay(k) \/ Decline(k) \/ Submit(k) \/ Settle(k) \/ IssueRefund(k, amount)
  PROVE  StripeEffect(k)
<1> USE TypeFacts DEF StripeEffect
<1>1. UNCHANGED <<job, payment, proc>>
  BY DEF Pay, Decline, Submit, Settle, IssueRefund, serverVars
<1>2. CASE Pay(k)
  BY <1>1, <1>2 DEF Pay, SessionBecomes, Emit, Session
<1>3. CASE Decline(k)
  BY <1>1, <1>3 DEF Decline, Emit, Session, CompletionType
<1>4. CASE IssueRefund(k, amount)
  BY <1>1, <1>4 DEF IssueRefund, Emit, Session, CompletionType
<1> QED BY <1>2, <1>3, <1>4 DEF Submit, Settle

-----------------------------------------------------------------------------
LEMMA PaidIsStable ==
  ASSUME TypeInv, [Next]_vars, NEW k \in Key, session[k].state = "paid"
  PROVE  session'[k].state = "paid"
<1>1. CASE \E p \in Proc : Quiet(p)
  BY <1>1, QuietStep DEF QuietEffect
<1>2. CASE \E p \in Proc, l \in Key, e \in events \cup {None} : CompletionFind(p, l, e)
  BY <1>2 DEF CompletionFind, stripeVars
<1>3. CASE \E p \in Proc : CreditBegin(p) \/ CreditCommit(p)
                           \/ RefundCommit(p) \/ RepriceCommit(p)
  BY <1>3 DEF CreditBegin, CreditCommit, RefundCommit, RepriceCommit, stripeVars
<1>4. CASE \E p \in Proc, e \in events : WebhookRefunded(p, e)
  BY <1>4 DEF WebhookRefunded, stripeVars
<1>5. CASE \E p \in Proc, j \in Job, total \in LineItemTotal : RepriceBegin(p, j, total)
  BY <1>5 DEF RepriceBegin, stripeVars
<1>6. CASE \E p \in Proc, j \in Job, total \in Price : Redraft(p, j, total)
  BY <1>6 DEF Redraft, stripeVars
<1>7. ASSUME NEW l \in Key, NEW amount,
             Pay(l) \/ Decline(l) \/ Submit(l) \/ Settle(l) \/ IssueRefund(l, amount)
      PROVE  session'[k].state = "paid"
  <2>1. CASE Pay(l) \/ Submit(l) \/ Settle(l)
    BY <2>1, TypeFacts DEF Pay, Submit, Settle, SessionBecomes, Session
  <2>2. CASE Decline(l) \/ IssueRefund(l, amount)
    BY <2>2, TypeFacts DEF Decline, IssueRefund, Session
  <2> QED BY <1>7, <2>1, <2>2
<1>8. CASE UNCHANGED vars
  BY <1>8 DEF vars, stripeVars
<1> QED
  BY <1>1, <1>2, <1>3, <1>4, <1>5, <1>6, <1>7, <1>8, TypeFacts
  DEF Next, Handler, Webhook, Stripe, WebhookCompleted, Poll, Reconcile, Quiet, Event

-----------------------------------------------------------------------------
LEMMA FundedInvInit == Init => FundedInv
BY DEF Init, FundedInv, Idle

LEMMA FundedInvStep == TypeInv /\ FundedInv /\ [Next]_vars => FundedInv'
<1> SUFFICES ASSUME TypeInv, FundedInv, [Next]_vars, "async" \notin StripeBehaviour
             PROVE  FundedInv'
  BY DEF FundedInv
<1> USE TypeFacts DEF FundedInv, Others
<1>1. ASSUME NEW p \in Proc, Quiet(p) PROVE FundedInv'
  BY <1>1, QuietStep DEF QuietEffect, Event
<1>2. ASSUME NEW p \in Proc, NEW k \in Key, NEW e, CompletionFind(p, k, e),
             session[k].state = "paid"
      PROVE  FundedInv'
  BY <1>2, CompletionFindStep
<1>3. ASSUME NEW p \in Proc, CreditBegin(p) PROVE FundedInv'
  BY <1>3, CreditBeginStep
<1>4. ASSUME NEW p \in Proc, CreditCommit(p) PROVE FundedInv'
  BY <1>4, CreditCommitStep
<1>5. ASSUME NEW p \in Proc, NEW e \in events, WebhookRefunded(p, e),
             payment[e.key].intent
      PROVE  FundedInv'
  BY <1>5, WebhookRefundedStep
<1>6. ASSUME NEW p \in Proc, RefundCommit(p) PROVE FundedInv'
  BY <1>6, RefundCommitStep
<1>7. ASSUME NEW p \in Proc, NEW j \in Job, NEW total, RepriceBegin(p, j, total)
      PROVE  FundedInv'
  BY <1>7, RepriceBeginStep
<1>8. ASSUME NEW p \in Proc, RepriceCommit(p) PROVE FundedInv'
  BY <1>8, RepriceCommitStep
<1>9. ASSUME NEW p \in Proc, NEW j \in Job, NEW total, Redraft(p, j, total)
      PROVE  FundedInv'
  BY <1>9, RedraftStep
<1>10. ASSUME NEW k \in Key, NEW amount,
              Pay(k) \/ Decline(k) \/ Submit(k) \/ Settle(k) \/ IssueRefund(k, amount)
       PROVE  FundedInv'
  <2>1. StripeEffect(k)
    BY <1>10, StripeStep
  <2>2. \A l \in Key : /\ session'[l].state # "processing"
                      /\ session[l].state = "paid" => session'[l].state = "paid"
    BY <2>1 DEF StripeEffect
  <2>3. \A e \in events' : e.type \in CompletionType => session'[e.key].state = "paid"
    BY <2>1, <2>2 DEF StripeEffect, Event
  <2> QED BY <2>1, <2>2, <2>3 DEF StripeEffect
<1>11. CASE UNCHANGED vars
  BY <1>11 DEF vars, serverVars, stripeVars
<1>12. ASSUME NEW e \in events, NEW p \in Proc, WebhookCompleted(p, e) PROVE FundedInv'
  <2>1. e.key \in Key /\ session[e.key].state = "paid" /\ CompletionFind(p, e.key, e)
    BY <1>12 DEF WebhookCompleted, Event
  <2> QED BY <1>2, <2>1
<1>13. ASSUME NEW k \in Key, NEW p \in Proc, Poll(p, k) PROVE FundedInv'
  BY <1>2, <1>13 DEF Poll, Reconcile
<1> QED
  BY <1>1, <1>3, <1>4, <1>5, <1>6, <1>7, <1>8, <1>9, <1>10, <1>11, <1>12, <1>13
  DEF Next, Handler, Webhook, Stripe, Quiet

\* With cards a payment row is only ever credited for a session Stripe has
\* captured, through the webhook or a polled summary, in whatever order.
THEOREM FundedCorrect == Spec => []CreditsAreFunded
<1>1. FundedInv => CreditsAreFunded
  BY DEF FundedInv, CreditsAreFunded
<1>2. Spec => []FundedInv
  BY TypeInvariant, FundedInvInit, FundedInvStep, PTL DEF Spec
<1> QED BY <1>1, <1>2, PTL

-----------------------------------------------------------------------------
LEMMA EarnedInvInit == Init => EarnedInv
BY ConstantsAssumption DEF Init, EarnedInv, Idle, Created

LEMMA EarnedInvStep == TypeInv /\ FundedInv /\ EarnedInv /\ [Next]_vars => EarnedInv'
<1> SUFFICES ASSUME TypeInv, FundedInv, EarnedInv, [Next]_vars,
                    "async" \notin StripeBehaviour
             PROVE  EarnedInv'
  BY DEF EarnedInv
<1>1. \A j \in Job : Earned(j) => Earned(j)'
  BY PaidIsStable DEF Earned
\* A step that leaves the jobs alone, and what requests read of them.
<1>2. ASSUME UNCHANGED job, NEW p \in Proc, Others(p),
             proc'[p].pc \in {"creditCommit", "refundCommit", "repriceCommit"} =>
               proc'[p].job \in Job /\ proc'[p].seen = job[proc'[p].job]
      PROVE  EarnedInv'
  BY <1>1, <1>2, TypeFacts DEF EarnedInv, Others
\* A step of p that writes the row of j and ends its transaction.
<1>3. ASSUME NEW p \in Proc, NEW j \in Job, Others(p),
             proc'[p].pc \notin {"creditCommit", "refundCommit", "repriceCommit"}
               \/ UNCHANGED proc,
             \A i \in Job \ {j} : job'[i] = job[i],
             job'[j].paidAt \/ job'[j].paid > 0 => Earned(j)
      PROVE  EarnedInv'
  BY <1>1, <1>3, TypeFacts DEF EarnedInv, Others
<1>4. ASSUME NEW p \in Proc, Quiet(p) PROVE EarnedInv'
  BY <1>2, <1>4, QuietStep DEF QuietEffect
<1>5. ASSUME NEW p \in Proc, NEW k \in Key, NEW e, CompletionFind(p, k, e)
      PROVE  EarnedInv'
  BY <1>2, <1>5, CompletionFindStep
<1>6. ASSUME NEW p \in Proc, CreditBegin(p) PROVE EarnedInv'
  BY <1>2, <1>6, CreditBeginStep, TypeFacts
<1>7. ASSUME NEW p \in Proc, CreditCommit(p) PROVE EarnedInv'
  <2>1. /\ proc[p].key \in Key
        /\ proc[p].job = JobOf[proc[p].key] /\ proc[p].job \in Job
        /\ session[proc[p].key].state = "paid"
    BY <1>7, CreditCommitStep, TypeFacts DEF FundedInv
  <2>2. Earned(proc[p].job)
    BY <2>1 DEF Earned
  <2> QED BY <1>3, <1>7, <2>1, <2>2, CreditCommitStep
<1>8. ASSUME NEW p \in Proc, NEW e \in events, WebhookRefunded(p, e),
             payment[e.key].intent
      PROVE  EarnedInv'
  BY <1>2, <1>8, WebhookRefundedStep, ConstantsAssumption
<1>9. ASSUME NEW p \in Proc, RefundCommit(p) PROVE EarnedInv'
  <2> DEFINE j == proc[p].job
  <2>1. /\ proc[p].pc = "refundCommit" /\ j \in Job
        /\ job[j] \in Money /\ proc[p].seen \in Money /\ proc[p].amount \in Nat
    BY <1>9, RefundCommitStep, TypeFacts DEF Request
  <2>2. job'[j] = Refunded(job[j], proc[p].seen, proc[p].amount)
    BY <1>9, RefundCommitStep
  <2>3. /\ job'[j].paidAt = job[j].paidAt
        /\ job'[j].paid = Less(proc[p].seen.paid, proc[p].amount)
    BY <2>1, <2>2 DEF Refunded, Money
  <2>4. job'[j].paid > 0 => proc[p].seen.paid > 0
    BY <2>1, <2>3 DEF Less, Money
  <2>5. job'[j].paidAt \/ job'[j].paid > 0 => Earned(j)
    BY <2>1, <2>3, <2>4 DEF EarnedInv
  <2> QED BY <1>3, <1>9, <2>1, <2>5, RefundCommitStep
<1>10. ASSUME NEW p \in Proc, NEW j \in Job, NEW total, RepriceBegin(p, j, total)
       PROVE  EarnedInv'
  BY <1>2, <1>10, RepriceBeginStep
<1>11. ASSUME NEW p \in Proc, RepriceCommit(p) PROVE EarnedInv'
  <2> DEFINE j == proc[p].job
  <2>1. /\ proc[p].pc = "repriceCommit" /\ j \in Job
        /\ job[j] \in Money /\ proc[p].seen \in Money /\ proc[p].amount \in Nat
    BY <1>11, RepriceCommitStep, TypeFacts DEF Request
  <2>2. job'[j] = Repriced(job[j], proc[p].seen, proc[p].amount)
    BY <1>11, RepriceCommitStep
  <2>3. /\ job'[j].paid = job[j].paid
        /\ job'[j].paidAt => /\ Less(proc[p].amount, proc[p].seen.paid) = 0
                              /\ proc[p].amount > 0
    BY <2>1, <2>2 DEF Repriced, Money
  <2>4. job'[j].paidAt => proc[p].seen.paid > 0
    BY <2>1, <2>3 DEF Less, Money
  <2>5. job'[j].paidAt \/ job'[j].paid > 0 => Earned(j)
    BY <2>1, <2>3, <2>4 DEF EarnedInv
  <2> QED BY <1>3, <1>11, <2>1, <2>5, RepriceCommitStep
<1>12. ASSUME NEW p \in Proc, NEW j \in Job, NEW total, Redraft(p, j, total)
       PROVE  EarnedInv'
  <2>1. job'[j].paidAt = job[j].paidAt /\ job'[j].paid = 0
    <3>1. job[j] \in Money /\ job'[j] = Redrafted(job[j], total)
      BY <1>12, RedraftStep, TypeFacts
    <3> QED BY <3>1 DEF Redrafted, Money
  <2>2. job'[j].paidAt \/ job'[j].paid > 0 => Earned(j)
    BY <2>1 DEF EarnedInv
  <2> QED BY <1>3, <1>12, <2>2, RedraftStep DEF Others
<1>13. CASE UNCHANGED <<job, proc>>
  BY <1>1, <1>13, TypeFacts DEF EarnedInv
<1>14. CASE Stripe \/ UNCHANGED vars
  BY <1>13, <1>14
  DEF Stripe, Pay, Decline, Submit, Settle, IssueRefund, vars, serverVars
<1> QED
  BY <1>4, <1>5, <1>6, <1>7, <1>8, <1>9, <1>10, <1>11, <1>12, <1>14, TypeFacts
  DEF Next, Handler, Webhook, WebhookCompleted, Poll, Reconcile, Quiet, Event

\* With cards only a job one of whose checkouts was paid ever carries paidAt,
\* however redrafts, line-item edits, refunds and credits interleave.
THEOREM EarnedCorrect == Spec => []PaidAtIsEarned
<1>1. EarnedInv => PaidAtIsEarned
  BY DEF EarnedInv, PaidAtIsEarned, Earned
<1>2. Spec => [](TypeInv /\ FundedInv /\ EarnedInv)
  BY TypeInvariant, FundedInvInit, FundedInvStep, EarnedInvInit, EarnedInvStep, PTL
  DEF Spec
<1> QED BY <1>1, <1>2, PTL

-----------------------------------------------------------------------------
LEMMA LockInvInit == Init => LockInv
BY DEF Init, LockInv, Holds, Idle

LEMMA LockInvStep == TypeInv /\ LockInv /\ [Next]_vars => LockInv'
<1> SUFFICES ASSUME TypeInv, LockInv, [Next]_vars, OneCheckoutPerJob PROVE LockInv'
  BY DEF LockInv, OneCheckoutPerJob
<1> USE TypeFacts DEF LockInv, Holds, Others
\* A step that writes no job and takes no lock, or takes a free one and reads
\* the job under it.
<1>1. ASSUME UNCHANGED job, NEW p \in Proc, Others(p), ~Holds(p)' PROVE LockInv'
  BY <1>1
<1>2. ASSUME UNCHANGED job, NEW p \in Proc, Others(p), ~Locked(proc'[p].key),
             proc'[p].seen = job[proc'[p].job]
      PROVE  LockInv'
  BY <1>2 DEF Locked
\* The commit of a lock's holder.
<1>3. ASSUME NEW p \in Proc, Holds(p), ~Holds(p)', Others(p),
             \A j \in Job \ {proc[p].job} : job'[j] = job[j]
      PROVE  LockInv'
  BY <1>3 DEF OneCheckoutPerJob
\* A write that keeps the paid amount.
<1>4. ASSUME NEW p \in Proc, Others(p), ~Holds(p)' \/ UNCHANGED proc,
             \A j \in Job : job'[j].paid = job[j].paid
      PROVE  LockInv'
  BY <1>4
<1>5. ASSUME NEW p \in Proc, Quiet(p) PROVE LockInv'
  BY <1>1, <1>5, QuietStep DEF QuietEffect
<1>6. ASSUME NEW p \in Proc, NEW k \in Key, NEW e, CompletionFind(p, k, e)
      PROVE  LockInv'
  BY <1>1, <1>6, CompletionFindStep
<1>7. ASSUME NEW p \in Proc, CreditBegin(p) PROVE LockInv'
  BY <1>2, <1>7, CreditBeginStep
<1>8. ASSUME NEW p \in Proc, CreditCommit(p) PROVE LockInv'
  BY <1>3, <1>8, CreditCommitStep
<1>9. ASSUME NEW p \in Proc, NEW e \in events, WebhookRefunded(p, e),
             payment[e.key].intent
      PROVE  LockInv'
  BY <1>2, <1>9, WebhookRefundedStep
<1>10. ASSUME NEW p \in Proc, RefundCommit(p) PROVE LockInv'
  BY <1>3, <1>10, RefundCommitStep
<1>11. ASSUME NEW p \in Proc, NEW j \in Job, NEW total, RepriceBegin(p, j, total)
       PROVE  LockInv'
  BY <1>1, <1>11, RepriceBeginStep
<1>12. ASSUME NEW p \in Proc, RepriceCommit(p) PROVE LockInv'
  <2>1. /\ proc[p].pc = "repriceCommit" /\ proc[p].job \in Job
        /\ \A j \in Job \ {proc[p].job} : job'[j] = job[j]
        /\ job'[proc[p].job] = Repriced(job[proc[p].job], proc[p].seen, proc[p].amount)
        /\ Others(p) /\ proc'[p].pc = "idle"
    BY <1>12, RepriceCommitStep
  <2>2. job'[proc[p].job].paid = job[proc[p].job].paid
    BY <2>1 DEF Repriced, Money
  <2> QED BY <1>4, <2>1, <2>2
<1>13. ASSUME NEW p \in Proc, NEW j \in Job, NEW total, Redraft(p, j, total)
       PROVE  LockInv'
  <2>1. /\ UNCHANGED proc /\ job[j].paid = 0
        /\ \A i \in Job \ {j} : job'[i] = job[i]
        /\ job'[j] = Redrafted(job[j], total)
    BY <1>13, RedraftStep
  <2>2. job'[j].paid = job[j].paid
    BY <2>1 DEF Redrafted, Money
  <2> QED BY <1>4, <2>1, <2>2
<1>14. CASE Stripe \/ UNCHANGED vars
  BY <1>14 DEF Stripe, Pay, Decline, Submit, Settle, IssueRefund, vars, serverVars
<1> QED
  BY <1>5, <1>6, <1>7, <1>8, <1>9, <1>10, <1>11, <1>12, <1>13, <1>14
  DEF Next, Handler, Webhook, WebhookCompleted, Poll, Reconcile, Quiet, Event

LEMMA FallStep ==
  ASSUME TypeInv, LockInv, [Next]_vars, OneCheckoutPerJob,
         NEW j \in Job, job'[j].paid < job[j].paid
  PROVE  \E p \in Proc : /\ At(p, "refundCommit") /\ proc[p].job = j
                        /\ proc'[p].pc = "answer"
<1> USE TypeFacts
<1>1. job[j].paid \in Nat
  BY DEF Money
<1>2. job' # job
  BY <1>1
<1>3. ASSUME NEW p \in Proc, CreditCommit(p) PROVE FALSE
  <2>1. j = proc[p].job
    BY <1>1, <1>3, CreditCommitStep
  <2>2. /\ proc[p].seen \in Money /\ proc[p].amount \in Nat
        /\ proc[p].seen.paid = job[j].paid
    BY <1>3, <2>1, CreditCommitStep DEF LockInv, Holds, Request
  <2>3. job'[j].paid = proc[p].seen.paid + proc[p].amount
    <3>1. job'[j] = Credited(job[j], proc[p].seen, proc[p].amount) /\ job[j] \in Money
      BY <1>3, <2>1, CreditCommitStep
    <3> QED BY <3>1 DEF Credited, Money
  <2> QED BY <1>1, <2>2, <2>3
<1>4. ASSUME NEW p \in Proc, RefundCommit(p)
      PROVE  \E q \in Proc : /\ At(q, "refundCommit") /\ proc[q].job = j
                            /\ proc'[q].pc = "answer"
  BY <1>1, <1>4, RefundCommitStep DEF At
<1>5. ASSUME NEW p \in Proc, RepriceCommit(p) PROVE FALSE
  <2>1. j = proc[p].job
    BY <1>1, <1>5, RepriceCommitStep
  <2>2. job'[j].paid = job[j].paid
    <3>1. job'[j] = Repriced(job[j], proc[p].seen, proc[p].amount) /\ job[j] \in Money
      BY <1>5, <2>1, RepriceCommitStep
    <3> QED BY <3>1 DEF Repriced, Money
  <2> QED BY <1>1, <2>2
<1>6. ASSUME NEW p \in Proc, NEW i \in Job, NEW total, Redraft(p, i, total) PROVE FALSE
  <2>1. job[i].paid = 0 /\ job'[i] = Redrafted(job[i], total)
    BY <1>6, RedraftStep
  <2>2. job'[i].paid = job[i].paid
    BY <2>1 DEF Redrafted, Money
  <2>3. i = j
    BY <1>1, <1>6, RedraftStep
  <2> QED BY <1>1, <2>2, <2>3
<1>7. CASE \E p \in Proc :
             \/ Quiet(p) \/ CreditBegin(p)
             \/ \E k \in Key, e \in events \cup {None} : CompletionFind(p, k, e)
             \/ \E e \in events : WebhookRefunded(p, e)
             \/ \E i \in Job, total \in LineItemTotal : RepriceBegin(p, i, total)
  BY <1>2, <1>7, QuietStep
  DEF QuietEffect, CreditBegin, CompletionFind, WebhookRefunded, RepriceBegin
<1>8. CASE Stripe \/ UNCHANGED vars
  BY <1>2, <1>8 DEF Stripe, Pay, Decline, Submit, Settle, IssueRefund, vars, serverVars
<1> QED
  BY <1>3, <1>4, <1>5, <1>6, <1>7, <1>8
  DEF Next, Handler, Webhook, WebhookCompleted, Poll, Reconcile, Quiet, Event

\* With one checkout per job, a paid amount falls only by the commit of a
\* refund: neither a redraft after payment nor a credit from a stale read
\* lowers it.
THEOREM FallsOnlyByRefund == Spec => PaidFallsOnlyByRefund
<1>1. TypeInv /\ LockInv /\ [Next]_vars =>
        [OneCheckoutPerJob =>
           \A j \in Job : job'[j].paid < job[j].paid =>
             \E p \in Proc : /\ At(p, "refundCommit") /\ proc[p].job = j
                            /\ proc'[p].pc = "answer"]_vars
  BY FallStep
<1>2. Spec => [](TypeInv /\ LockInv)
  BY TypeInvariant, LockInvInit, LockInvStep, PTL DEF Spec
<1> QED BY <1>1, <1>2, PTL DEF Spec, PaidFallsOnlyByRefund

-----------------------------------------------------------------------------
(***************************************************************************)
(* Payments implements Books: while requests are served one after the      *)
(* other and nothing is declined or refunded, every payment is booked      *)
(* once, on its own job and with the amount quoted.                        *)
(***************************************************************************)

OneAtATime == \A p, q \in Proc : p = q

\* A row is written as SUCCEEDED once, and what the request in progress read of the row
\* and of the job is what is there still.
Unbooked(k) == payment[k].status \in {"none", "REQUIRES_ACTION"}
BooksInv ==
  /\ \A k \in Key : /\ payment[k].status \in {"none", "REQUIRES_ACTION", "SUCCEEDED"}
                    /\ session[k].state # "processing"
  /\ \A e \in events : e.type \in CompletionType
  /\ \A p \in Proc :
       LET k == proc[p].key IN
       /\ proc[p].pc \in {"createSession", "upsertPayment"} => payment[k].status = "none"
       /\ proc[p].pc \in {"creditBegin", "creditCommit"} =>
            /\ payment[k].status = "REQUIRES_ACTION"
            /\ proc[p].amount = payment[k].amount
       /\ proc[p].pc = "creditCommit" => proc[p].seen = job[proc[p].job]
       /\ proc[p].pc # "refundCommit"

\* The abstract variables, as the instance B names them.
Quoted == [k \in Key |-> payment[k].amount]
Booked == {k \in Key : payment[k].status = "SUCCEEDED"}
Paid == [j \in Job |-> job[j].paid]

LEMMA BooksInit == Init => B!Init /\ BooksInv
BY ConstantsAssumption DEF Init, B!Init, BooksInv, Created, Idle

\* What a step does to the payment rows and to the paid amounts, as Books sees it.
Stutters == UNCHANGED <<Quoted, Booked, Paid>>
LEMMA SamePayments ==
  ASSUME TypeInv, TypeInv', UNCHANGED payment,
         \A j \in Job : job'[j].paid = job[j].paid
  PROVE  Stutters
BY TypeFacts DEF Stutters, Quoted, Booked, Paid

LEMMA BooksStep ==
  ASSUME TypeInv, BooksInv, [Next]_vars, OneAtATime, StripeBehaviour = {}
  PROVE  BooksInv' /\ [B!Next]_B!vars
<1>t. TypeInv'
  BY TypeInvStep
<1> USE TypeFacts, <1>t DEF At
<1>s. Stutters => [B!Next]_B!vars
  BY DEF Stutters, Quoted, Booked, Paid, B!vars
\* A step of p that changes no row, no job and no session.
<1>q. ASSUME NEW p \in Proc, UNCHANGED <<payment, job, session>>, events' \subseteq events,
             LET k == proc'[p].key IN
             /\ proc'[p].pc \in {"createSession", "upsertPayment"} => payment[k].status = "none"
             /\ proc'[p].pc \in {"creditBegin", "creditCommit"} =>
                  /\ payment[k].status = "REQUIRES_ACTION"
                  /\ proc'[p].amount = payment[k].amount
             /\ proc'[p].pc = "creditCommit" => proc'[p].seen = job[proc'[p].job]
             /\ proc'[p].pc # "refundCommit"
      PROVE  BooksInv' /\ [B!Next]_B!vars
  <2>1. Stutters
    BY <1>q, SamePayments
  <2>2. BooksInv'
    BY <1>q, OneAtATime DEF BooksInv, OneAtATime
  <2> QED BY <1>s, <2>1, <2>2
<1>1. ASSUME NEW p \in Proc, NEW k \in Key, CheckoutStart(p, k)
      PROVE  BooksInv' /\ [B!Next]_B!vars
  BY <1>1, <1>q DEF CheckoutStart, Idle, stripeVars
<1>2. ASSUME NEW p \in Proc, CheckoutFind(p) PROVE BooksInv' /\ [B!Next]_B!vars
  <2>1. CASE payment[proc[p].key].status = "none"
    <3>1. Goto(p, "createSession") /\ UNCHANGED <<payment, job, session, events>>
      BY <1>2, <2>1 DEF CheckoutFind, stripeVars
    <3> QED BY <1>q, <2>1, <3>1, GotoFacts DEF Pc
  <2>2. CASE payment[proc[p].key].status # "none"
    <3>1. Return(p) /\ UNCHANGED <<payment, job, session, events>>
      BY <1>2, <2>2 DEF CheckoutFind, stripeVars
    <3> QED BY <1>q, <3>1, ReturnFacts DEF Idle
  <2> QED BY <2>1, <2>2
<1>3. ASSUME NEW p \in Proc, CheckoutCreate(p) PROVE BooksInv' /\ [B!Next]_B!vars
  <2>1. /\ UNCHANGED <<job, payment, events>>
        /\ Goto(p, "upsertPayment") \/ Return(p)
        /\ proc[p].pc = "createSession"
    BY <1>3 DEF CheckoutCreate
  <2>2. \A l \in Key : session'[l].state # "processing"
    BY <1>3 DEF CheckoutCreate, BooksInv, Session
  <2>3. \/ proc'[p].pc = "upsertPayment" /\ proc'[p].key = proc[p].key
        \/ proc'[p].pc = "idle"
    BY <2>1, GotoFacts, ReturnFacts DEF Idle, Pc
  <2>4. BooksInv'
    BY <2>1, <2>2, <2>3 DEF BooksInv, OneAtATime
  <2>5. Stutters
    BY <2>1, SamePayments
  <2> QED BY <1>s, <2>4, <2>5
<1>4. ASSUME NEW p \in Proc, CheckoutUpsert(p) PROVE BooksInv' /\ [B!Next]_B!vars
  <2> DEFINE k == proc[p].key
  <2>1. /\ k \in Key /\ payment[k].status = "none"
        /\ UNCHANGED <<job, session, events>>
        /\ Return(p)
    BY <1>4 DEF CheckoutUpsert, BooksInv, stripeVars
  <2>2. /\ \A l \in Key \ {k} : payment'[l] = payment[l]
        /\ payment'[k].status = "REQUIRES_ACTION"
    BY <1>4, <2>1 DEF CheckoutUpsert, PaymentRow
  <2>3. proc'[p].pc = "idle"
    BY <2>1, ReturnFacts DEF Idle
  <2>4. BooksInv'
    BY <2>1, <2>2, <2>3 DEF BooksInv, OneAtATime
  <2>5. k \notin Booked /\ Booked' = Booked /\ Paid' = Paid
        /\ \A l \in Key \ {k} : Quoted'[l] = Quoted[l]
    BY <2>1, <2>2 DEF Booked, Quoted, Paid
  <2>6. PICK l \in Key : l = proc[p].key
    BY <2>1
  <2>7. B!Quote(l)
    BY <2>5, <2>6 DEF B!Quote, Quoted, Booked, Paid
  <2> QED BY <2>4, <2>7 DEF B!Next
<1>5. ASSUME NEW p \in Proc, NEW k \in Key, NEW e, CompletionFind(p, k, e)
      PROVE  BooksInv' /\ [B!Next]_B!vars
  <2>1. /\ UNCHANGED <<job, payment, session, events>>
        /\ proc'[p].pc \in {"answer", "creditBegin"} /\ proc'[p].key = k
        /\ proc'[p].pc = "creditBegin" => payment[k].status \notin {"none", "SUCCEEDED"}
        /\ proc'[p].amount = payment[k].amount
    BY <1>5 DEF CompletionFind, Idle, stripeVars
  <2>2. payment[k].status \in {"none", "REQUIRES_ACTION", "SUCCEEDED"}
    BY DEF BooksInv
  <2> QED BY <1>q, <2>1, <2>2
<1>6. ASSUME NEW p \in Proc, CreditBegin(p) PROVE BooksInv' /\ [B!Next]_B!vars
  <2>1. /\ UNCHANGED <<job, payment, session, events>>
        /\ proc[p].pc = "creditBegin" /\ proc'[p].pc = "creditCommit"
        /\ proc'[p].key = proc[p].key /\ proc'[p].job = proc[p].job
        /\ proc'[p].seen = job[proc[p].job]
    BY <1>6, CreditBeginStep
  <2>2. proc'[p].amount = proc[p].amount
    BY <1>6 DEF CreditBegin, Request
  <2>3. payment[proc[p].key].status = "REQUIRES_ACTION"
        /\ proc[p].amount = payment[proc[p].key].amount
    BY <2>1 DEF BooksInv
  <2> QED BY <1>q, <2>1, <2>2, <2>3
<1>7. ASSUME NEW p \in Proc, CreditCommit(p) PROVE BooksInv' /\ [B!Next]_B!vars
  <2> DEFINE k == proc[p].key
             j == proc[p].job
  <2>1. /\ UNCHANGED <<session, events>>
        /\ proc[p].pc = "creditCommit" /\ proc'[p].pc \in {"raiseAlert", "answer"}
        /\ \A i \in Job \ {j} : job'[i] = job[i]
        /\ job'[j] = Credited(job[j], proc[p].seen, proc[p].amount)
    BY <1>7, CreditCommitStep
  <2>2. /\ k \in Key /\ j = JobOf[k] /\ j \in Job
        /\ payment[k].status = "REQUIRES_ACTION" /\ proc[p].amount = payment[k].amount
        /\ proc[p].seen = job[j]
    BY <2>1 DEF BooksInv
  <2>3. /\ \A l \in Key \ {k} : payment'[l] = payment[l]
        /\ payment'[k].status = "SUCCEEDED" /\ payment'[k].amount = payment[k].amount
    BY <1>7, <2>2 DEF CreditCommit, PaymentRow
  <2>4. BooksInv'
    BY <2>1, <2>2, <2>3 DEF BooksInv, OneAtATime
  <2>5. job'[j].paid = job[j].paid + payment[k].amount
    BY <2>1, <2>2 DEF Credited, Money
  <2>6. k \notin Booked /\ Booked' = Booked \cup {k} /\ Quoted' = Quoted
    BY <2>2, <2>3 DEF Booked, Quoted
  <2>7. Paid' = [Paid EXCEPT ![JobOf[k]] = @ + Quoted[k]]
    BY <2>1, <2>2, <2>5 DEF Paid, Quoted
  <2>8. PICK l \in Key : l = proc[p].key
    BY <2>2
  <2>9. B!Book(l)
    BY <2>6, <2>7, <2>8 DEF B!Book, Booked, Quoted, Paid
  <2> QED BY <2>4, <2>9 DEF B!Next
<1>8. ASSUME NEW p \in Proc, RaiseAlert(p) PROVE BooksInv' /\ [B!Next]_B!vars
  <2>1. Goto(p, "answer") /\ UNCHANGED <<payment, job, session, events>>
    BY <1>8 DEF RaiseAlert, stripeVars
  <2> QED BY <1>q, <2>1, GotoFacts DEF Pc
<1>9. ASSUME NEW p \in Proc, NEW e \in events, WebhookFailed(p, e) \/ WebhookRefunded(p, e)
      PROVE  FALSE
  BY <1>9 DEF WebhookFailed, WebhookRefunded, BooksInv, CompletionType
<1>10. ASSUME NEW p \in Proc, RefundCommit(p) PROVE FALSE
  BY <1>10 DEF RefundCommit, BooksInv
<1>11. ASSUME NEW p \in Proc, Answer(p) \/ Die(p) PROVE BooksInv' /\ [B!Next]_B!vars
  <2>1. Return(p) /\ UNCHANGED <<payment, job, session>> /\ events' \subseteq events
    BY <1>11 DEF Answer, Die, stripeVars
  <2> QED BY <1>q, <2>1, ReturnFacts DEF Idle
<1>12. ASSUME NEW p \in Proc, NEW j \in Job, NEW total \in Price, Redraft(p, j, total)
       PROVE  BooksInv' /\ [B!Next]_B!vars
  <2>1. /\ UNCHANGED <<payment, proc, session, events>> /\ proc[p].pc = "idle"
        /\ job[j].paid = 0 /\ job'[j] = Redrafted(job[j], total)
        /\ \A i \in Job \ {j} : job'[i] = job[i]
    BY <1>12, RedraftStep DEF Redraft
  <2>2. job'[j].paid = job[j].paid
    BY <2>1 DEF Redrafted, Money
  <2>3. Stutters
    BY <2>1, <2>2, SamePayments
  <2>4. BooksInv'
    BY <2>1 DEF BooksInv, OneAtATime
  <2> QED BY <1>s, <2>3, <2>4
<1>13. ASSUME NEW p \in Proc, NEW j \in Job, NEW total, RepriceBegin(p, j, total)
       PROVE  BooksInv' /\ [B!Next]_B!vars
  BY <1>13, <1>q, RepriceBeginStep
<1>14. ASSUME NEW p \in Proc, RepriceCommit(p) PROVE BooksInv' /\ [B!Next]_B!vars
  <2> DEFINE j == proc[p].job
  <2>1. /\ UNCHANGED <<payment, session, events>>
        /\ proc[p].pc = "repriceCommit" /\ proc'[p].pc = "idle"
        /\ \A i \in Job \ {j} : job'[i] = job[i]
        /\ j \in Job /\ job'[j] = Repriced(job[j], proc[p].seen, proc[p].amount)
    BY <1>14, RepriceCommitStep
  <2>2. job'[j].paid = job[j].paid
    BY <2>1 DEF Repriced, Money
  <2>3. Stutters
    BY <2>1, <2>2, SamePayments
  <2>4. BooksInv'
    BY <2>1 DEF BooksInv, OneAtATime
  <2> QED BY <1>s, <2>3, <2>4
<1>15. ASSUME NEW k \in Key, Pay(k) PROVE BooksInv' /\ [B!Next]_B!vars
  <2>1. UNCHANGED <<job, payment, proc>>
    BY <1>15 DEF Pay, serverVars
  <2>2. /\ \A l \in Key : session'[l].state # "processing"
        /\ \A e \in events' : e.type \in CompletionType
    BY <1>15 DEF Pay, SessionBecomes, Emit, CompletionType, BooksInv, Session
  <2>3. Stutters
    BY <2>1, SamePayments
  <2>4. BooksInv'
    BY <2>1, <2>2 DEF BooksInv
  <2> QED BY <1>s, <2>3, <2>4
<1>16. ASSUME NEW k \in Key, NEW amount,
              Decline(k) \/ Submit(k) \/ Settle(k) \/ IssueRefund(k, amount)
       PROVE  FALSE
  BY <1>16 DEF Decline, Submit, Settle, IssueRefund, BooksInv
<1>17. CASE UNCHANGED vars
  <2>1. Stutters
    BY <1>17, SamePayments DEF vars, serverVars
  <2>2. BooksInv'
    BY <1>17 DEF vars, serverVars, stripeVars, BooksInv
  <2> QED BY <1>s, <2>1, <2>2
<1> QED
  BY <1>1, <1>2, <1>3, <1>4, <1>5, <1>6, <1>7, <1>8, <1>9, <1>10, <1>11, <1>12, <1>13,
     <1>14, <1>15, <1>16, <1>17
  DEF Next, Handler, Webhook, Stripe, WebhookCompleted, Poll, Reconcile, Event

\* Requests served one after the other book every payment exactly once, on its own job and
\* with the amount quoted, for any jobs, checkouts, prices and number of deaths and
\* deliveries, while Stripe declines and refunds nothing
\* (markCheckoutSessionCompleted, upsertPublicJobDraft, updateJob).
THEOREM BooksRefined ==
  OneAtATime /\ StripeBehaviour = {} => (Spec => BooksEachPaymentOnce)
<1> SUFFICES ASSUME OneAtATime, StripeBehaviour = {} PROVE Spec => BooksEachPaymentOnce
  OBVIOUS
<1>1. TypeInv /\ BooksInv /\ [Next]_vars => BooksInv' /\ [B!Next]_B!vars
  BY BooksStep
<1>2. Init => B!Init /\ BooksInv
  BY BooksInit
<1> QED BY <1>1, <1>2, TypeInvariant, PTL DEF Spec, BooksEachPaymentOnce, B!Spec
=============================================================================
