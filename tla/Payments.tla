------------------------------ MODULE Payments ------------------------------
(***************************************************************************)
(* The payment component: PaymentsService (payments.service.ts), the       *)
(* Stripe webhook controller and the two other writers of a job's money    *)
(* columns, the public draft (public-booking-persistence.service.ts) and   *)
(* the line-item edit (job-lifecycle.service.ts).                          *)
(*                                                                         *)
(* A request the API serves occupies a process of Proc from its first      *)
(* database read to its answer; between two of its statements every other  *)
(* process may run.  PostgreSQL runs the transactions of this component at *)
(* READ COMMITTED: a transaction is modelled by the step that takes its    *)
(* first row lock and reads the job, and the step that commits.            *)
(*                                                                         *)
(* Stripe is the environment.  It keeps one checkout session per           *)
(* idempotency key, so a session is named by its key; it keeps an event    *)
(* until the webhook has answered 200, delivers events in any order, and   *)
(* delivers an event again when the answer is lost.                        *)
(***************************************************************************)
EXTENDS JobLedger

CONSTANTS
  Job,                \* job rows
  Key,                \* idempotency keys of checkouts, and so checkout sessions
  Proc,               \* requests the API can be serving at a time
  None,               \* no key, no job, no event
  JobOf,              \* the job a key was issued for
  PublicJob,          \* the jobs whose source is PUBLIC
  Price,              \* totals a draft can be created or redrafted with
  LineItemTotal,      \* totals a manager's line-item edit can set
  StripeBehaviour,    \* which of "decline", "async", "refund" can happen
  MaxDeaths           \* bound: requests that die (exception, crash, lost answer)

ASSUME ConstantsAssumption ==
  /\ None \notin Job \cup Key
  /\ JobOf \in [Key -> Job]
  /\ PublicJob \subseteq Job
  /\ Price \subseteq Nat
  /\ LineItemTotal \subseteq Nat
  /\ StripeBehaviour \subseteq {"decline", "async", "refund"}
  /\ MaxDeaths \in Nat

VARIABLES
  job,        \* Job rows, money columns
  payment,    \* Payment rows, by idempotency key
  alerted,    \* jobs for which booking review alerts were written
  proc,       \* requests in progress
  deaths,     \* requests that died
  session,    \* Stripe: checkout sessions, by idempotency key
  events,     \* Stripe: events not yet acknowledged
  urls        \* checkout URLs the API has answered with

serverVars == <<job, payment, alerted, proc, deaths>>
stripeVars == <<session, events>>
vars == <<serverVars, stripeVars, urls>>

-----------------------------------------------------------------------------
PaymentStatus == {"none", "REQUIRES_ACTION", "SUCCEEDED", "FAILED", "REFUNDED"}
SessionState == {"none", "open", "processing", "paid", "lapsed"}
EventType == {"checkout.session.completed",
              "checkout.session.async_payment_succeeded",
              "payment_intent.payment_failed",
              "charge.refunded"}
CompletionType == {"checkout.session.completed",
                   "checkout.session.async_payment_succeeded"}

\* intent: whether stripePaymentIntentId is set.  "none" is the absent row.
PaymentRow == [status : PaymentStatus, amount : Nat, intent : BOOLEAN]
\* refunded is the session's cumulative amount_refunded.
Session == [state : SessionState, amount : Nat, refunded : Nat, declined : BOOLEAN]
Event == [type : EventType, key : Key, refunded : Nat]

\* pc: the statement the request executes next.
Pc == {"idle", "findPayment", "createSession", "upsertPayment",
       "creditBegin", "creditCommit", "refundCommit", "raiseAlert",
       "repriceCommit", "answer"}
Request == [pc : Pc, job : Job \cup {None}, key : Key \cup {None},
            event : Event \cup {None}, amount : Nat, seen : Money]
Idle == [pc |-> "idle", job |-> None, key |-> None, event |-> None,
         amount |-> 0, seen |-> Created(0)]

TypeOK ==
  /\ job \in [Job -> Money]
  /\ payment \in [Key -> PaymentRow]
  /\ alerted \subseteq Job
  /\ proc \in [Proc -> Request]
  /\ deaths \in 0..MaxDeaths
  /\ session \in [Key -> Session]
  /\ events \subseteq Event
  /\ urls \subseteq Key

Init ==
  /\ job \in [Job -> {Created(p) : p \in Price}]
  /\ payment = [k \in Key |-> [status |-> "none", amount |-> 0, intent |-> FALSE]]
  /\ alerted = {}
  /\ proc = [p \in Proc |-> Idle]
  /\ deaths = 0
  /\ session = [k \in Key |->
       [state |-> "none", amount |-> 0, refunded |-> 0, declined |-> FALSE]]
  /\ events = {}
  /\ urls = {}

-----------------------------------------------------------------------------
\* Whether an open transaction holds the row lock of the payment of k.
Locked(k) == \E p \in Proc : /\ proc[p].pc \in {"creditCommit", "refundCommit"}
                             /\ proc[p].key = k

At(p, pc) == proc[p].pc = pc
Goto(p, pc) == proc' = [proc EXCEPT ![p].pc = pc]
Return(p) == proc' = [proc EXCEPT ![p] = Idle]

(***************************************************************************)
(* createCheckoutSession                                                   *)
(***************************************************************************)

\* Reads the job; "Job already fully paid" is answered without any effect.
CheckoutStart(p, k) ==
  LET j == JobOf[k] IN
  /\ At(p, "idle")
  /\ job[j].balance > 0
  /\ proc' = [proc EXCEPT ![p] = [Idle EXCEPT !.pc = "findPayment", !.job = j,
                                   !.key = k, !.amount = job[j].balance]]
  /\ UNCHANGED <<job, payment, alerted, deaths, stripeVars, urls>>

\* An existing row answers with its session's URL.
CheckoutFind(p) ==
  LET k == proc[p].key IN
  /\ At(p, "findPayment")
  /\ IF payment[k].status = "none"
     THEN Goto(p, "createSession") /\ UNCHANGED urls
     ELSE Return(p) /\ urls' = urls \cup {k}
  /\ UNCHANGED <<job, payment, alerted, deaths, stripeVars>>

\* Mistaken: the URL is answered before the payment row is written.
CheckoutCreateAnswersFirst(p) ==
  LET k == proc[p].key IN
  /\ At(p, "createSession")
  /\ session[k].state = "none"
  /\ session' = [session EXCEPT ![k].state = "open", ![k].amount = proc[p].amount]
  /\ urls' = urls \cup {k}
  /\ Goto(p, "upsertPayment")
  /\ UNCHANGED <<job, payment, alerted, deaths, events>>

\* sessions.create under the idempotency key: Stripe answers a repeated key
\* with the session it made for it, and refuses one whose parameters differ.
CheckoutCreate(p) ==
  LET k == proc[p].key IN
  /\ At(p, "createSession")
  /\ \/ /\ session[k].state = "none"
        /\ session' = [session EXCEPT ![k].state = "open", ![k].amount = proc[p].amount]
        /\ Goto(p, "upsertPayment")
     \/ /\ session[k].state # "none"
        /\ session[k].amount = proc[p].amount
        /\ Goto(p, "upsertPayment")
        /\ UNCHANGED session
     \/ /\ session[k].state # "none"
        /\ session[k].amount # proc[p].amount
        /\ Return(p)
        /\ UNCHANGED session
  /\ UNCHANGED <<job, payment, alerted, deaths, events, urls>>

\* Mistaken: the row gets the balance the job has by now, not the one charged.
CheckoutUpsertRereads(p) ==
  LET k == proc[p].key IN
  /\ At(p, "upsertPayment")
  /\ ~Locked(k)
  /\ payment' = [payment EXCEPT ![k].status = "REQUIRES_ACTION",
                                ![k].amount = job[proc[p].job].balance]
  /\ urls' = urls \cup {k}
  /\ Return(p)
  /\ UNCHANGED <<job, alerted, deaths, stripeVars>>

\* payment.upsert, then the URL is answered.  The update branch writes the
\* status whatever it was.
CheckoutUpsert(p) ==
  LET k == proc[p].key IN
  /\ At(p, "upsertPayment")
  /\ ~Locked(k)
  /\ payment' = IF payment[k].status = "none"
                THEN [payment EXCEPT ![k].status = "REQUIRES_ACTION",
                                     ![k].amount = proc[p].amount]
                ELSE [payment EXCEPT ![k].status = "REQUIRES_ACTION"]
  /\ urls' = urls \cup {k}
  /\ Return(p)
  /\ UNCHANGED <<job, alerted, deaths, stripeVars>>

(***************************************************************************)
(* markCheckoutSessionCompleted, from the webhook and from the polled      *)
(* session summaries                                                       *)
(***************************************************************************)

\* Mistaken: a row that is already SUCCEEDED is credited again.
CompletionFindRepeats(p, k, e) ==
  /\ At(p, "idle")
  /\ proc' = [proc EXCEPT ![p] = [Idle EXCEPT
       !.pc = IF payment[k].status = "none" THEN "answer" ELSE "creditBegin",
       !.job = JobOf[k], !.key = k, !.event = e, !.amount = payment[k].amount]]
  /\ UNCHANGED <<job, payment, alerted, deaths, stripeVars, urls>>

\* The unlocked read of the payment row that decides whether there is
\* anything to do.
CompletionFind(p, k, e) ==
  /\ At(p, "idle")
  /\ proc' = [proc EXCEPT ![p] = [Idle EXCEPT
       !.pc = IF payment[k].status \in {"none", "SUCCEEDED"}
              THEN "answer" ELSE "creditBegin",
       !.job = JobOf[k], !.key = k, !.event = e, !.amount = payment[k].amount]]
  /\ UNCHANGED <<job, payment, alerted, deaths, stripeVars, urls>>

WebhookCompleted(p, e) ==
  /\ e \in events
  /\ e.type \in CompletionType
  /\ CompletionFind(p, e.key, e)

\* Mistaken: a session is taken to be paid without asking Stripe.
ReconcileUnpaid(p, k) ==
  /\ payment[k].status # "SUCCEEDED"
  /\ CompletionFind(p, k, None)

\* reconcileCheckoutSessionIfPaid.  Its read of the row and the one that
\* mark...Completed makes are one step, for they decide by the same test.
Reconcile(p, k) ==
  /\ session[k].state = "paid"
  /\ payment[k].status # "SUCCEEDED"
  /\ CompletionFind(p, k, None)

\* The success page, or a member of the company, asks for the session's
\* summary.  The session's row exists (see SessionsAreBooked), so
\* ensurePaymentRecordForCheckoutSession finds it.
Poll(p, k) == k \in urls /\ Reconcile(p, k)

\* The receipt is fetched, the transaction takes the payment row's lock with
\* its update, and reads the job.
CreditBegin(p) ==
  /\ At(p, "creditBegin")
  /\ ~Locked(proc[p].key)
  /\ proc' = [proc EXCEPT ![p].pc = "creditCommit", ![p].seen = job[proc[p].job]]
  /\ UNCHANGED <<job, payment, alerted, deaths, stripeVars, urls>>

\* Job update, audit row and activity row, commit.  Alerts follow for a public
\* job and for one pending confirmation, whose status this module does not keep.
CreditCommit(p) ==
  LET k == proc[p].key
      j == proc[p].job
  IN
  /\ At(p, "creditCommit")
  /\ payment' = [payment EXCEPT ![k].status = "SUCCEEDED", ![k].intent = TRUE]
  /\ job' = [job EXCEPT ![j] = Credited(@, proc[p].seen, proc[p].amount)]
  /\ \/ Goto(p, "raiseAlert")
     \/ j \notin PublicJob /\ Goto(p, "answer")
  /\ UNCHANGED <<alerted, deaths, stripeVars, urls>>

RaiseAlert(p) ==
  /\ At(p, "raiseAlert")
  /\ alerted' = alerted \cup {proc[p].job}
  /\ Goto(p, "answer")
  /\ UNCHANGED <<job, payment, deaths, stripeVars, urls>>

(***************************************************************************)
(* markPaymentFailed and markChargeRefunded                                *)
(***************************************************************************)

\* Finds the row by intent id, which only a completion has stored, and writes
\* FAILED whatever the status was.
WebhookFailed(p, e) ==
  /\ At(p, "idle")
  /\ e \in events
  /\ e.type = "payment_intent.payment_failed"
  /\ IF payment[e.key].intent
     THEN /\ ~Locked(e.key)
          /\ payment' = [payment EXCEPT ![e.key].status = "FAILED"]
     ELSE UNCHANGED payment
  /\ proc' = [proc EXCEPT ![p] = [Idle EXCEPT !.pc = "answer", !.event = e]]
  /\ UNCHANGED <<job, alerted, deaths, stripeVars, urls>>

\* Finds the row by intent id, locks it and reads the job; the amount is the
\* charge's cumulative amount_refunded.
WebhookRefunded(p, e) ==
  LET j == JobOf[e.key] IN
  /\ At(p, "idle")
  /\ e \in events
  /\ e.type = "charge.refunded"
  /\ IF payment[e.key].intent
     THEN /\ ~Locked(e.key)
          /\ proc' = [proc EXCEPT ![p] =
               [pc |-> "refundCommit", job |-> j, key |-> e.key, event |-> e,
                amount |-> e.refunded, seen |-> job[j]]]
     ELSE proc' = [proc EXCEPT ![p] = [Idle EXCEPT !.pc = "answer", !.event = e]]
  /\ UNCHANGED <<job, payment, alerted, deaths, stripeVars, urls>>

RefundCommit(p) ==
  LET k == proc[p].key
      j == proc[p].job
  IN
  /\ At(p, "refundCommit")
  /\ payment' = [payment EXCEPT ![k].status = "REFUNDED"]
  /\ job' = [job EXCEPT ![j] = Refunded(@, proc[p].seen, proc[p].amount)]
  /\ Goto(p, "answer")
  /\ UNCHANGED <<alerted, deaths, stripeVars, urls>>

\* The webhook answers 200 and Stripe drops the event; a poll just answers.
Answer(p) ==
  /\ At(p, "answer")
  /\ events' = events \ {proc[p].event}
  /\ Return(p)
  /\ UNCHANGED <<job, payment, alerted, deaths, session, urls>>

(***************************************************************************)
(* The other writers of a job's money columns                              *)
(***************************************************************************)

\* Mistaken: a paid draft can be submitted again.
RedraftPaid(p, j, total) ==
  /\ At(p, "idle")
  /\ j \in PublicJob
  /\ job' = [job EXCEPT ![j] = Redrafted(@, total)]
  /\ UNCHANGED <<payment, alerted, proc, deaths, stripeVars, urls>>

\* upsertPublicJobDraft on an existing draft.  It runs SERIALIZABLE, so its
\* reads and its update of the job row are one step.  Refused with "This
\* booking has already been submitted." once money was credited.
Redraft(p, j, total) ==
  /\ At(p, "idle")
  /\ j \in PublicJob
  /\ job[j].paid = 0
  /\ \A k \in Key : JobOf[k] = j => payment[k].status # "SUCCEEDED"
  /\ job' = [job EXCEPT ![j] = Redrafted(@, total)]
  /\ UNCHANGED <<payment, alerted, proc, deaths, stripeVars, urls>>

\* updateJob with line items: reads the job, later writes totals computed from
\* what it read.
RepriceBegin(p, j, total) ==
  /\ At(p, "idle")
  /\ proc' = [proc EXCEPT ![p] = [Idle EXCEPT !.pc = "repriceCommit", !.job = j,
                                   !.amount = total, !.seen = job[j]]]
  /\ UNCHANGED <<job, payment, alerted, deaths, stripeVars, urls>>

RepriceCommit(p) ==
  LET j == proc[p].job IN
  /\ At(p, "repriceCommit")
  /\ job' = [job EXCEPT ![j] = Repriced(@, proc[p].seen, proc[p].amount)]
  /\ Return(p)
  /\ UNCHANGED <<payment, alerted, deaths, stripeVars, urls>>

\* A request dies: an exception (Stripe or the database unavailable), a crash,
\* or an answer that never reaches the caller.  An open transaction rolls back;
\* an event stays with Stripe, which delivers it again.
Die(p) ==
  /\ ~At(p, "idle")
  /\ deaths < MaxDeaths
  /\ deaths' = deaths + 1
  /\ Return(p)
  /\ UNCHANGED <<job, payment, alerted, stripeVars, urls>>

(***************************************************************************)
(* Stripe and the customer                                                 *)
(***************************************************************************)
Emit(type, k, refunded) ==
  events' = events \cup {[type |-> type, key |-> k, refunded |-> refunded]}

SessionBecomes(k, state) == session' = [session EXCEPT ![k].state = state]

\* A card payment: the session completes paid.
Pay(k) ==
  /\ k \in urls
  /\ session[k].state = "open"
  /\ SessionBecomes(k, "paid")
  /\ Emit("checkout.session.completed", k, 0)
  /\ UNCHANGED <<serverVars, urls>>

\* A declined card leaves the session open; one decline per session.
Decline(k) ==
  /\ "decline" \in StripeBehaviour
  /\ k \in urls
  /\ session[k].state = "open"
  /\ ~session[k].declined
  /\ session' = [session EXCEPT ![k].declined = TRUE]
  /\ Emit("payment_intent.payment_failed", k, 0)
  /\ UNCHANGED <<serverVars, urls>>

\* A delayed payment method: the session completes unpaid and settles later.
Submit(k) ==
  /\ "async" \in StripeBehaviour
  /\ k \in urls
  /\ session[k].state = "open"
  /\ SessionBecomes(k, "processing")
  /\ Emit("checkout.session.completed", k, 0)
  /\ UNCHANGED <<serverVars, urls>>

Settle(k) ==
  /\ session[k].state = "processing"
  /\ \/ /\ SessionBecomes(k, "paid")
        /\ Emit("checkout.session.async_payment_succeeded", k, 0)
     \/ /\ SessionBecomes(k, "lapsed")
        /\ Emit("payment_intent.payment_failed", k, 0)
  /\ UNCHANGED <<serverVars, urls>>

\* The company refunds part or all of a charge in Stripe.
IssueRefund(k, amount) ==
  /\ "refund" \in StripeBehaviour
  /\ session[k].state = "paid"
  /\ session[k].refunded + amount <= session[k].amount
  /\ session' = [session EXCEPT ![k].refunded = @ + amount]
  /\ Emit("charge.refunded", k, session[k].refunded + amount)
  /\ UNCHANGED <<serverVars, urls>>

-----------------------------------------------------------------------------
Handler(p) ==
  \/ CheckoutFind(p) \/ CheckoutCreate(p) \/ CheckoutUpsert(p)
  \/ CreditBegin(p) \/ CreditCommit(p) \/ RaiseAlert(p)
  \/ RefundCommit(p) \/ RepriceCommit(p) \/ Answer(p)

Webhook(e) ==
  \E p \in Proc : WebhookCompleted(p, e) \/ WebhookFailed(p, e) \/ WebhookRefunded(p, e)

Stripe ==
  \E k \in Key : \/ Pay(k) \/ Decline(k) \/ Submit(k) \/ Settle(k)
                 \/ \E amount \in 1..session[k].amount : IssueRefund(k, amount)

Next ==
  \/ \E p \in Proc :
       \/ Handler(p)
       \/ Die(p)
       \/ \E k \in Key : CheckoutStart(p, k) \/ Poll(p, k)
       \/ \E j \in Job, total \in LineItemTotal : RepriceBegin(p, j, total)
       \/ \E j \in Job, total \in Price : Redraft(p, j, total)
  \/ \E e \in events : Webhook(e)
  \/ Stripe

Spec == Init /\ [][Next]_vars

\* A request that is being served goes on, and Stripe delivers an event until
\* it is acknowledged.  Delivery is strongly fair because Proc bounds the
\* requests served at a time and the server has no such bound.
Fairness ==
  /\ \A p \in Proc : WF_vars(Handler(p))
  /\ \A k \in Key, t \in EventType :
       SF_vars(\E e \in events : e.type = t /\ e.key = k /\ Webhook(e))

FairSpec == Spec /\ Fairness

-----------------------------------------------------------------------------
(***************************************************************************)
(* Properties                                                              *)
(***************************************************************************)

\* A checkout URL is answered only once its payment row is written, and the row
\* holds the amount the customer is charged.  The completion handler answers
\* 200 to a session without a row, so a payment would be lost for good; it
\* books the row's amount, not the session's.
SessionsAreBooked ==
  /\ \A k \in urls : payment[k].status # "none"
  /\ \A k \in Key : payment[k].status # "none" =>
       session[k].state # "none" /\ session[k].amount = payment[k].amount

\* With cards, which are captured before the session completes, a payment row
\* is credited only when Stripe holds the money, whichever of the webhook and
\* the polled summary credits it.
CreditsAreFunded ==
  "async" \notin StripeBehaviour =>
    \A k \in Key : payment[k].intent => session[k].state = "paid"

\* A job carries paidAt, which is what reviewJob asks before it confirms a
\* booking, only if some checkout of that job was paid: not through a redraft,
\* a line-item edit down to nothing, or values read before either.
PaidAtIsEarned ==
  "async" \notin StripeBehaviour =>
    \A j \in Job : job[j].paidAt =>
      \E k \in Key : JobOf[k] = j /\ session[k].state = "paid"

\* With one checkout per job, only the commit of a refund ever lowers the paid
\* amount: a customer who submits the form again after paying, at whatever
\* moment of the completion, never resets what was credited.
OneCheckoutPerJob == \A k, l \in Key : JobOf[k] = JobOf[l] => k = l
PaidFallsOnlyByRefund ==
  [][OneCheckoutPerJob =>
       \A j \in Job : job'[j].paid < job[j].paid =>
         \E p \in Proc : /\ At(p, "refundCommit") /\ proc[p].job = j
                        /\ proc'[p].pc = "answer"]_vars

\* Every session that is paid is credited in the end, through requests that
\* die, answers that are lost and rows that are written late.
EveryPaymentIsCredited ==
  \A k \in Key : session[k].state = "paid" ~> payment[k].intent
=============================================================================
