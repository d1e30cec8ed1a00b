---------------------------- MODULE PaymentsBooks ----------------------------
(***************************************************************************)
(* Payments against its abstract specification Books, and the agreement of *)
(* a job's cached totals with its payment rows.                            *)
(***************************************************************************)
EXTENDS Payments, FiniteSetsExt

B == INSTANCE Books WITH
       Checkout <- Key,
       Account <- Job,
       AccountOf <- JobOf,
       amount <- [k \in Key |-> payment[k].amount],
       booked <- {k \in Key : payment[k].status = "SUCCEEDED"},
       paid <- [j \in Job |-> job[j].paid]

\* Requests served one after the other book every payment exactly once, on its
\* own job and with the amount charged, whatever dies and is delivered again:
\* the SUCCEEDED test of markCheckoutSessionCompleted and the guard of the
\* redraft together implement Books.
BooksEachPaymentOnce == B!Spec

-----------------------------------------------------------------------------
\* Nothing is in progress and Stripe has nothing left to deliver.
AtRest == events = {} /\ \A p \in Proc : At(p, "idle")

\* The money a payment row stands for.
Kept(k) ==
  CASE payment[k].status = "SUCCEEDED" -> payment[k].amount
    [] payment[k].status = "REFUNDED" -> Less(payment[k].amount, session[k].refunded)
    [] OTHER -> 0

\* schema.prisma calls a job's money columns "cached totals for fast reads":
\* the paid amount is that of the job's payment rows.
TotalsAgree ==
  AtRest => \A j \in Job :
    job[j].paid = MapThenSumSet(Kept, {k \in Key : JobOf[k] = j})
=============================================================================
