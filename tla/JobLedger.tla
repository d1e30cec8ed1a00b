----------------------------- MODULE JobLedger -----------------------------
(***************************************************************************)
(* The money columns of a Job row (schema.prisma, "cached totals for fast  *)
(* reads") and the only computations the server performs on them.  A row   *)
(* is the record [total, paid, balance, paidAt]; paidAt is kept as whether *)
(* the timestamp is set.  Every computation takes the row it overwrites    *)
(* and, where the code computes from values it read earlier in the same    *)
(* transaction, the row as it was "seen" then: the update statements are   *)
(* column-wise, so a column the statement does not name keeps the value    *)
(* the row has when the statement runs.                                    *)
(***************************************************************************)
EXTENDS Naturals

Money == [total : Nat, paid : Nat, balance : Nat, paidAt : BOOLEAN]

\* Math.max(a - b, 0)
Less(a, b) == IF a > b THEN a - b ELSE 0

\* A job row as the public draft and both job-creation paths insert it.
Created(total) ==
  [total |-> total, paid |-> 0, balance |-> total, paidAt |-> FALSE]

\* The update branch of upsertPublicJobDraft: paidAt is not among the columns.
Redrafted(row, total) ==
  [row EXCEPT !.total = total, !.paid = 0, !.balance = total]

\* Mistaken: a job with nothing to charge counts as paid.
RepricedFree(row, seen, total) ==
  LET owed == Less(total, seen.paid)
  IN  [row EXCEPT !.total = total, !.balance = owed, !.paidAt = owed = 0]

\* updateJob with line items: the balance is computed from the paid amount the
\* transaction read, paid itself is not written.
Repriced(row, seen, total) ==
  LET owed == Less(total, seen.paid)
  IN  [row EXCEPT !.total = total,
                  !.balance = owed,
                  !.paidAt = owed = 0 /\ total > 0]

\* markCheckoutSessionCompleted: total is not written, paidAt is only ever set.
Credited(row, seen, amount) ==
  LET owed == Less(seen.total, seen.paid + amount)
  IN  [row EXCEPT !.paid = seen.paid + amount,
                  !.balance = owed,
                  !.paidAt = owed = 0 \/ row.paidAt]

\* markChargeRefunded: paidAt is left as it is.
Refunded(row, seen, amount) ==
  LET kept == Less(seen.paid, amount)
  IN  [row EXCEPT !.paid = kept, !.balance = Less(seen.total, kept)]
=============================================================================
