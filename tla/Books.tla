-------------------------------- MODULE Books --------------------------------
(***************************************************************************)
(* What the payment component promises a company's books, seen from        *)
(* outside: a checkout is quoted an amount until it is paid; when it is    *)
(* paid it is booked, once, on the job it was issued for and with the      *)
(* amount quoted; and nothing else moves what a job has been paid.         *)
(***************************************************************************)
EXTENDS Naturals

CONSTANTS Checkout, Account, AccountOf
VARIABLES amount, booked, paid

vars == <<amount, booked, paid>>

Init == booked = {} /\ paid = [a \in Account |-> 0]

Quote(k) ==
  /\ k \notin booked
  /\ \A l \in Checkout \ {k} : amount'[l] = amount[l]
  /\ UNCHANGED <<booked, paid>>

Book(k) ==
  /\ k \notin booked
  /\ booked' = booked \cup {k}
  /\ paid' = [paid EXCEPT ![AccountOf[k]] = @ + amount[k]]
  /\ UNCHANGED amount

Next == \E k \in Checkout : Quote(k) \/ Book(k)

Spec == Init /\ [][Next]_vars
=============================================================================
