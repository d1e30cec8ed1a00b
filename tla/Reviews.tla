------------------------------ MODULE Reviews ------------------------------
(***************************************************************************)
(* The managers' inbox of bookings and the customer's link to a booking.   *)
(*                                                                         *)
(* A payment and a customer's request for changes each end by raising an   *)
(* alert for every manager (alerts.service.ts,                             *)
(* booking-change-request.service.ts); confirming the booking in a review  *)
(* ends by resolving them (schedule.service.ts).  In all three the alerts  *)
(* are written after, and apart from, what they are about, one statement   *)
(* for each manager.  The link by which a customer comes back is found or  *)
(* minted by whoever needs it (booking-access.service.ts).                 *)
(***************************************************************************)
EXTENDS Naturals, FiniteSets

CONSTANTS
  Job,            \* public bookings
  Member,         \* memberships of the company
  FirstManager,   \* the members who are managers from the start
  Proc,           \* requests the API can be serving at a time
  None,           \* no job, no member
  Lifetime,       \* how long a link is valid
  MaxTime,        \* bound: the clock stops
  MaxOps,         \* bound: payments, requests for changes, reviews and edits
  MaxToken,       \* bound: links minted
  MaxDeaths       \* bound: requests that die

ASSUME ConstantsAssumption ==
  /\ None \notin Job \cup Member
  /\ FirstManager \subseteq Member
  /\ IsFiniteSet(Member)
  /\ Lifetime \in Nat \ {0} /\ MaxTime \in Nat
  /\ MaxOps \in Nat /\ MaxToken \in Nat /\ MaxDeaths \in Nat

VARIABLES
  job,      \* status and paidAt of Job rows
  manager,  \* members whose role is MANAGER or ADMIN
  alert,    \* Alert rows: one for a job and a member (@@unique)
  link,     \* BookingAccessLink rows: one for a job; token 0 is the absent row
  proc,     \* requests
  now, ops,
  handed,   \* links given to customers, and whether another was being minted
  due,      \* bookings paid, or to be changed, since their alerts were resolved
  died      \* bookings of which a request has died

vars == <<job, manager, alert, link, proc, now, ops, handed, due, died>>

Reason == {"NEW_BOOKING", "CHANGE_REQUEST"}
AlertRow == [status : {"none", "OPEN", "RESOLVED"}, reason : Reason, read : BOOLEAN]
NoAlert == [status |-> "none", reason |-> "NEW_BOOKING", read |-> FALSE]
NoLink == [token |-> 0, expires |-> 0]

Pc == {"idle", "managers", "upsert", "resolve", "read", "mint"}
Idle == [pc |-> "idle", job |-> None, reason |-> "NEW_BOOKING", todo |-> {}]

TypeOK ==
  /\ job \in [Job -> [status : {"PENDING_CONFIRMATION", "SCHEDULED"}, paid : BOOLEAN]]
  /\ manager \subseteq Member
  /\ alert \in [Job \X Member -> AlertRow]
  /\ link \in [Job -> [token : 0..MaxToken, expires : 0..MaxTime + Lifetime]]
  /\ proc \in [Proc -> [pc : Pc, job : Job \cup {None}, reason : Reason, todo : SUBSET Member]]
  /\ now \in 0..MaxTime /\ ops \in 0..MaxOps
  /\ handed \subseteq [job : Job, token : 1..MaxToken, expires : 0..MaxTime + Lifetime,
                       racing : BOOLEAN]
  /\ due \subseteq Job /\ died \subseteq Job

Init ==
  /\ job = [j \in Job |-> [status |-> "PENDING_CONFIRMATION", paid |-> FALSE]]
  /\ manager = FirstManager
  /\ alert = [k \in Job \X Member |-> NoAlert]
  /\ link = [j \in Job |-> NoLink]
  /\ proc = [p \in Proc |-> Idle]
  /\ now = 0 /\ ops = 0
  /\ handed = {} /\ due = {} /\ died = {}

-----------------------------------------------------------------------------
At(p, pc) == proc[p].pc = pc
Goes(p, rec) == proc' = [proc EXCEPT ![p] = rec]

Start(p, rec) ==
  /\ At(p, "idle") /\ ops < MaxOps
  /\ ops' = ops + 1
  /\ Goes(p, rec)

\* What is left when a request writes nothing but its own state, or one row.
NoWrite == UNCHANGED <<job, alert, link, due>>
Only == UNCHANGED <<manager, now, handed, died>>

(***************************************************************************)
(* Raising alerts                                                          *)
(***************************************************************************)
\* reconcileSuccessfulCheckoutSession commits a credit, also of a later balance;
\* the alert is for a public booking, whatever its status.
Pay(p, j) ==
  /\ Start(p, [Idle EXCEPT !.pc = "managers", !.job = j])
  /\ job' = [job EXCEPT ![j].paid = TRUE]
  /\ due' = due \cup {j}
  /\ UNCHANGED <<alert, link>> /\ Only

Works(h) == link[h.job].token = h.token /\ h.expires > now

\* findBookingAccessLink and the audit record of requestBookingChanges.
RequestBookingChanges(p, h) ==
  /\ Works(h)
  /\ Start(p, [Idle EXCEPT !.pc = "managers", !.job = h.job, !.reason = "CHANGE_REQUEST"])
  /\ due' = due \cup {h.job}
  /\ UNCHANGED <<job, alert, link>> /\ Only

\* Mistaken: a booking that was raised before is taken to be in the inbox.
ReadManagersOnce(p) ==
  /\ At(p, "managers")
  /\ LET todo == {m \in manager : alert[<<proc[p].job, m>>].status = "none"}
     IN Goes(p, IF todo = {} THEN Idle ELSE [proc[p] EXCEPT !.pc = "upsert", !.todo = todo])
  /\ NoWrite /\ UNCHANGED ops /\ Only

ReadManagers(p) ==
  /\ At(p, "managers")
  /\ Goes(p, IF manager = {} THEN Idle
             ELSE [proc[p] EXCEPT !.pc = "upsert", !.todo = manager])
  /\ NoWrite /\ UNCHANGED ops /\ Only

Raised(p) == [status |-> "OPEN", reason |-> proc[p].reason, read |-> FALSE]

AfterUpsert(p, m) ==
  Goes(p, IF proc[p].todo = {m} THEN Idle ELSE [proc[p] EXCEPT !.todo = @ \ {m}])

\* Mistaken: the update leaves the status.
UpsertKeepsStatus(p, m) ==
  LET k == <<proc[p].job, m>> IN
  /\ At(p, "upsert") /\ m \in proc[p].todo
  /\ alert' = [alert EXCEPT ![k] =
       IF @.status = "none" THEN Raised(p) ELSE [Raised(p) EXCEPT !.status = alert[k].status]]
  /\ AfterUpsert(p, m)
  /\ UNCHANGED <<job, link, due, ops>> /\ Only

\* The upserts run at the same time, in any order.
Upsert(p, m) ==
  /\ At(p, "upsert") /\ m \in proc[p].todo
  /\ alert' = [alert EXCEPT ![<<proc[p].job, m>>] = Raised(p)]
  /\ AfterUpsert(p, m)
  /\ UNCHANGED <<job, link, due, ops>> /\ Only

(***************************************************************************)
(* Reviews, and what else moves a booking                                  *)
(***************************************************************************)
\* reviewJob: confirming needs paidAt, and a review that changes nothing is refused.
Review(p, j, confirm, changes) ==
  /\ confirm => job[j].paid
  /\ changes \/ (confirm /\ job[j].status # "SCHEDULED")
  /\ Start(p, IF confirm THEN [Idle EXCEPT !.pc = "resolve", !.job = j] ELSE Idle)
  /\ job' = [job EXCEPT ![j].status = IF confirm THEN "SCHEDULED" ELSE @]
  /\ UNCHANGED <<alert, link, due>> /\ Only

\* resolveBookingReviewAlerts
Resolve(p) ==
  /\ At(p, "resolve")
  /\ alert' = [k \in DOMAIN alert |->
       IF k[1] = proc[p].job /\ alert[k].status = "OPEN"
       THEN [alert[k] EXCEPT !.status = "RESOLVED"] ELSE alert[k]]
  /\ due' = due \ {proc[p].job}
  /\ Goes(p, Idle)
  /\ UNCHANGED <<job, link, ops>> /\ Only

\* updateJob sets either status, and leaves the alerts.
Edit(p, j, status) ==
  /\ job[j].status # status
  /\ Start(p, Idle)
  /\ job' = [job EXCEPT ![j].status = status]
  /\ UNCHANGED <<alert, link, due>> /\ Only

\* updateWorker gives a worker the role MANAGER, or takes it.
SetRole(m) ==
  /\ ops < MaxOps /\ ops' = ops + 1
  /\ m \notin FirstManager
  /\ manager' = IF m \in manager THEN manager \ {m} ELSE manager \cup {m}
  /\ UNCHANGED <<job, alert, link, proc, now, handed, due, died>>

(***************************************************************************)
(* The inbox                                                               *)
(***************************************************************************)
\* markRead of a manager for an alert found unread; todo is the manager.
FindAlert(p, k) ==
  /\ At(p, "idle")
  /\ k[2] \in manager
  /\ alert[k].status # "none" /\ ~alert[k].read
  /\ Goes(p, [Idle EXCEPT !.pc = "read", !.job = k[1], !.todo = {k[2]}])
  /\ NoWrite /\ UNCHANGED ops /\ Only

MarkRead(p) ==
  /\ At(p, "read")
  /\ alert' = [k \in DOMAIN alert |->
       IF k \in {proc[p].job} \X proc[p].todo THEN [alert[k] EXCEPT !.read = TRUE]
       ELSE alert[k]]
  /\ Goes(p, Idle)
  /\ UNCHANGED <<job, link, due, ops>> /\ Only

\* listForUser
Listed(m, status) == {j \in Job : alert[<<j, m>>].status = status}

(***************************************************************************)
(* The customer's link: ensureBookingAccessLink, for the answer of a       *)
(* checkout, the result of a payment or an e-mail.                         *)
(***************************************************************************)
Hand(j, row, racing) ==
  handed' = handed \cup
    {[job |-> j, token |-> row.token, expires |-> row.expires, racing |-> racing]}

Minting(j, p) == \E q \in Proc \ {p} : At(q, "mint") /\ proc[q].job = j

Valid(j) == link[j].token > 0 /\ link[j].expires > now

\* Mistaken: a link that is there is not looked at.
FindLinkNever(p, j) ==
  /\ At(p, "idle") /\ link[j].token < MaxToken
  /\ Goes(p, [Idle EXCEPT !.pc = "mint", !.job = j])
  /\ NoWrite /\ UNCHANGED <<manager, now, ops, handed, died>>

FindLink(p, j) ==
  /\ At(p, "idle")
  /\ IF Valid(j)
     THEN Hand(j, link[j], Minting(j, p)) /\ UNCHANGED proc
     ELSE /\ Goes(p, [Idle EXCEPT !.pc = "mint", !.job = j])
          /\ UNCHANGED handed
  /\ NoWrite /\ UNCHANGED <<manager, now, ops, died>>

Tokens == {link[j].token : j \in Job} \cup {h.token : h \in handed}

MintLink(p) ==
  LET j == proc[p].job
      row == [token |-> CHOOSE t \in 1..MaxToken : t \notin Tokens,
              expires |-> now + Lifetime]
  IN
  /\ At(p, "mint") /\ ~(1..MaxToken \subseteq Tokens)
  /\ link' = [link EXCEPT ![j] = row]
  /\ Hand(j, row, Minting(j, p))
  /\ Goes(p, Idle)
  /\ UNCHANGED <<job, manager, alert, now, ops, due, died>>

Die(p) ==
  /\ ~At(p, "idle")
  /\ Cardinality(died) < MaxDeaths
  /\ died' = died \cup {proc[p].job}
  /\ Goes(p, Idle)
  /\ NoWrite /\ UNCHANGED <<manager, now, ops, handed>>

Tick ==
  /\ now < MaxTime
  /\ now' = now + 1
  /\ NoWrite /\ UNCHANGED <<manager, proc, ops, handed, died>>

-----------------------------------------------------------------------------
Continue(p) ==
  \/ ReadManagers(p) \/ Resolve(p) \/ MarkRead(p) \/ MintLink(p)
  \/ \E m \in Member : Upsert(p, m)

Next ==
  \/ \E p \in Proc :
       \/ Continue(p) \/ Die(p)
       \/ \E h \in handed : RequestBookingChanges(p, h)
       \/ \E k \in DOMAIN alert : FindAlert(p, k)
       \/ \E j \in Job :
            \/ Pay(p, j) \/ FindLink(p, j)
            \/ \E confirm, changes \in BOOLEAN : Review(p, j, confirm, changes)
            \/ \E status \in {"PENDING_CONFIRMATION", "SCHEDULED"} : Edit(p, j, status)
  \/ \E m \in Member : SetRole(m)
  \/ Tick

Spec == Init /\ [][Next]_vars

\* A request that has begun goes on.
FairSpec == Spec /\ \A p \in Proc : WF_vars(Continue(p))

-----------------------------------------------------------------------------
(***************************************************************************)
(* Properties                                                              *)
(***************************************************************************)
Raising(j) ==
  \E p \in Proc : proc[p].job = j /\ proc[p].pc \in {"managers", "upsert"}

InInbox(j) == \A m \in FirstManager : j \in Listed(m, "OPEN")

\* A booking that was paid, or that its customer wants changed, since its alerts
\* were last resolved is in the inbox of every manager once its alerts have been
\* raised, whatever else is raised, read, reviewed and resolved meanwhile, for
\* this booking and for others.
DueIsInInbox ==
  \A j \in due : Raising(j) \/ j \in died \/ InInbox(j)

\* And it gets there in the end.
DueReachesInbox ==
  \A j \in Job : j \in due ~> j \notin due \/ j \in died \/ InInbox(j)

\* The link a customer was given opens the booking until it expires, although any
\* request may mint one.  Only requests that mint at the same time spoil each
\* other's links.
LinksWork ==
  \A h \in handed : h.expires > now /\ ~h.racing => Works(h)
=============================================================================
