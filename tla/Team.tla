-------------------------------- MODULE Team --------------------------------
(***************************************************************************)
(* The members of the companies and what they may do: JwtAuthGuard         *)
(* (jwt-auth.guard.ts), which finds the company and the role of a request, *)
(* the first GET /me of a user (me.controller.ts), which makes a newcomer  *)
(* a manager of the demo company, and updateWorker (settings.service.ts),  *)
(* which changes the role and the worker row of another member.            *)
(*                                                                         *)
(* The lookups and writes of a request are statements of their own, so     *)
(* that what the guard found may be over when the handler acts on it.      *)
(***************************************************************************)
EXTENDS Integers, FiniteSets

CONSTANTS
  User, Company,
  None,          \* no company, nobody
  Demo,          \* MANAGER_AUTO_MEMBERSHIP_COMPANY_ID, or None
  TokenManager,  \* users whose token itself says manager or admin
  StartRole,     \* roles to start from: a set of [Company -> [User -> Role]]
  Proc,          \* requests served at a time
  MaxRequests    \* bound: requests

Role == {"NONE", "WORKER", "MANAGER", "ADMIN"}

ASSUME TeamAssumption ==
  /\ None \notin User \cup Company
  /\ Demo \in Company \cup {None}
  /\ TokenManager \subseteq User
  /\ StartRole \subseteq [Company -> [User -> Role]]
  /\ MaxRequests \in Nat

VARIABLES
  role,      \* memberships; "NONE" without one
  active,    \* whether the worker linked to a member is active
  proc,      \* requests
  requests   \* requests so far

teamVars == <<role, active, proc, requests>>

Companies(u) == {c \in Company : role[c][u] # "NONE"}

\* A request: where it is, whose it is, the company and the authority the guard gave it,
\* and what its handler was asked and has read.
Idle == [pc |-> "idle", user |-> None, at |-> None, manager |-> FALSE, arg |-> None]

TeamTypeOK ==
  /\ role \in [Company -> [User -> Role]]
  /\ active \in [Company -> [User -> BOOLEAN]]
  /\ \A p \in Proc : /\ proc[p].user \in User \cup {None}
                     /\ proc[p].at \in Company \cup {None}
                     /\ proc[p].manager => proc[p].at # None
  /\ requests \in 0..MaxRequests

TeamInit ==
  /\ role \in StartRole
  /\ active = [c \in Company |-> [u \in User |-> TRUE]]
  /\ proc = [p \in Proc |-> Idle]
  /\ requests = 0

At(p, pc) == proc[p].pc = pc
Goes(p, rec) == proc' = [proc EXCEPT ![p] = rec]
Ends(p) == Goes(p, Idle)

-----------------------------------------------------------------------------
\* The guard.  The roles of the token count in every company.
Granted(p, u, c) ==
  Goes(p, [pc |-> "granted", user |-> u, at |-> c, arg |-> None,
           manager |-> role[c][u] \in {"MANAGER", "ADMIN"} \/ u \in TokenManager])

\* The membership of the company the request names, if it names one.
Arrive(p, u, named) ==
  /\ At(p, "idle")
  /\ requests < MaxRequests /\ requests' = requests + 1
  /\ IF named \in Companies(u) THEN Granted(p, u, named)
     ELSE Goes(p, [Idle EXCEPT !.pc = "lookup", !.user = u])
  /\ UNCHANGED <<role, active>>

\* Otherwise the only membership there is; a request without a company goes on too.
Lookup(p) ==
  LET u == proc[p].user IN
  /\ At(p, "lookup")
  /\ \/ \E c \in Companies(u) : Companies(u) = {c} /\ Granted(p, u, c)
     \/ Cardinality(Companies(u)) # 1 /\ Goes(p, [proc[p] EXCEPT !.pc = "granted"])
  /\ UNCHANGED <<role, active, requests>>

\* Refused for want of a company or of a role, or by a handler that changes nothing.
Refused(p) ==
  /\ At(p, "granted")
  /\ Ends(p)
  /\ UNCHANGED <<role, active, requests>>

-----------------------------------------------------------------------------
\* GET /me: ensureDemoMembership finds no membership, then upserts one.
Me(p) ==
  /\ At(p, "granted")
  /\ Demo # None /\ Companies(proc[p].user) = {}
  /\ Goes(p, [proc[p] EXCEPT !.pc = "provision"])
  /\ UNCHANGED <<role, active, requests>>

Provision(p) ==
  /\ At(p, "provision")
  /\ role' = [role EXCEPT ![Demo][proc[p].user] = "MANAGER"]
  /\ Ends(p)
  /\ UNCHANGED <<active, requests>>

-----------------------------------------------------------------------------
\* Mistaken: administrators are members like others.
MaySetAnyRole(p, u, r) == u = proc[p].user => role[proc[p].at][u] = r

\* updateWorker: the row and the role of another member are read, a change of an
\* administrator's role or of one's own is refused, and the role and the row are
\* written one after the other.  r = "NONE": the role is not sent.
MaySetRole(p, u, r) ==
  LET now == role[proc[p].at][u] IN
  /\ now # "ADMIN"
  /\ u = proc[p].user => now = r

ReadWorker(p, u, r, on) ==
  /\ At(p, "granted") /\ proc[p].manager
  /\ r = "NONE" \/ MaySetRole(p, u, r)
  /\ Goes(p, [proc[p] EXCEPT !.pc = IF r = "NONE" THEN "setWorker" ELSE "setRole",
                             !.arg = [user |-> u, role |-> r, on |-> on]])
  /\ UNCHANGED <<role, active, requests>>

SetRole(p) ==
  LET c == proc[p].at
      u == proc[p].arg.user IN
  /\ At(p, "setRole")
  /\ role' = IF role[c][u] = "NONE" THEN role
             ELSE [role EXCEPT ![c][u] = proc[p].arg.role]
  /\ Goes(p, [proc[p] EXCEPT !.pc = "setWorker"])
  /\ UNCHANGED <<active, requests>>

SetWorker(p) ==
  /\ At(p, "setWorker")
  /\ active' = [active EXCEPT ![proc[p].at][proc[p].arg.user] = proc[p].arg.on]
  /\ Ends(p)
  /\ UNCHANGED <<role, requests>>

TeamNext ==
  \E p \in Proc :
    \/ \E u \in User, named \in Company \cup {None} : Arrive(p, u, named)
    \/ Lookup(p) \/ Refused(p)
    \/ Me(p) \/ Provision(p)
    \/ \E u \in User, r \in {"NONE", "WORKER", "MANAGER"}, on \in BOOLEAN :
         ReadWorker(p, u, r, on)
    \/ SetRole(p) \/ SetWorker(p)

-----------------------------------------------------------------------------
\* An administrator stays one, although the role is read in one statement and written
\* in another without asking again.
AdminsStay ==
  [][\A c \in Company : \A u \in User : role[c][u] = "ADMIN" => role'[c][u] = "ADMIN"]_role
=============================================================================
