---------------------------- MODULE OfficeProofs ----------------------------
(***************************************************************************)
(* Proofs about Office and Team: what a request has found is still good    *)
(* for what it is about to write, because nothing that requests rely on is *)
(* taken back, and because a task's row is locked while its update writes. *)
(***************************************************************************)
EXTENDS Office, TLAPS

ClientRow == [there : {"no", "yes", "removed"}, email : Email \cup {None}]
TaskRow == [there : {"no", "yes", "removed"}, customer : Client \cup {None},
            start : Times, end : Times, completed : BOOLEAN, assigned : SUBSET User,
            logged : BOOLEAN]
NewTask == [customer : Client \cup {None}, start : Times, end : Times,
            completed : BOOLEAN, assigned : SUBSET User]
Gone(there) == [there |-> there, customer |-> None, start |-> 0, end |-> 1,
                completed |-> FALSE, assigned |-> {}, logged |-> FALSE]

Tables ==
  /\ role \in [Company -> [User -> Role]]
  /\ active \in [Company -> [User -> BOOLEAN]]
  /\ requests \in 0..MaxRequests
  /\ client \in [Client -> ClientRow]
  /\ task \in [Task -> TaskRow]
  /\ holder \in [Task -> Proc \cup {None}]
  /\ given \in [Task -> SUBSET User]
  /\ late \subseteq Task
  /\ DOMAIN proc = Proc /\ proc = [p \in Proc |-> proc[p]]

\* The rows of the tasks: what Office says of them, of one task.
TaskIsGood(k) ==
  /\ task[k].there # "yes" => task[k] = Gone(task[k].there)
  /\ task[k].start < task[k].end
  /\ task[k].assigned = given[k]
  /\ task[k].completed => task[k].logged
  /\ k \notin late /\ task[k].customer # None => Live(task[k].customer)

\* The requests of Team.
Identified(p) ==
  LET r == proc[p] IN
  /\ r = [pc |-> r.pc, user |-> r.user, at |-> r.at, manager |-> r.manager, arg |-> r.arg]
  /\ r.user \in User \cup {None} /\ r.at \in Company \cup {None}
  /\ r.manager => r.at # None
  /\ r.pc \in {"lookup", "granted", "provision"} => r.user \in User
  /\ r.pc = "provision" => Demo # None /\ role[Demo][r.user] # "ADMIN"
  /\ r.pc \in {"setRole", "setWorker"} =>
       r.at \in Company /\ r.arg.user \in User /\ r.arg.on \in BOOLEAN
  /\ r.pc = "setRole" =>
       r.arg.role \in {"WORKER", "MANAGER"} /\ role[r.at][r.arg.user] # "ADMIN"

\* Those of Office: a client that was checked has been there, and a completion found
\* under way is in the log or its task is gone.
Known(c) == c # None => client[c].there # "no"
Logged(k) == task[k].logged \/ task[k].there = "removed"

Changing(p) ==
  LET r == proc[p] IN
  /\ r.pc = "insertClient" => r.arg \in Email \cup {None}
  /\ r.pc = "updateClient" => r.arg.client \in Client /\ r.arg.email \in Email \cup {None}
  /\ r.pc = "removeClient" => r.arg \in Client
  /\ r.pc = "insertTask" =>
       r.arg \in NewTask /\ r.arg.start < r.arg.end /\ Known(r.arg.customer)

Updating(p) ==
  LET r == proc[p]
      a == r.arg IN
  /\ r.pc \in {"checkUpdate", "update", "commit"} =>
       /\ a = [task |-> a.task, existing |-> a.existing, new |-> a.new, sent |-> a.sent,
               deleted |-> a.deleted]
       /\ a.task \in Task /\ a.existing \in TaskRow
       /\ a.existing.completed => Logged(a.task)
  /\ r.pc \in {"update", "commit"} =>
       /\ a.sent \subseteq {"start", "end", "customer", "assigned", "completed"}
       /\ a.new \in NewTask /\ a.new.start < a.new.end
       /\ "customer" \in a.sent => Known(a.new.customer)

RequestIsGood(p) == Identified(p) /\ Changing(p) /\ Updating(p)

\* The lock of a task's row.
HolderIsAtWork(k) ==
  holder[k] # None =>
    /\ At(holder[k], "commit") /\ proc[holder[k]].arg.task = k
    /\ proc[holder[k]].arg.deleted = task[k].assigned
    /\ task[k].there = "yes"
Locks ==
  /\ \A k \in Task : HolderIsAtWork(k)
  /\ \A p \in Proc : At(p, "commit") => holder[proc[p].arg.task] = p

IInv ==
  /\ Tables
  /\ \A k \in Task : TaskIsGood(k)
  /\ \A p \in Proc : RequestIsGood(p)
  /\ Locks

-----------------------------------------------------------------------------
(***************************************************************************)
(* Frames                                                                  *)
(***************************************************************************)
Only(p) ==
  /\ DOMAIN proc' = Proc /\ proc' = [q \in Proc |-> proc'[q]]
  /\ \A q \in Proc \ {p} : proc'[q] = proc[q]

\* What requests rely on is not taken back.
Keeps ==
  /\ \A c \in Company, u \in User : role'[c][u] = "ADMIN" => role[c][u] = "ADMIN"
  /\ \A c \in Client : client[c].there # "no" => client'[c].there # "no"
  /\ \A k \in Task : Logged(k) => Logged(k)'

LEMMA OthersStayGood ==
  ASSUME Keeps, NEW q \in Proc, proc'[q] = proc[q], RequestIsGood(q)
  PROVE  RequestIsGood(q)'
<1>1. Identified(q)'
  BY TeamAssumption DEF RequestIsGood, Identified, Keeps
<1>2. Changing(q)'
  BY DEF RequestIsGood, Changing, Known, Keeps, NewTask
<1>3. Updating(q)'
  BY DEF RequestIsGood, Updating, Known, Keeps, NewTask
<1> QED BY <1>1, <1>2, <1>3 DEF RequestIsGood

LEMMA Combine ==
  ASSUME IInv, NEW p \in Proc, Only(p), Keeps,
         Tables', \A k \in Task : TaskIsGood(k)', RequestIsGood(p)', Locks'
  PROVE  IInv'
<1>1. ASSUME NEW q \in Proc PROVE RequestIsGood(q)'
  <2>1. CASE q = p
    BY <2>1
  <2>2. CASE q # p
    BY <2>2, OthersStayGood DEF Only, IInv
  <2> QED BY <2>1, <2>2
<1> QED BY <1>1 DEF IInv

LEMMA LocksStay ==
  ASSUME IInv, NEW p \in Proc, Only(p), holder' = holder,
         ~At(p, "commit"), ~At(p, "commit")',
         \A k \in Task : holder[k] # None => /\ task'[k].assigned = task[k].assigned
                                             /\ task'[k].there = task[k].there
  PROVE  Locks'
<1>1. ASSUME NEW k \in Task PROVE HolderIsAtWork(k)'
  <2>1. HolderIsAtWork(k) /\ holder[k] \in Proc \cup {None}
    BY DEF IInv, Locks, Tables
  <2>2. holder[k] # None => holder[k] # p /\ proc'[holder[k]] = proc[holder[k]]
    BY <2>1 DEF HolderIsAtWork, Only
  <2> QED BY <2>1, <2>2 DEF HolderIsAtWork, At
<1>2. ASSUME NEW q \in Proc, At(q, "commit")' PROVE (holder[proc[q].arg.task] = q)'
  BY <1>2 DEF IInv, Locks, Only, At
<1> QED BY <1>1, <1>2 DEF Locks

LEMMA TasksStay ==
  ASSUME IInv, UNCHANGED <<task, given, late>>, Keeps,
         \A c \in Client : Live(c) => Live(c)'
  PROVE  \A k \in Task : TaskIsGood(k)'
<1> TAKE k \in Task
<1>1. TaskIsGood(k) /\ task[k] \in TaskRow
  BY DEF IInv, Tables
<1> QED BY <1>1 DEF TaskIsGood, TaskRow

\* The step of a request that writes nothing but what it carries.
LEMMA MovesKeep ==
  ASSUME IInv, NEW p \in Proc, Only(p), RequestIsGood(p)',
         UNCHANGED <<role, active, officeVars>>, requests' \in 0..MaxRequests,
         ~At(p, "commit"), ~At(p, "commit")'
  PROVE  IInv'
<1>1. Tables'
  BY DEF IInv, Tables, Only, officeVars
<1>2. Keeps
  BY DEF Keeps, Logged, officeVars
<1>3. \A k \in Task : TaskIsGood(k)'
  BY <1>2, TasksStay DEF officeVars, Live
<1>4. Locks'
  BY LocksStay DEF officeVars
<1> QED BY <1>1, <1>2, <1>3, <1>4, Combine

-----------------------------------------------------------------------------
LEMMA GoneIsNoTask == ASSUME NEW there PROVE [NoTask EXCEPT !.there = there] = Gone(there)
<1> DEFINE no == FALSE
           row(x) == [there |-> x, customer |-> None, start |-> 0, end |-> 1,
                      completed |-> no, assigned |-> {}, logged |-> no]
<1>1. NoTask = row("no") /\ Gone(there) = row(there)
  BY DEF NoTask, Gone
<1> HIDE DEF no
<1> QED BY <1>1

LEMMA InitKeeps == Init => IInv
<1> SUFFICES ASSUME Init PROVE IInv
  OBVIOUS
<1>1. Tables
  BY OfficeAssumption, TeamAssumption
  DEF Init, TeamInit, Tables, NoClient, ClientRow, NoTask, TaskRow, Times
<1>2. ASSUME NEW k \in Task PROVE TaskIsGood(k)
  <2>1. task[k] = NoTask /\ given[k] = {}
    BY DEF Init
  <2>2. Gone("no") = NoTask
    BY DEF Gone, NoTask
  <2> QED BY <2>1, <2>2 DEF TaskIsGood, NoTask
<1>3. ASSUME NEW p \in Proc PROVE RequestIsGood(p)
  BY DEF Init, TeamInit, Idle, RequestIsGood, Identified, Changing, Updating
<1>4. Locks
  BY DEF Init, TeamInit, Idle, Locks, HolderIsAtWork, At
<1> QED BY <1>1, <1>2, <1>3, <1>4 DEF IInv

LEMMA EndsIsGood ==
  ASSUME IInv, NEW p \in Proc, Ends(p)
  PROVE  Only(p) /\ RequestIsGood(p)' /\ ~At(p, "commit")'
<1>1. Only(p) /\ proc'[p] = Idle
  BY DEF IInv, Tables, Only, Ends, Goes
<1> QED BY <1>1 DEF Idle, RequestIsGood, Identified, Changing, Updating, At

LEMMA GrantedIsGood ==
  ASSUME IInv, NEW p \in Proc, NEW u \in User, NEW c \in Company, Granted(p, u, c)
  PROVE  Only(p) /\ RequestIsGood(p)' /\ ~At(p, "commit")'
<1>1. /\ Only(p)
      /\ proc'[p] = [pc |-> "granted", user |-> u, at |-> c, arg |-> None,
                     manager |-> role[c][u] \in {"MANAGER", "ADMIN"} \/ u \in TokenManager]
  BY DEF IInv, Tables, Only, Granted, Goes
<1> QED BY <1>1, TeamAssumption DEF RequestIsGood, Identified, Changing, Updating, At

(***************************************************************************)
(* Team                                                                    *)
(***************************************************************************)
LEMMA ArriveKeeps ==
  ASSUME IInv, NEW p \in Proc, NEW u \in User, NEW named \in Company \cup {None},
         Arrive(p, u, named), UNCHANGED officeVars
  PROVE  IInv'
<1>1. /\ requests' \in 0..MaxRequests /\ UNCHANGED <<role, active, officeVars>>
      /\ ~At(p, "commit")
  BY TeamAssumption DEF Arrive, At, IInv, Tables
<1>2. CASE named \in Companies(u)
  <2>1. named \in Company /\ Granted(p, u, named)
    BY <1>2 DEF Arrive, Companies
  <2> QED BY <1>1, <2>1, GrantedIsGood, MovesKeep
<1>3. CASE named \notin Companies(u)
  <2>1. Only(p) /\ proc'[p] = [Idle EXCEPT !.pc = "lookup", !.user = u]
    BY <1>3 DEF Arrive, Goes, IInv, Tables, Only
  <2>2. proc'[p] = [pc |-> "lookup", user |-> u, at |-> None, manager |-> FALSE, arg |-> None]
    BY <2>1 DEF Idle
  <2>3. RequestIsGood(p)' /\ ~At(p, "commit")'
    BY <2>2 DEF RequestIsGood, Identified, Changing, Updating, At
  <2> QED BY <1>1, <2>1, <2>3, MovesKeep
<1> QED BY <1>2, <1>3

LEMMA LookupKeeps ==
  ASSUME IInv, NEW p \in Proc, Lookup(p), UNCHANGED officeVars
  PROVE  IInv'
<1>1. /\ requests' \in 0..MaxRequests /\ UNCHANGED <<role, active, officeVars>>
      /\ At(p, "lookup") /\ ~At(p, "commit") /\ Identified(p) /\ proc[p].user \in User
  BY DEF Lookup, At, IInv, Tables, RequestIsGood, Identified
<1>2. CASE \E c \in Companies(proc[p].user) : Granted(p, proc[p].user, c)
  <2>1. PICK c \in Company : Granted(p, proc[p].user, c)
    BY <1>2 DEF Companies
  <2> QED BY <1>1, <2>1, GrantedIsGood, MovesKeep
<1>3. CASE Goes(p, [proc[p] EXCEPT !.pc = "granted"])
  <2>1. Only(p) /\ proc'[p] = [proc[p] EXCEPT !.pc = "granted"]
    BY <1>3 DEF Goes, IInv, Tables, Only
  <2>2. RequestIsGood(p)' /\ ~At(p, "commit")'
    BY <1>1, <2>1 DEF RequestIsGood, Identified, Changing, Updating, At
  <2> QED BY <1>1, <2>1, <2>2, MovesKeep
<1> QED BY <1>2, <1>3 DEF Lookup

LEMMA RefusedKeeps ==
  ASSUME IInv, NEW p \in Proc, Refused(p), UNCHANGED officeVars
  PROVE  IInv'
<1>1. /\ requests' \in 0..MaxRequests /\ UNCHANGED <<role, active, officeVars>>
      /\ ~At(p, "commit") /\ Ends(p)
  BY DEF Refused, At, IInv, Tables
<1> QED BY <1>1, EndsIsGood, MovesKeep

LEMMA MeKeeps ==
  ASSUME IInv, NEW p \in Proc, Me(p), UNCHANGED officeVars
  PROVE  IInv'
<1>1. /\ requests' \in 0..MaxRequests /\ UNCHANGED <<role, active, officeVars>>
      /\ At(p, "granted") /\ ~At(p, "commit") /\ Identified(p) /\ proc[p].user \in User
  BY DEF Me, At, IInv, Tables, RequestIsGood, Identified
<1>2. Only(p) /\ proc'[p] = [proc[p] EXCEPT !.pc = "provision"]
  BY DEF Me, Goes, IInv, Tables, Only
<1>3. Demo # None /\ Demo \in Company /\ role[Demo][proc[p].user] = "NONE"
  BY <1>1, TeamAssumption DEF Me, Companies
<1>4. RequestIsGood(p)' /\ ~At(p, "commit")'
  BY <1>1, <1>2, <1>3 DEF RequestIsGood, Identified, Changing, Updating, At
<1> QED BY <1>1, <1>2, <1>4, MovesKeep

LEMMA ReadWorkerKeeps ==
  ASSUME IInv, NEW p \in Proc, NEW u \in User, NEW r \in {"NONE", "WORKER", "MANAGER"},
         NEW on \in BOOLEAN, ReadWorker(p, u, r, on), UNCHANGED officeVars
  PROVE  IInv'
<1>1. /\ requests' \in 0..MaxRequests /\ UNCHANGED <<role, active, officeVars>>
      /\ ~At(p, "commit") /\ Identified(p) /\ proc[p].at \in Company
  BY DEF ReadWorker, At, IInv, Tables, RequestIsGood, Identified
<1>2. /\ Only(p)
      /\ proc'[p] = [proc[p] EXCEPT !.pc = IF r = "NONE" THEN "setWorker" ELSE "setRole",
                                    !.arg = [user |-> u, role |-> r, on |-> on]]
  BY DEF ReadWorker, Goes, IInv, Tables, Only
<1>3. r = "NONE" \/ role[proc[p].at][u] # "ADMIN"
  BY DEF ReadWorker, MaySetRole
<1>4. proc'[p] = [pc |-> IF r = "NONE" THEN "setWorker" ELSE "setRole",
                  user |-> proc[p].user, at |-> proc[p].at, manager |-> proc[p].manager,
                  arg |-> [user |-> u, role |-> r, on |-> on]]
  BY <1>1, <1>2 DEF Identified
<1>5. Identified(p)'
  BY <1>1, <1>3, <1>4 DEF Identified
<1>6. Changing(p)' /\ Updating(p)' /\ ~At(p, "commit")'
  BY <1>4 DEF Changing, Updating, At
<1> QED BY <1>1, <1>2, <1>5, <1>6, MovesKeep DEF RequestIsGood

LEMMA ProvisionKeeps ==
  ASSUME IInv, NEW p \in Proc, Provision(p), UNCHANGED officeVars
  PROVE  IInv'
<1>1. /\ Only(p) /\ RequestIsGood(p)' /\ ~At(p, "commit")' /\ ~At(p, "commit")
      /\ proc[p].user \in User /\ Demo \in Company
  BY EndsIsGood, TeamAssumption DEF Provision, At, IInv, RequestIsGood, Identified
<1>2. Tables'
  BY <1>1 DEF IInv, Tables, Provision, Only, officeVars, Role
<1>3. Keeps
  BY <1>1 DEF IInv, Tables, Provision, Keeps, Logged, officeVars
<1>4. \A k \in Task : TaskIsGood(k)'
  BY <1>3, TasksStay DEF officeVars, Live
<1>5. Locks'
  BY <1>1, LocksStay DEF officeVars
<1> QED BY <1>1, <1>2, <1>3, <1>4, <1>5, Combine

LEMMA SetRoleKeeps ==
  ASSUME IInv, NEW p \in Proc, SetRole(p), UNCHANGED officeVars
  PROVE  IInv'
<1>1. /\ At(p, "setRole") /\ ~At(p, "commit") /\ Identified(p)
      /\ proc[p].at \in Company /\ proc[p].arg.user \in User /\ proc[p].arg.on \in BOOLEAN
      /\ proc[p].arg.role \in {"WORKER", "MANAGER"}
  BY DEF SetRole, At, IInv, RequestIsGood, Identified
<1>2. Only(p) /\ proc'[p] = [proc[p] EXCEPT !.pc = "setWorker"]
  BY DEF SetRole, Goes, IInv, Tables, Only
<1>3. RequestIsGood(p)' /\ ~At(p, "commit")'
  BY <1>1, <1>2 DEF RequestIsGood, Identified, Changing, Updating, At
<1>4. Tables'
  BY <1>1, <1>2 DEF IInv, Tables, SetRole, Only, officeVars, Role
<1>5. Keeps
  BY <1>1 DEF IInv, Tables, SetRole, Keeps, Logged, officeVars
<1>6. \A k \in Task : TaskIsGood(k)'
  BY <1>5, TasksStay DEF officeVars, Live
<1>7. Locks'
  BY <1>1, <1>2, <1>3, LocksStay DEF officeVars
<1> QED BY <1>2, <1>3, <1>4, <1>5, <1>6, <1>7, Combine

LEMMA SetWorkerKeeps ==
  ASSUME IInv, NEW p \in Proc, SetWorker(p), UNCHANGED officeVars
  PROVE  IInv'
<1>1. /\ Only(p) /\ RequestIsGood(p)' /\ ~At(p, "commit")' /\ ~At(p, "commit")
      /\ proc[p].at \in Company /\ proc[p].arg.user \in User /\ proc[p].arg.on \in BOOLEAN
  BY EndsIsGood DEF SetWorker, At, IInv, RequestIsGood, Identified
<1>2. Tables'
  BY <1>1 DEF IInv, Tables, SetWorker, Only, officeVars
<1>3. Keeps
  BY DEF SetWorker, Keeps, Logged, officeVars
<1>4. \A k \in Task : TaskIsGood(k)'
  BY <1>3, TasksStay DEF officeVars, Live
<1>5. Locks'
  BY <1>1, LocksStay DEF officeVars
<1> QED BY <1>1, <1>2, <1>3, <1>4, <1>5, Combine

(***************************************************************************)
(* Clients                                                                 *)
(***************************************************************************)
LEMMA TurnsTo ==
  ASSUME IInv, NEW p \in Proc, NEW pc, NEW arg, Turns(p, pc, arg)
  PROVE  proc'[p].pc = pc /\ proc'[p].arg = arg
<1>1. Identified(p)
  BY DEF IInv, RequestIsGood
<1>2. proc'[p] = [proc[p] EXCEPT !.pc = pc, !.arg = arg]
  BY DEF Turns, Goes, IInv, Tables
<1> QED BY <1>1, <1>2 DEF Identified

\* A request that was let in turns to what it is to write.
LEMMA TurnsKeeps ==
  ASSUME IInv, NEW p \in Proc, NEW pc, NEW arg, Turns(p, pc, arg), TeamStays,
         UNCHANGED officeVars, ~At(p, "commit"),
         pc \in {"insertClient", "updateClient", "removeClient", "insertTask",
                "checkUpdate", "update"},
         Changing(p)', Updating(p)'
  PROVE  IInv'
<1>1. Identified(p)
  BY DEF IInv, RequestIsGood
<1>2. Only(p) /\ proc'[p] = [proc[p] EXCEPT !.pc = pc, !.arg = arg]
  BY DEF Turns, Goes, IInv, Tables, Only
<1>3. proc'[p] = [pc |-> pc, user |-> proc[p].user, at |-> proc[p].at,
                  manager |-> proc[p].manager, arg |-> arg]
  BY <1>1, <1>2 DEF Identified
<1>4. Identified(p)' /\ ~At(p, "commit")'
  BY <1>1, <1>3 DEF Identified, At
<1>5. /\ requests' \in 0..MaxRequests /\ UNCHANGED <<role, active>>
  BY DEF TeamStays, IInv, Tables
<1> QED BY <1>2, <1>4, <1>5, MovesKeep DEF RequestIsGood

LEMMA CheckNewKeeps ==
  ASSUME IInv, NEW p \in Proc, NEW e \in Email \cup {None}, CheckNew(p, e)
  PROVE  IInv'
<1>1. Turns(p, "insertClient", e) /\ ~At(p, "commit")
  BY DEF CheckNew, Manages, At
<1>2. proc'[p].pc = "insertClient" /\ proc'[p].arg = e
  BY <1>1, TurnsTo
<1>3. Changing(p)' /\ Updating(p)'
  BY <1>2 DEF Changing, Updating
<1> QED BY <1>1, <1>3, TurnsKeeps DEF CheckNew

LEMMA CheckClientKeeps ==
  ASSUME IInv, NEW p \in Proc, NEW c \in Client, NEW e \in Email \cup {None},
         CheckClient(p, c, e)
  PROVE  IInv'
<1>1. Turns(p, "updateClient", [client |-> c, email |-> e]) /\ ~At(p, "commit")
  BY DEF CheckClient, Manages, At
<1>2. proc'[p].pc = "updateClient" /\ proc'[p].arg = [client |-> c, email |-> e]
  BY <1>1, TurnsTo
<1>3. Changing(p)' /\ Updating(p)'
  BY <1>2 DEF Changing, Updating
<1> QED BY <1>1, <1>3, TurnsKeeps DEF CheckClient

LEMMA FindClientKeeps ==
  ASSUME IInv, NEW p \in Proc, NEW c \in Client, FindClient(p, c)
  PROVE  IInv'
<1>1. Turns(p, "removeClient", c) /\ ~At(p, "commit")
  BY DEF FindClient, Manages, At
<1>2. proc'[p].pc = "removeClient" /\ proc'[p].arg = c
  BY <1>1, TurnsTo
<1>3. Changing(p)' /\ Updating(p)'
  BY <1>2 DEF Changing, Updating
<1> QED BY <1>1, <1>3, TurnsKeeps DEF FindClient

LEMMA InsertClientKeeps ==
  ASSUME IInv, NEW p \in Proc, NEW c \in Client, InsertClient(p, c)
  PROVE  IInv'
<1>1. /\ Only(p) /\ RequestIsGood(p)' /\ ~At(p, "commit")' /\ ~At(p, "commit")
      /\ proc[p].arg \in Email \cup {None}
  BY EndsIsGood DEF InsertClient, At, IInv, RequestIsGood, Changing
<1>2. Tables'
  BY <1>1 DEF IInv, Tables, InsertClient, TeamStays, Only, ClientRow
<1>3. Keeps
  BY DEF IInv, Tables, ClientRow, InsertClient, TeamStays, Keeps, Logged
<1>4. \A d \in Client : Live(d) => Live(d)'
  BY DEF IInv, Tables, ClientRow, InsertClient, Live
<1>5. \A k \in Task : TaskIsGood(k)'
  BY <1>3, <1>4, TasksStay DEF InsertClient
<1>6. Locks'
  BY <1>1, LocksStay DEF InsertClient
<1> QED BY <1>1, <1>2, <1>3, <1>5, <1>6, Combine

LEMMA UpdateClientKeeps ==
  ASSUME IInv, NEW p \in Proc, UpdateClient(p)
  PROVE  IInv'
<1>1. /\ Only(p) /\ RequestIsGood(p)' /\ ~At(p, "commit")' /\ ~At(p, "commit")
      /\ proc[p].arg.client \in Client /\ proc[p].arg.email \in Email \cup {None}
  BY EndsIsGood DEF UpdateClient, At, IInv, RequestIsGood, Changing
<1>2. Tables'
  BY <1>1 DEF IInv, Tables, UpdateClient, TeamStays, Only, ClientRow
<1>3. \A d \in Client : client'[d].there = client[d].there
  BY <1>1 DEF IInv, Tables, ClientRow, UpdateClient
<1>4. Keeps
  BY <1>3 DEF UpdateClient, TeamStays, Keeps, Logged
<1>5. \A k \in Task : TaskIsGood(k)'
  BY <1>3, <1>4, TasksStay DEF UpdateClient, Live
<1>6. Locks'
  BY <1>1, LocksStay DEF UpdateClient
<1> QED BY <1>1, <1>2, <1>4, <1>5, <1>6, Combine

\* Its tasks lose a client that goes: no task is left with one that is not there.
LEMMA RemoveClientKeeps ==
  ASSUME IInv, NEW p \in Proc, RemoveClient(p)
  PROVE  IInv'
<1> DEFINE c == proc[p].arg
<1>1. /\ Only(p) /\ RequestIsGood(p)' /\ ~At(p, "commit")' /\ ~At(p, "commit")
      /\ c \in Client
  BY EndsIsGood DEF RemoveClient, At, IInv, RequestIsGood, Changing
<1>2. /\ client' \in [Client -> ClientRow] /\ client'[c].there = "removed"
      /\ \A d \in Client \ {c} : client'[d] = client[d]
  BY <1>1 DEF IInv, Tables, RemoveClient, ClientRow
<1>3. ASSUME NEW k \in Task
      PROVE  /\ task'[k].customer = IF task[k].customer = c THEN None ELSE task[k].customer
             /\ \A column \in DOMAIN NoTask \ {"customer"} :
                  task'[k][column] = task[k][column]
             /\ task'[k] \in TaskRow
             /\ task[k].customer # c => task'[k] = task[k]
  <2>1. task[k] \in TaskRow /\ task'[k] = IF task[k].customer = c
          THEN [task[k] EXCEPT !.customer = None] ELSE task[k]
    BY DEF IInv, Tables, RemoveClient
  <2>2. DOMAIN NoTask = {"there", "customer", "start", "end", "completed", "assigned",
                         "logged"}
    BY DEF NoTask
  <2> QED BY <2>1, <2>2 DEF TaskRow
<1>4. Tables'
  BY <1>1, <1>2, <1>3 DEF IInv, Tables, RemoveClient, TeamStays, Only
<1>5. Keeps
  BY <1>2, <1>3 DEF RemoveClient, TeamStays, Keeps, Logged, NoTask
<1>6. ASSUME NEW k \in Task PROVE TaskIsGood(k)'
  <2>1. TaskIsGood(k) /\ c # None
    BY <1>1, OfficeAssumption DEF IInv
  <2>2. CASE task[k].customer = c
    <3>1. task[k].there = "yes"
      BY <2>1, <2>2 DEF TaskIsGood, Gone
    <3>2. /\ task'[k].customer = None /\ task'[k].there = "yes"
          /\ task'[k].start = task[k].start /\ task'[k].end = task[k].end
          /\ task'[k].assigned = task[k].assigned
          /\ task'[k].completed = task[k].completed /\ task'[k].logged = task[k].logged
      BY <1>3, <2>2, <3>1 DEF NoTask
    <3> QED BY <2>1, <3>2 DEF TaskIsGood, RemoveClient
  <2>3. CASE task[k].customer # c
    BY <1>2, <1>3, <2>1, <2>3 DEF TaskIsGood, RemoveClient, Live, IInv, Tables, TaskRow
  <2> QED BY <2>2, <2>3
<1>7. Locks'
  BY <1>1, <1>3, LocksStay DEF RemoveClient, NoTask
<1> QED BY <1>1, <1>4, <1>5, <1>6, <1>7, Combine

(***************************************************************************)
(* Tasks                                                                   *)
(***************************************************************************)
LEMMA CheckTaskKeeps ==
  ASSUME IInv, NEW p \in Proc, NEW c \in Customers, NEW as \in Assignees,
         NEW done \in BOOLEAN, CheckTask(p, c, as, done)
  PROVE  IInv'
<1>1. PICK s \in Times, e \in Times :
        /\ s < e
        /\ Turns(p, "insertTask", [customer |-> c, start |-> s, end |-> e,
                                   completed |-> done, assigned |-> as])
  BY DEF CheckTask
<1>2. /\ proc'[p].pc = "insertTask"
      /\ proc'[p].arg = [customer |-> c, start |-> s, end |-> e, completed |-> done,
                         assigned |-> as]
  BY <1>1, TurnsTo
<1>3. c \in Client \cup {None} /\ as \in SUBSET User /\ (c # None => client'[c].there = "yes")
  BY OfficeAssumption DEF Customers, Assignees, Live, CheckTask, officeVars
<1> DEFINE arg == [customer |-> c, start |-> s, end |-> e, completed |-> done,
                  assigned |-> as]
<1>4. arg \in NewTask /\ arg.start < arg.end /\ arg.customer = c
  BY <1>1, <1>3 DEF NewTask
<1> HIDE DEF arg
<1>5. Changing(p)' /\ Updating(p)'
  <2>1. proc'[p].pc = "insertTask" /\ proc'[p].arg = arg
    BY <1>2 DEF arg
  <2> QED BY <1>3, <1>4, <2>1 DEF Changing, Updating, Known
<1> QED BY <1>1, <1>5, TurnsKeeps DEF CheckTask, Manages, At

\* Of a task that is new, or new in what it was given.
LEMMA LateIsRight ==
  ASSUME IInv, NEW k \in Task, NEW c \in Client \cup {None}, Known(c),
         late' = LateFor(k, c), client' = client, task'[k].customer = c
  PROVE  /\ late' \subseteq Task /\ \A j \in Task \ {k} : j \in late' <=> j \in late
         /\ k \notin late' /\ c # None => client'[c].there = "yes"
<1>1. c # None => client[c].there \in {"no", "yes", "removed"}
  BY DEF IInv, Tables, ClientRow
<1> QED BY <1>1 DEF IInv, Tables, LateFor, Known, Live

LEMMA GoneIsNotLogged ==
  ASSUME IInv, NEW k \in Task, task[k].there # "yes"
  PROVE  ~task[k].logged /\ ~task[k].completed /\ task[k].customer = None
<1> DEFINE no == FALSE
<1>1. task[k] = [there |-> task[k].there, customer |-> None, start |-> 0, end |-> 1,
                 completed |-> no, assigned |-> {}, logged |-> no]
  BY DEF IInv, TaskIsGood, Gone
<1>2. ~no
  OBVIOUS
<1> HIDE DEF no
<1>3. task[k].logged = no /\ task[k].completed = no /\ task[k].customer = None
  BY <1>1
<1> QED BY <1>2, <1>3

LEMMA InsertTaskKeeps ==
  ASSUME IInv, NEW p \in Proc, NEW k \in Task, InsertTask(p, k)
  PROVE  IInv'
<1> DEFINE arg == proc[p].arg
<1>1. /\ Only(p) /\ RequestIsGood(p)' /\ ~At(p, "commit")' /\ ~At(p, "commit")
      /\ arg \in NewTask /\ arg.start < arg.end /\ Known(arg.customer)
  BY EndsIsGood DEF InsertTask, At, IInv, RequestIsGood, Changing
<1>2. /\ arg.customer \in Client \cup {None} /\ arg.start \in Times /\ arg.end \in Times
      /\ arg.completed \in BOOLEAN /\ arg.assigned \in SUBSET User
  BY <1>1 DEF NewTask
<1>3. /\ task'[k] = [there |-> "yes", logged |-> arg.completed, customer |-> arg.customer,
                     start |-> arg.start, end |-> arg.end, completed |-> arg.completed,
                     assigned |-> arg.assigned]
      /\ \A j \in Task \ {k} : task'[j] = task[j] /\ given'[j] = given[j]
      /\ given'[k] = arg.assigned /\ task[k].there = "no" /\ late' = LateFor(k, arg.customer)
  BY DEF InsertTask, IInv, Tables
<1>new. /\ task'[k].there = "yes" /\ task'[k].customer = arg.customer
        /\ task'[k].start = arg.start /\ task'[k].end = arg.end
        /\ task'[k].assigned = arg.assigned
        /\ task'[k].completed = arg.completed /\ task'[k].logged = arg.completed
  BY <1>3
<1>4. /\ late' \subseteq Task /\ \A j \in Task \ {k} : j \in late' <=> j \in late
      /\ k \notin late' /\ arg.customer # None => client'[arg.customer].there = "yes"
  <2>1. client' = client /\ late' = LateFor(k, arg.customer)
    BY <1>3 DEF InsertTask
  <2> HIDE DEF arg
  <2> QED BY <1>1, <1>2, <1>new, <2>1, LateIsRight
<1>5. task'[k] \in TaskRow
  BY <1>2, <1>3 DEF TaskRow
<1>6. Tables'
  BY <1>1, <1>2, <1>4, <1>5 DEF IInv, Tables, InsertTask, TeamStays, Only
<1>7. Keeps
  <2>1. ~Logged(k)
    BY <1>3, GoneIsNotLogged DEF Logged
  <2> QED BY <1>3, <2>1 DEF InsertTask, TeamStays, Keeps, Logged
<1>8. ASSUME NEW j \in Task PROVE TaskIsGood(j)'
  <2>1. CASE j = k
    BY <1>1, <1>3, <1>new, <1>4, <2>1 DEF TaskIsGood, Live
  <2>2. CASE j # k
    BY <1>3, <1>4, <2>2 DEF TaskIsGood, InsertTask, Live, IInv
  <2> QED BY <2>1, <2>2
<1>9. Locks'
  <2>1. holder[k] = None
    BY <1>3 DEF IInv, Locks, HolderIsAtWork
  <2> QED BY <1>1, <1>3, <2>1, LocksStay DEF InsertTask
<1> QED BY <1>1, <1>6, <1>7, <1>8, <1>9, Combine

LEMMA ReadTaskKeeps ==
  ASSUME IInv, NEW p \in Proc, NEW k \in Task, ReadTask(p, k)
  PROVE  IInv'
<1> DEFINE arg == [task |-> k, existing |-> task[k], new |-> None, sent |-> {},
                   deleted |-> {}]
<1>1. Turns(p, "checkUpdate", arg) /\ ~At(p, "commit") /\ UNCHANGED task
  BY DEF ReadTask, Manages, At, officeVars
<1>2. proc'[p].pc = "checkUpdate" /\ proc'[p].arg = arg
  BY <1>1, TurnsTo
<1>3. task[k] \in TaskRow /\ (task[k].completed => Logged(k)')
  BY <1>1 DEF IInv, Tables, TaskIsGood, Logged
<1>4. Changing(p)' /\ Updating(p)'
  BY <1>2, <1>3 DEF Changing, Updating
<1> QED BY <1>1, <1>4, TurnsKeeps DEF ReadTask

\* What an update has read and checked.
LEMMA UpdateFields ==
  ASSUME IInv, NEW p \in Proc, proc[p].pc \in {"checkUpdate", "update", "commit"}
  PROVE  LET a == proc[p].arg IN
         /\ a = [task |-> a.task, existing |-> a.existing, new |-> a.new, sent |-> a.sent,
                 deleted |-> a.deleted]
         /\ a.task \in Task /\ a.existing \in TaskRow
         /\ a.existing.completed => Logged(a.task)
BY DEF IInv, RequestIsGood, Updating

LEMMA CheckUpdateKeeps ==
  ASSUME IInv, NEW p \in Proc, NEW sent \in Sent, CheckUpdate(p, sent)
  PROVE  IInv'
<1> DEFINE a == proc[p].arg
           old == a.existing
<1>1. PICK new \in [customer : Customers \cup {old.customer}, completed : BOOLEAN,
                    start : Times, end : Times, assigned : Assignees \cup {old.assigned}] :
        /\ new.start < new.end
        /\ "customer" \in sent => new.customer \in Customers
        /\ Turns(p, "update", [a EXCEPT !.new = new, !.sent = sent])
  BY DEF CheckUpdate
<1>2. At(p, "checkUpdate") /\ ~At(p, "commit") /\ UNCHANGED <<task, client>>
  BY DEF CheckUpdate, At, officeVars
<1>3. /\ a = [task |-> a.task, existing |-> old, new |-> a.new, sent |-> a.sent,
              deleted |-> a.deleted]
      /\ a.task \in Task /\ old \in TaskRow /\ (old.completed => Logged(a.task))
  BY <1>2, UpdateFields DEF At
<1>4. /\ proc'[p].pc = "update"
      /\ proc'[p].arg = [task |-> a.task, existing |-> old, new |-> new, sent |-> sent,
                         deleted |-> a.deleted]
  <2>1. [a EXCEPT !.new = new, !.sent = sent]
          = [task |-> a.task, existing |-> old, new |-> new, sent |-> sent,
             deleted |-> a.deleted]
    <3> DEFINE b == [a EXCEPT !.new = new]
    <3>1. b = [task |-> a.task, existing |-> old, new |-> new, sent |-> a.sent,
               deleted |-> a.deleted]
      BY <1>3
    <3>2. [a EXCEPT !.new = new, !.sent = sent] = [b EXCEPT !.sent = sent]
      BY <1>3
    <3> HIDE DEF b
    <3>3. [b EXCEPT !.sent = sent]
            = [task |-> b.task, existing |-> b.existing, new |-> b.new, sent |-> sent,
               deleted |-> b.deleted]
      BY <3>1
    <3>4. /\ b.task = a.task /\ b.existing = old /\ b.new = new
          /\ b.deleted = a.deleted
      BY <3>1
    <3> QED BY <3>2, <3>3, <3>4
  <2> QED BY <1>1, <2>1, TurnsTo
<1>5. new \in NewTask
  <2>1. old.customer \in Client \cup {None} /\ old.assigned \in SUBSET User
    BY <1>3 DEF TaskRow
  <2>2. Customers \subseteq Client \cup {None} /\ Assignees \subseteq SUBSET User
    BY OfficeAssumption DEF Customers, Assignees
  <2> QED BY <2>1, <2>2 DEF NewTask
<1>6. sent \subseteq {"start", "end", "customer", "assigned", "completed"}
  BY OfficeAssumption
<1>7. "customer" \in sent /\ new.customer # None => client'[new.customer].there # "no"
  BY <1>1, <1>2 DEF Customers, Live
<1>8. Changing(p)' /\ Updating(p)'
  BY <1>1, <1>2, <1>3, <1>4, <1>5, <1>6, <1>7 DEF Changing, Updating, Known, Logged
<1> QED BY <1>1, <1>2, <1>8, TurnsKeeps DEF CheckUpdate

LEMMA EndKeeps ==
  ASSUME IInv, NEW p \in Proc, Ends(p), ~At(p, "commit"), TeamStays, UNCHANGED officeVars
  PROVE  IInv'
BY EndsIsGood, MovesKeep DEF TeamStays, IInv, Tables

LEMMA LockTaskKeeps ==
  ASSUME IInv, NEW p \in Proc, LockTask(p)
  PROVE  IInv'
<1> DEFINE a == proc[p].arg
           k == a.task
<1>1. At(p, "update") /\ ~At(p, "commit") /\ holder[k] = None
  BY DEF LockTask, At
<1>2. CASE task[k].there # "yes"
  BY <1>1, <1>2, EndKeeps DEF LockTask, officeVars
<1>3. CASE task[k].there = "yes"
  <2> DEFINE b == [a EXCEPT !.deleted = task[k].assigned]
  <2>1. /\ Turns(p, "commit", b) /\ holder' = [holder EXCEPT ![k] = p]
        /\ UNCHANGED <<role, active, requests, client, task, given, late>>
    BY <1>3 DEF LockTask, TeamStays
  <2>2. /\ a = [task |-> k, existing |-> a.existing, new |-> a.new, sent |-> a.sent,
                deleted |-> a.deleted]
        /\ k \in Task /\ Identified(p) /\ Updating(p)
    BY <1>1, UpdateFields DEF At, IInv, RequestIsGood
  <2>3. b = [task |-> k, existing |-> a.existing, new |-> a.new, sent |-> a.sent,
             deleted |-> task[k].assigned]
    BY <2>2
  <2>4. Only(p) /\ proc'[p] = [proc[p] EXCEPT !.pc = "commit", !.arg = b]
    BY <2>1 DEF Turns, Goes, IInv, Tables, Only
  <2>5. proc'[p] = [pc |-> "commit", user |-> proc[p].user, at |-> proc[p].at,
                    manager |-> proc[p].manager, arg |-> b]
    BY <2>2, <2>4 DEF Identified
  <2> HIDE DEF b
  <2>6. /\ b.task = k /\ b.existing = a.existing /\ b.new = a.new /\ b.sent = a.sent
        /\ b.deleted = task[k].assigned
        /\ b = [task |-> b.task, existing |-> b.existing, new |-> b.new, sent |-> b.sent,
                deleted |-> b.deleted]
    BY <2>3
  <2>7. Identified(p)' /\ Changing(p)'
    BY <2>2, <2>5 DEF Identified, Changing
  <2>8. Updating(p)'
    <3>1. proc'[p].pc = "commit" /\ proc'[p].arg = b
      BY <2>5
    <3> QED BY <1>1, <2>1, <2>2, <2>6, <3>1 DEF Updating, Known, Logged, At
  <2>9. Tables'
    BY <2>1, <2>2, <2>4 DEF IInv, Tables, Only
  <2>10. Keeps
    BY <2>1 DEF Keeps, Logged
  <2>11. \A j \in Task : TaskIsGood(j)'
    BY <2>1, <2>10, TasksStay DEF Live
  <2>12. ASSUME NEW j \in Task PROVE HolderIsAtWork(j)'
    <3>1. HolderIsAtWork(j) /\ holder[j] \in Proc \cup {None} /\ p # None
      BY OfficeAssumption DEF IInv, Locks, Tables
    <3>2. CASE j = k
      BY <1>3, <2>1, <2>2, <2>5, <2>6, <3>2 DEF HolderIsAtWork, At, IInv, Tables
    <3>3. CASE j # k
      <4>1. holder'[j] = holder[j]
        BY <2>1, <3>3 DEF IInv, Tables
      <4>2. holder[j] # None => holder[j] # p /\ proc'[holder[j]] = proc[holder[j]]
        BY <1>1, <2>4, <3>1 DEF HolderIsAtWork, Only
      <4> QED BY <2>1, <3>1, <4>1, <4>2 DEF HolderIsAtWork, At
    <3> QED BY <3>2, <3>3
  <2>13. ASSUME NEW q \in Proc, At(q, "commit")' PROVE (holder[proc[q].arg.task] = q)'
    <3>1. CASE q = p
      BY <2>1, <2>2, <2>5, <2>6, <3>1 DEF IInv, Tables
    <3>2. CASE q # p
      <4>1. proc'[q] = proc[q] /\ holder[proc[q].arg.task] = q /\ q # None
        BY <2>4, <2>13, <3>2, OfficeAssumption DEF Only, At, IInv, Locks
      <4> QED BY <1>1, <2>1, <4>1 DEF IInv, Tables
    <3> QED BY <3>1, <3>2
  <2>14. Locks'
    BY <2>12, <2>13 DEF Locks
  <2> QED BY <2>4, <2>7, <2>8, <2>9, <2>10, <2>11, <2>14, Combine DEF RequestIsGood
<1> QED BY <1>2, <1>3

\* The columns of a task after its update's transaction.
LEMMA CommitWrites ==
  ASSUME IInv, NEW p \in Proc, CommitTask(p)
  PROVE  LET a == proc[p].arg
             k == a.task
             Now(column) == IF column \in Columns(a.sent) THEN a.new[column]
                            ELSE task[k][column] IN
         /\ task' \in [Task -> TaskRow]
         /\ \A j \in Task \ {k} : task'[j] = task[j]
         /\ \A column \in {"customer", "start", "end", "completed"} :
              task'[k][column] = Now(column)
         /\ task'[k].there = "yes" /\ task[k].there = "yes"
         /\ task'[k].assigned = IF "assigned" \in a.sent THEN a.new.assigned
                                ELSE task[k].assigned
         /\ task'[k].logged <=> task[k].logged \/ Completes(a.existing, a.new)
         /\ holder[k] = p
<1> DEFINE a == proc[p].arg
           k == a.task
           Now(column) == IF column \in Columns(a.sent) THEN a.new[column]
                          ELSE task[k][column]
           names == {"there", "customer", "start", "end", "completed", "assigned", "logged"}
           row == [column \in names |-> Now(column)]
           as == row.assigned \cup IF "assigned" \in a.sent THEN task[k].assigned \ a.deleted
                                   ELSE {}
           done == row.logged \/ Completes(a.existing, a.new)
<1>1. /\ k \in Task /\ a.new \in NewTask /\ At(p, "commit")
      /\ a.sent \subseteq {"start", "end", "customer", "assigned", "completed"}
  BY DEF CommitTask, At, IInv, RequestIsGood, Updating
<1>2. /\ holder[k] = p /\ a.deleted = task[k].assigned /\ task[k].there = "yes"
      /\ task[k] \in TaskRow
  <2>1. holder[k] = p /\ p # None
    BY <1>1, OfficeAssumption DEF IInv, Locks
  <2>2. HolderIsAtWork(k) /\ task[k] \in TaskRow
    BY <1>1 DEF IInv, Locks, Tables
  <2> QED BY <2>1, <2>2 DEF HolderIsAtWork
<1>3. task' = [task EXCEPT ![k] = [row EXCEPT !.assigned = as, !.logged = done]]
  <2>1. DOMAIN NoTask = names
    BY DEF NoTask
  <2> QED BY <2>1 DEF CommitTask
<1>4. Columns(a.sent) \subseteq {"start", "end", "customer", "assigned", "completed"}
      /\ ("assigned" \in Columns(a.sent) <=> "assigned" \in a.sent)
  BY <1>1 DEF Columns
<1>5. /\ Now("customer") \in Client \cup {None} /\ Now("start") \in Times
      /\ Now("end") \in Times /\ Now("completed") \in BOOLEAN
      /\ Now("there") = "yes" /\ Now("logged") = task[k].logged
      /\ Now("assigned") = IF "assigned" \in a.sent THEN a.new.assigned ELSE task[k].assigned
  BY <1>1, <1>2, <1>4 DEF TaskRow, NewTask
<1>6. as = Now("assigned") /\ as \in SUBSET User
  BY <1>1, <1>2, <1>5 DEF TaskRow, NewTask
<1>7. done \in BOOLEAN /\ (done <=> task[k].logged \/ Completes(a.existing, a.new))
  BY <1>2, <1>5 DEF Completes, TaskRow
<1> HIDE DEF Now, as, done
<1> DEFINE final == [row EXCEPT !.assigned = as, !.logged = done]
<1>8. /\ final = [column \in names |-> final[column]]
      /\ final.assigned = as /\ final.logged = done
      /\ \A column \in names \ {"assigned", "logged"} : final[column] = Now(column)
  OBVIOUS
<1> HIDE DEF final
<1>9. /\ task'[k] = final
      /\ \A j \in Task \ {k} : task'[j] = task[j]
      /\ DOMAIN task' = Task /\ task' = [j \in Task |-> task'[j]]
  BY <1>1, <1>3 DEF IInv, Tables, final
<1>10. task'[k] \in TaskRow
  <2>1. final = [there |-> final.there, customer |-> final.customer, start |-> final.start,
                 end |-> final.end, completed |-> final.completed,
                 assigned |-> final.assigned, logged |-> final.logged]
    BY <1>8
  <2> QED BY <1>5, <1>6, <1>7, <1>8, <1>9, <2>1 DEF TaskRow
<1>11. task' \in [Task -> TaskRow]
  BY <1>9, <1>10 DEF IInv, Tables
<1>12. /\ \A column \in {"customer", "start", "end", "completed"} :
            task'[k][column] = Now(column)
       /\ task'[k].there = "yes" /\ task'[k].assigned = as /\ task'[k].logged = done
  BY <1>5, <1>8, <1>9
<1> QED BY <1>2, <1>5, <1>6, <1>7, <1>9, <1>11, <1>12 DEF Now

LEMMA CommitTaskKeeps ==
  ASSUME IInv, NEW p \in Proc, CommitTask(p)
  PROVE  IInv'
<1> DEFINE a == proc[p].arg
           k == a.task
           Now(column) == IF column \in Columns(a.sent) THEN a.new[column]
                          ELSE task[k][column]
<1>1. /\ k \in Task /\ a.new \in NewTask /\ a.new.start < a.new.end
      /\ a.existing \in TaskRow /\ (a.existing.completed => Logged(k))
      /\ a.sent \subseteq {"start", "end", "customer", "assigned", "completed"}
      /\ "customer" \in a.sent => Known(a.new.customer)
  BY DEF CommitTask, At, IInv, RequestIsGood, Updating
<1>2. /\ task' \in [Task -> TaskRow]
      /\ \A j \in Task \ {k} : task'[j] = task[j]
      /\ \A column \in {"customer", "start", "end", "completed"} :
           task'[k][column] = Now(column)
      /\ task'[k].there = "yes" /\ task[k].there = "yes"
      /\ task'[k].assigned = IF "assigned" \in a.sent THEN a.new.assigned
                             ELSE task[k].assigned
      /\ task'[k].logged <=> task[k].logged \/ Completes(a.existing, a.new)
      /\ holder[k] = p
  BY CommitWrites
<1>3. /\ Only(p) /\ RequestIsGood(p)' /\ ~At(p, "commit")'
      /\ UNCHANGED <<role, active, requests, client>>
      /\ holder' = [holder EXCEPT ![k] = None]
      /\ given' = IF "assigned" \in a.sent THEN [given EXCEPT ![k] = a.new.assigned]
                  ELSE given
      /\ late' = IF "customer" \in a.sent THEN LateFor(k, a.new.customer) ELSE late
  BY EndsIsGood DEF CommitTask, TeamStays
<1>4. TaskIsGood(k) /\ task[k] \in TaskRow
  BY <1>1 DEF IInv, Tables
<1>5. /\ late' \subseteq Task /\ \A j \in Task \ {k} : j \in late' <=> j \in late
      /\ k \notin late' /\ task'[k].customer # None => client'[task'[k].customer].there = "yes"
  <2>1. CASE "customer" \in a.sent
    <3>1. a.new.customer \in Client \cup {None} /\ Known(a.new.customer)
      BY <1>1, <2>1 DEF NewTask
    <3>2. task'[k].customer = a.new.customer
      BY <1>2, <2>1 DEF Columns
    <3>3. late' = LateFor(k, a.new.customer) /\ client' = client
      BY <1>3, <2>1
    <3> HIDE DEF a, k
    <3> QED BY <1>1, <3>1, <3>2, <3>3, LateIsRight
  <2>2. CASE "customer" \notin a.sent
    <3>1. task'[k].customer = task[k].customer
      BY <1>2, <2>2 DEF Columns
    <3> QED BY <1>3, <1>4, <2>2, <3>1 DEF TaskIsGood, Live, IInv, Tables
  <2> QED BY <2>1, <2>2
<1>6. Tables'
  BY <1>1, <1>2, <1>3, <1>5 DEF IInv, Tables, Only, NewTask
<1>7. Keeps
  BY <1>2, <1>3 DEF Keeps, Logged
<1>8. ASSUME NEW j \in Task PROVE TaskIsGood(j)'
  <2>1. CASE j = k
    <3>1. task'[k].start < task'[k].end
      <4>1. "start" \in Columns(a.sent) <=> "end" \in Columns(a.sent)
        BY DEF Columns
      <4> QED BY <1>1, <1>2, <1>4, <4>1 DEF TaskIsGood, NewTask
    <3>2. task'[k].assigned = given'[k]
      BY <1>1, <1>2, <1>3, <1>4 DEF TaskIsGood, IInv, Tables
    <3>3. task'[k].completed => task'[k].logged
      <4>1. CASE "completed" \in Columns(a.sent)
        BY <1>1, <1>2, <4>1 DEF Completes, Logged
      <4>2. CASE "completed" \notin Columns(a.sent)
        BY <1>2, <1>4, <4>2 DEF TaskIsGood
      <4> QED BY <4>1, <4>2
    <3> HIDE DEF a
    <3> QED BY <1>2, <1>5, <2>1, <3>1, <3>2, <3>3 DEF TaskIsGood, Live
  <2>2. CASE j # k
    <3>1. given'[j] = given[j] /\ TaskIsGood(j)
      BY <1>3, <2>2 DEF IInv, Tables
    <3> QED BY <1>2, <1>3, <1>5, <2>2, <3>1 DEF TaskIsGood, Live
  <2> QED BY <2>1, <2>2
<1>9. Locks'
  <2>1. ASSUME NEW j \in Task PROVE HolderIsAtWork(j)'
    <3>1. CASE j = k
      BY <1>3, <3>1 DEF HolderIsAtWork, IInv, Tables
    <3>2. CASE j # k
      <4>1. HolderIsAtWork(j) /\ holder'[j] = holder[j] /\ holder[j] \in Proc \cup {None}
        BY <1>3, <3>2 DEF IInv, Locks, Tables
      <4>2. holder[j] # None => holder[j] # p /\ proc'[holder[j]] = proc[holder[j]]
        BY <1>3, <3>2, <4>1 DEF HolderIsAtWork, Only
      <4> QED BY <1>2, <3>2, <4>1, <4>2 DEF HolderIsAtWork, At
    <3> QED BY <3>1, <3>2
  <2>2. ASSUME NEW q \in Proc, At(q, "commit")' PROVE (holder[proc[q].arg.task] = q)'
    <3>1. q # p /\ proc'[q] = proc[q] /\ holder[proc[q].arg.task] = q
      BY <1>3, <2>2 DEF Only, At, IInv, Locks
    <3> QED BY <1>2, <1>3, <3>1 DEF IInv, Tables
  <2> QED BY <2>1, <2>2 DEF Locks
<1> QED BY <1>3, <1>6, <1>7, <1>8, <1>9, Combine

LEMMA RemoveTaskKeeps ==
  ASSUME IInv, NEW p \in Proc, NEW k \in Task, RemoveTask(p, k)
  PROVE  IInv'
<1>1. /\ Only(p) /\ RequestIsGood(p)' /\ ~At(p, "commit")' /\ ~At(p, "commit")
      /\ holder[k] = None
  BY EndsIsGood DEF RemoveTask, Manages, At
<1>2. /\ task' = [task EXCEPT ![k] = Gone("removed")]
      /\ given' = [given EXCEPT ![k] = {}] /\ late' = late \ {k}
      /\ UNCHANGED <<role, active, requests, client, holder>>
  BY GoneIsNoTask DEF RemoveTask, TeamStays
<1> DEFINE no == FALSE
           gone == [there |-> "removed", customer |-> None, start |-> 0, end |-> 1,
                    completed |-> no, assigned |-> {}, logged |-> no]
<1>3. Gone("removed") = gone
  BY DEF Gone
<1>4. no \in BOOLEAN /\ ~no
  OBVIOUS
<1>5. 0 \in Times /\ 1 \in Times
  BY OfficeAssumption DEF Times
<1> HIDE DEF no
<1>6. /\ gone \in TaskRow /\ gone.there = "removed" /\ gone.customer = None
      /\ gone.start = 0 /\ gone.end = 1 /\ gone.completed = no /\ gone.assigned = {}
  BY <1>4, <1>5 DEF TaskRow
<1>7. task'[k] = gone /\ \A j \in Task \ {k} : task'[j] = task[j]
  BY <1>2, <1>3 DEF IInv, Tables
<1> HIDE DEF gone
<1>8. Tables'
  BY <1>1, <1>2, <1>3, <1>6 DEF IInv, Tables, Only
<1>9. Keeps
  BY <1>2, <1>6, <1>7 DEF Keeps, Logged
<1>10. ASSUME NEW j \in Task PROVE TaskIsGood(j)'
  <2>1. CASE j = k
    BY <1>2, <1>3, <1>4, <1>6, <1>7, <2>1 DEF TaskIsGood, IInv, Tables
  <2>2. CASE j # k
    BY <1>2, <1>7, <2>2 DEF TaskIsGood, Live, IInv, Tables
  <2> QED BY <2>1, <2>2
<1>11. Locks'
  BY <1>1, <1>2, <1>7, LocksStay
<1> QED BY <1>1, <1>8, <1>9, <1>10, <1>11, Combine

(***************************************************************************)
(* Every step                                                              *)
(***************************************************************************)
LEMMA StutterKeeps == ASSUME IInv, UNCHANGED vars PROVE IInv'
<1>1. UNCHANGED <<role, active, proc, requests, client, task, holder, given, late>>
  BY DEF vars, teamVars, officeVars
<1>2. Tables'
  BY <1>1 DEF IInv, Tables
<1>3. \A k \in Task : TaskIsGood(k)'
  BY <1>1 DEF IInv, TaskIsGood, Live
<1>4. ASSUME NEW p \in Proc PROVE RequestIsGood(p)'
  BY <1>1, OthersStayGood DEF IInv, Keeps, Logged
<1>5. Locks'
  BY <1>1 DEF IInv, Locks, HolderIsAtWork, At
<1> QED BY <1>2, <1>3, <1>4, <1>5 DEF IInv

LEMMA TeamNextKeeps ==
  ASSUME IInv, TeamNext, UNCHANGED officeVars
  PROVE  IInv'
<1>1. PICK p \in Proc :
        \/ \E u \in User, named \in Company \cup {None} : Arrive(p, u, named)
        \/ Lookup(p) \/ Refused(p)
        \/ Me(p) \/ Provision(p)
        \/ \E u \in User, r \in {"NONE", "WORKER", "MANAGER"}, on \in BOOLEAN :
             ReadWorker(p, u, r, on)
        \/ SetRole(p) \/ SetWorker(p)
  BY DEF TeamNext
<1>2. CASE \E u \in User, named \in Company \cup {None} : Arrive(p, u, named)
  BY <1>2, ArriveKeeps
<1>3. CASE Lookup(p)
  BY <1>3, LookupKeeps
<1>4. CASE Refused(p)
  BY <1>4, RefusedKeeps
<1>5. CASE Me(p)
  BY <1>5, MeKeeps
<1>6. CASE Provision(p)
  BY <1>6, ProvisionKeeps
<1>7. CASE \E u \in User, r \in {"NONE", "WORKER", "MANAGER"}, on \in BOOLEAN :
             ReadWorker(p, u, r, on)
  BY <1>7, ReadWorkerKeeps
<1>8. CASE SetRole(p)
  BY <1>8, SetRoleKeeps
<1>9. CASE SetWorker(p)
  BY <1>9, SetWorkerKeeps
<1> QED BY <1>1, <1>2, <1>3, <1>4, <1>5, <1>6, <1>7, <1>8, <1>9

LEMMA OfficeNextKeeps == ASSUME IInv, OfficeNext PROVE IInv'
<1>1. PICK p \in Proc :
        \/ \E e \in Email \cup {None} :
             CheckNew(p, e) \/ \E c \in Client : CheckClient(p, c, e)
        \/ \E c \in Client : InsertClient(p, c) \/ FindClient(p, c)
        \/ UpdateClient(p) \/ RemoveClient(p)
        \/ \E c \in Customers, as \in Assignees, done \in BOOLEAN : CheckTask(p, c, as, done)
        \/ \E k \in Task : InsertTask(p, k) \/ ReadTask(p, k) \/ RemoveTask(p, k)
        \/ \E sent \in Sent : CheckUpdate(p, sent)
        \/ RefuseUpdate(p) \/ LockTask(p) \/ CommitTask(p)
  BY DEF OfficeNext
<1>2. CASE \E e \in Email \cup {None} :
             CheckNew(p, e) \/ \E c \in Client : CheckClient(p, c, e)
  BY <1>2, CheckNewKeeps, CheckClientKeeps
<1>3. CASE \E c \in Client : InsertClient(p, c) \/ FindClient(p, c)
  BY <1>3, InsertClientKeeps, FindClientKeeps
<1>4. CASE UpdateClient(p)
  BY <1>4, UpdateClientKeeps
<1>5. CASE RemoveClient(p)
  BY <1>5, RemoveClientKeeps
<1>6. CASE \E c \in Customers, as \in Assignees, done \in BOOLEAN : CheckTask(p, c, as, done)
  BY <1>6, CheckTaskKeeps
<1>7. CASE \E k \in Task : InsertTask(p, k) \/ ReadTask(p, k) \/ RemoveTask(p, k)
  BY <1>7, InsertTaskKeeps, ReadTaskKeeps, RemoveTaskKeeps
<1>8. CASE \E sent \in Sent : CheckUpdate(p, sent)
  BY <1>8, CheckUpdateKeeps
<1>9. CASE RefuseUpdate(p)
  BY <1>9, EndKeeps DEF RefuseUpdate, At
<1>10. CASE LockTask(p)
  BY <1>10, LockTaskKeeps
<1>11. CASE CommitTask(p)
  BY <1>11, CommitTaskKeeps
<1> QED BY <1>1, <1>2, <1>3, <1>4, <1>5, <1>6, <1>7, <1>8, <1>9, <1>10, <1>11

\* What requests have read and checked, and the locks of the tasks' rows, always bear out
\* what they are about to write: of updateWorker, the clients' and the tasks' handlers.
THEOREM InvariantHolds == Spec => []IInv
<1>1. Init => IInv
  BY InitKeeps
<1>2. IInv /\ [Next]_vars => IInv'
  BY StutterKeeps, TeamNextKeeps, OfficeNextKeeps DEF Next
<1> QED BY <1>1, <1>2, PTL DEF Spec

-----------------------------------------------------------------------------
\* The tables keep their types, a task that is not there has no columns, and the row of a
\* task is locked only by the transaction of an update that is about to commit.
THEOREM TypeCorrect == Spec => []TypeOK
<1>1. IInv => TypeOK
  <2> SUFFICES ASSUME IInv PROVE TypeOK
    OBVIOUS
  <2>1. TeamTypeOK
    BY DEF IInv, Tables, RequestIsGood, Identified, TeamTypeOK
  <2>2. ASSUME NEW k \in Task
        PROVE  /\ task[k].there # "yes" => task[k] = [NoTask EXCEPT !.there = task[k].there]
               /\ holder[k] # None => task[k].there = "yes" /\ At(holder[k], "commit")
    <3>1. TaskIsGood(k) /\ HolderIsAtWork(k)
      BY DEF IInv, Locks
    <3>2. [NoTask EXCEPT !.there = task[k].there] = Gone(task[k].there)
      BY GoneIsNoTask
    <3> QED BY <3>1, <3>2 DEF TaskIsGood, HolderIsAtWork
  <2> QED BY <2>1, <2>2 DEF TypeOK, IInv, Tables, ClientRow, TaskRow
<1> QED BY <1>1, InvariantHolds, PTL

\* A task ends after it starts (updateTask writes both ends of the time, as parseRange
\* checked them, whichever it is sent).
THEOREM TasksEndCorrect == Spec => []TasksEndAfterTheyStart
<1>1. IInv => TasksEndAfterTheyStart
  BY DEF IInv, TaskIsGood, TasksEndAfterTheyStart
<1> QED BY <1>1, InvariantHolds, PTL

\* The assignees of a task are those of one request (updateTask locks the row, then
\* deletes and inserts the assignments).
THEOREM AssigneesCorrect == Spec => []AssigneesAreOneRequests
<1>1. IInv => AssigneesAreOneRequests
  BY DEF IInv, TaskIsGood, AssigneesAreOneRequests
<1> QED BY <1>1, InvariantHolds, PTL

\* The completion of a completed task has been logged (updateTask compares with the row it
\* read before the transaction).
THEOREM CompletionsCorrect == Spec => []CompletionsAreLogged
<1>1. IInv => CompletionsAreLogged
  BY DEF IInv, TaskIsGood, CompletionsAreLogged
<1> QED BY <1>1, InvariantHolds, PTL

\* The tasks of a client that was removed are those that were given to it afterwards
\* (remove of clients.service.ts takes it from its tasks, validateCustomerId looks at it
\* before the transaction).
THEOREM RemovedClientsCorrect == Spec => []RemovedClientsHaveNoTasks
<1>1. IInv => RemovedClientsHaveNoTasks
  BY DEF IInv, TaskIsGood, RemovedClientsHaveNoTasks
<1> QED BY <1>1, InvariantHolds, PTL

\* The two writes of a role, of ensureDemoMembership and updateWorker, are to members
\* that are no administrators, and none becomes one between the read and the write.
THEOREM AdminsCorrect == Spec => AdminsStay
<1> DEFINE Stay == \A c \in Company : \A u \in User :
                     role[c][u] = "ADMIN" => role'[c][u] = "ADMIN"
<1>1. ASSUME IInv, NEW p \in Proc, Provision(p) PROVE Stay
  <2>1. proc[p].user \in User /\ role[Demo][proc[p].user] # "ADMIN"
    BY <1>1 DEF IInv, RequestIsGood, Identified, Provision, At
  <2> QED BY <1>1, <2>1 DEF Provision, IInv, Tables
<1>2. ASSUME IInv, NEW p \in Proc, SetRole(p) PROVE Stay
  <2>1. /\ proc[p].at \in Company /\ proc[p].arg.user \in User
        /\ role[proc[p].at][proc[p].arg.user] # "ADMIN"
    BY <1>2 DEF IInv, RequestIsGood, Identified, SetRole, At
  <2> QED BY <1>2, <2>1 DEF SetRole, IInv, Tables
<1>3. OfficeNext => role' = role
  BY DEF OfficeNext, CheckNew, CheckClient, InsertClient, FindClient, UpdateClient,
         RemoveClient, CheckTask, InsertTask, ReadTask, RemoveTask, CheckUpdate,
         RefuseUpdate, LockTask, CommitTask, TeamStays
<1>4. ASSUME TeamNext
      PROVE  role' = role \/ \E p \in Proc : Provision(p) \/ SetRole(p)
  BY <1>4 DEF TeamNext, Arrive, Lookup, Refused, Me, ReadWorker, SetWorker
<1>5. IInv /\ [Next]_vars => [Stay]_role
  BY <1>1, <1>2, <1>3, <1>4 DEF Next, vars, teamVars
<1> QED BY <1>5, InvariantHolds, PTL DEF Spec, AdminsStay
=============================================================================
