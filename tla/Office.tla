------------------------------- MODULE Office -------------------------------
(***************************************************************************)
(* The clients and the tasks of a company (clients.service.ts,             *)
(* tasks.service.ts), worked on by requests that the guard of Team has let *)
(* in.  A handler reads what it needs, checks it, and writes in a          *)
(* transaction; the first statement of a task's update takes the row's     *)
(* lock and holds it to the end, and nothing else is protected.            *)
(*                                                                         *)
(* The rows are those of one company, Home; a request at another finds     *)
(* none of them.  An update sends at least one column of the task itself,   *)
(* as the client's form does.                                              *)
(***************************************************************************)
EXTENDS Team

CONSTANTS
  Home, Client, Task,
  Email,       \* addresses
  Lists,       \* bound: sets of workers asked for
  Sent,        \* bound: sets of columns an update of a task is sent
  MaxTime      \* bound: points of time

ASSUME OfficeAssumption ==
  /\ Home \in Company
  /\ None \notin Client \cup Task \cup Email \cup Proc
  /\ Lists \subseteq SUBSET User
  /\ Sent \subseteq SUBSET {"start", "end", "customer", "assigned", "completed"}
  /\ MaxTime \in Nat \ {0}

VARIABLES
  client,   \* the rows of the clients
  task,     \* the rows of the tasks and their assignments
  holder,   \* task -> the transaction that holds its row's lock
  given,    \* the assignees the last update of a task asked for
  late      \* tasks given to a client that was removed after it was checked

officeVars == <<client, task, holder, given, late>>
vars == <<teamVars, officeVars>>

NoClient == [there |-> "no", email |-> None]
NoTask == [there |-> "no", customer |-> None, start |-> 0, end |-> 1, completed |-> FALSE,
           assigned |-> {}, logged |-> FALSE]
Live(c) == client[c].there = "yes"
Times == 0..MaxTime

TypeOK ==
  /\ TeamTypeOK
  /\ client \in [Client -> [there : {"no", "yes", "removed"}, email : Email \cup {None}]]
  /\ task \in [Task -> [there : {"no", "yes", "removed"}, customer : Client \cup {None},
                        start : Times, end : Times, completed : BOOLEAN,
                        assigned : SUBSET User, logged : BOOLEAN]]
  /\ \A k \in Task : /\ task[k].there # "yes" => task[k] = [NoTask EXCEPT !.there = task[k].there]
                     /\ holder[k] # None => task[k].there = "yes" /\ At(holder[k], "commit")
  /\ given \in [Task -> SUBSET User]
  /\ late \subseteq Task

Init ==
  /\ TeamInit
  /\ client = [c \in Client |-> NoClient]
  /\ task = [k \in Task |-> NoTask]
  /\ holder = [k \in Task |-> None]
  /\ given = [k \in Task |-> {}]
  /\ late = {}

Manages(p) == At(p, "granted") /\ proc[p].manager /\ proc[p].at = Home
Turns(p, pc, arg) == Goes(p, [proc[p] EXCEPT !.pc = pc, !.arg = arg])
TeamStays == UNCHANGED <<role, active, requests>>

-----------------------------------------------------------------------------
\* Clients: an address that another client has is refused, in a statement before the
\* write.
EmailIsFree(e, c) == e # None => \A d \in Client \ {c} : Live(d) => client[d].email # e

CheckNew(p, e) ==
  /\ Manages(p)
  /\ EmailIsFree(e, None)
  /\ Turns(p, "insertClient", e)
  /\ TeamStays /\ UNCHANGED officeVars

InsertClient(p, c) ==
  /\ At(p, "insertClient") /\ client[c].there = "no"
  /\ client' = [client EXCEPT ![c] = [there |-> "yes", email |-> proc[p].arg]]
  /\ Ends(p)
  /\ TeamStays /\ UNCHANGED <<task, holder, given, late>>

CheckClient(p, c, e) ==
  /\ Manages(p)
  /\ Live(c) /\ EmailIsFree(e, c)
  /\ Turns(p, "updateClient", [client |-> c, email |-> e])
  /\ TeamStays /\ UNCHANGED officeVars

\* By id alone: the client may be removed by now.
UpdateClient(p) ==
  /\ At(p, "updateClient")
  /\ client' = [client EXCEPT ![proc[p].arg.client].email = proc[p].arg.email]
  /\ Ends(p)
  /\ TeamStays /\ UNCHANGED <<task, holder, given, late>>

FindClient(p, c) ==
  /\ Manages(p) /\ Live(c)
  /\ Turns(p, "removeClient", c)
  /\ TeamStays /\ UNCHANGED officeVars

\* Mistaken: the tasks keep the client.
RemoveClientOnly(p) ==
  LET c == proc[p].arg IN
  /\ At(p, "removeClient")
  /\ \A k \in Task : task[k].customer = c => holder[k] = None
  /\ UNCHANGED task
  /\ client' = [client EXCEPT ![c].there = "removed"]
  /\ Ends(p)
  /\ TeamStays /\ UNCHANGED <<holder, given, late>>

\* One transaction: the client's tasks, whose rows must be free, lose it.
RemoveClient(p) ==
  LET c == proc[p].arg IN
  /\ At(p, "removeClient")
  /\ \A k \in Task : task[k].customer = c => holder[k] = None
  /\ task' = [k \in Task |-> IF task[k].customer = c
                             THEN [task[k] EXCEPT !.customer = None] ELSE task[k]]
  /\ client' = [client EXCEPT ![c].there = "removed"]
  /\ Ends(p)
  /\ TeamStays /\ UNCHANGED <<holder, given, late>>

-----------------------------------------------------------------------------
\* Tasks: validateCustomerId, validateAssigneeIds and parseRange.
Customers == {None} \cup {c \in Client : Live(c)}
Assignees == {as \in Lists : \A u \in as : active[Home][u]}
LateFor(k, c) == IF c # None /\ client[c].there = "removed" THEN late \cup {k} ELSE late \ {k}

CheckTask(p, c, as, done) ==
  /\ Manages(p)
  /\ \E s \in Times, e \in Times :
       /\ s < e
       /\ Turns(p, "insertTask", [customer |-> c, start |-> s, end |-> e,
                                  completed |-> done, assigned |-> as])
  /\ TeamStays /\ UNCHANGED officeVars

\* logged: of a task created as completed its creation tells.
InsertTask(p, k) ==
  LET arg == proc[p].arg IN
  /\ At(p, "insertTask") /\ task[k].there = "no"
  /\ task' = [task EXCEPT ![k] = [there |-> "yes", logged |-> arg.completed,
                customer |-> arg.customer, start |-> arg.start, end |-> arg.end,
                completed |-> arg.completed, assigned |-> arg.assigned]]
  /\ given' = [given EXCEPT ![k] = arg.assigned]
  /\ late' = LateFor(k, arg.customer)
  /\ Ends(p)
  /\ TeamStays /\ UNCHANGED <<client, holder>>

ReadTask(p, k) ==
  /\ Manages(p) /\ task[k].there = "yes"
  /\ Turns(p, "checkUpdate", [task |-> k, existing |-> task[k], new |-> None, sent |-> {},
                              deleted |-> {}])
  /\ TeamStays /\ UNCHANGED officeVars

\* Mistaken: the end of the time that is not sent is left to the row.
ColumnsSent(sent) == sent

\* The columns an update writes: those it is sent, and both ends of the time when it is
\* sent one, the other as the row was read.
Columns(sent) ==
  sent \cup (IF sent \cap {"start", "end"} # {} THEN {"start", "end"} ELSE {})

CheckUpdate(p, sent) ==
  LET old == proc[p].arg.existing IN
  /\ At(p, "checkUpdate")
  /\ \E new \in [customer : Customers \cup {old.customer}, completed : BOOLEAN,
                 start : Times, end : Times, assigned : Assignees \cup {old.assigned}] :
       /\ \A column \in DOMAIN new \ sent : new[column] = old[column]
       /\ new.start < new.end
       /\ "customer" \in sent => new.customer \in Customers
       /\ "assigned" \in sent => new.assigned \in Assignees
       /\ Turns(p, "update", [proc[p].arg EXCEPT !.new = new, !.sent = sent])
  /\ TeamStays /\ UNCHANGED officeVars

\* An assignee who is not active any more, a client who is gone, an end before the start.
RefuseUpdate(p) ==
  /\ At(p, "checkUpdate") /\ Ends(p)
  /\ TeamStays /\ UNCHANGED officeVars

\* Mistaken: the assignments are replaced without the row of the task.
LockNothing(p) ==
  LET k == proc[p].arg.task IN
  /\ At(p, "update")
  /\ IF task[k].there = "yes"
     THEN Turns(p, "commit", [proc[p].arg EXCEPT !.deleted = task[k].assigned])
     ELSE Ends(p)
  /\ TeamStays /\ UNCHANGED officeVars

\* The row is locked, then the assignments are deleted; a task that is gone by now is an
\* error.
LockTask(p) ==
  LET k == proc[p].arg.task IN
  /\ At(p, "update") /\ holder[k] = None
  /\ IF task[k].there = "yes"
     THEN /\ Turns(p, "commit", [proc[p].arg EXCEPT !.deleted = task[k].assigned])
          /\ holder' = [holder EXCEPT ![k] = p]
     ELSE Ends(p) /\ UNCHANGED holder
  /\ TeamStays /\ UNCHANGED <<client, task, given, late>>

\* Mistaken: the test is inverted.
CompletesDone(existing, new) == existing.completed /\ new.completed

\* logged: since the task was created, an update that found it open has completed it.
Completes(existing, new) == ~existing.completed /\ new.completed

CommitTask(p) ==
  LET arg == proc[p].arg
      k == arg.task
      row == [column \in DOMAIN NoTask |->
                IF column \in Columns(arg.sent) THEN arg.new[column] ELSE task[k][column]] IN
  /\ At(p, "commit")
  /\ task' = [task EXCEPT ![k] = [row EXCEPT
       !.assigned = @ \cup IF "assigned" \in arg.sent THEN task[k].assigned \ arg.deleted
                          ELSE {},
       !.logged = @ \/ Completes(arg.existing, arg.new)]]
  /\ given' = IF "assigned" \in arg.sent THEN [given EXCEPT ![k] = arg.new.assigned]
              ELSE given
  /\ late' = IF "customer" \in arg.sent THEN LateFor(k, arg.new.customer) ELSE late
  /\ holder' = [holder EXCEPT ![k] = None]
  /\ Ends(p)
  /\ TeamStays /\ UNCHANGED client

RemoveTask(p, k) ==
  /\ Manages(p) /\ task[k].there = "yes" /\ holder[k] = None
  /\ task' = [task EXCEPT ![k] = [NoTask EXCEPT !.there = "removed"]]
  /\ given' = [given EXCEPT ![k] = {}] /\ late' = late \ {k}
  /\ Ends(p)
  /\ TeamStays /\ UNCHANGED <<client, holder>>

-----------------------------------------------------------------------------
OfficeNext ==
  \E p \in Proc :
    \/ \E e \in Email \cup {None} :
         CheckNew(p, e) \/ \E c \in Client : CheckClient(p, c, e)
    \/ \E c \in Client : InsertClient(p, c) \/ FindClient(p, c)
    \/ UpdateClient(p) \/ RemoveClient(p)
    \/ \E c \in Customers, as \in Assignees, done \in BOOLEAN : CheckTask(p, c, as, done)
    \/ \E k \in Task : InsertTask(p, k) \/ ReadTask(p, k) \/ RemoveTask(p, k)
    \/ \E sent \in Sent : CheckUpdate(p, sent)
    \/ RefuseUpdate(p) \/ LockTask(p) \/ CommitTask(p)

Next == OfficeNext \/ (TeamNext /\ UNCHANGED officeVars)

Spec == Init /\ [][Next]_vars

-----------------------------------------------------------------------------
\* A task ends after it starts, although an update that moves one end is checked against
\* the other as it was read, and another update may have moved that one since.
TasksEndAfterTheyStart == \A k \in Task : task[k].start < task[k].end

\* The assignees of a task are those one request asked for, not a mixture of two that
\* replaced them at the same time.
AssigneesAreOneRequests == \A k \in Task : holder[k] = None => task[k].assigned = given[k]

\* A completed task has its completion in the activity log, although whether an update
\* completes it is decided on the row as it was read before the transaction.
CompletionsAreLogged == \A k \in Task : task[k].completed => task[k].logged

\* A removed client has no tasks but those given to it by requests that checked it before.
RemovedClientsHaveNoTasks ==
  \A k \in Task \ late : task[k].customer # None => Live(task[k].customer)
=============================================================================
