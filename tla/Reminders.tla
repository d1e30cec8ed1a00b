------------------------------ MODULE Reminders ------------------------------
(***************************************************************************)
(* E-mails about jobs.  Every handler that changes a job's time or status  *)
(* ends by taking the job's reminders off a delayed BullMQ queue and, for  *)
(* a scheduled job, by writing new Notification rows and queueing them     *)
(* (notification.service.ts, notification-queue.service.ts).  A worker     *)
(* process sends what is due (notification-worker.service.ts).             *)
(*                                                                         *)
(* Rows are in PostgreSQL and the queue is in Redis: nothing writes both   *)
(* at once.  The entry of a reminder has a fixed id, made of the job and   *)
(* the kind of reminder; to the queue, adding an id that it still holds is *)
(* a no-op, and an entry a worker is processing cannot be removed.         *)
(***************************************************************************)
EXTENDS Integers, Sequences, FiniteSets

CONSTANTS
  Job,              \* ids of jobs
  Proc,             \* requests the API can be serving at a time
  None,             \* no job
  Definitions,      \* the kinds of reminder, the earliest first
  Offset,           \* how long before the start each is sent
  Start,            \* times at which a job can start
  MaxTime,          \* bound: the clock stops
  MAX_ATTEMPTS,     \* attempts of an entry of the queue (3)
  EditStatus,       \* the statuses a job can be edited to
  MaxOps,           \* bound: operations on jobs
  MaxDeaths,        \* bound: requests that die
  MaxWorkerDeaths   \* bound: deaths of the worker process

Reminder == {Definitions[i] : i \in DOMAIN Definitions}
Confirmation == "confirmation"

JobStatus == {"none", "PENDING_CONFIRMATION", "SCHEDULED", "IN_PROGRESS", "DONE",
              "CANCELED", "NO_SHOW"}

\* The kinds are told apart and there is one at least (EMAIL_REMINDER_DEFINITIONS).
ASSUME ConstantsAssumption ==
  /\ Definitions \in Seq(Reminder) /\ Definitions # <<>>
  /\ \A i, j \in DOMAIN Definitions : Definitions[i] = Definitions[j] => i = j
  /\ None \notin Job
  /\ Confirmation \notin Reminder
  /\ Offset \in [Reminder -> Nat \ {0}]
  /\ Start \subseteq 0..MaxTime
  /\ EditStatus \subseteq JobStatus \ {"none"}
  /\ MAX_ATTEMPTS \in Nat \ {0}
  /\ MaxTime \in Nat /\ MaxOps \in Nat /\ MaxDeaths \in Nat /\ MaxWorkerDeaths \in Nat

VARIABLES
  job,          \* the columns of Job and ClientProfile that reminders depend on
  notification, \* the Notification rows, in the order of createdAt
  queue,        \* the e-mail queue: an entry for each job and kind of reminder
  failing,      \* notifications whose last attempt failed, to be marked FAILED
  proc,         \* requests
  sent,         \* e-mails the provider accepted, for each row
  now, ops,
  died,         \* jobs of which a request has died
  overlapped,   \* jobs whose reminders were taken off while one was being sent
  workerDeaths

vars == <<job, notification, queue, failing, proc, sent, now, ops, died, overlapped, workerDeaths>>

JobRow == [status : JobStatus, start : Start \cup {0}, email : BOOLEAN, deleted : BOOLEAN]
Absent == [status |-> "none", start |-> 0, email |-> FALSE, deleted |-> FALSE]

\* findDetailedJobOrThrow
Found(j) == job[j].status # "none" /\ ~job[j].deleted

NotificationStatus == {"QUEUED", "SENT", "FAILED", "CANCELED", "SKIPPED"}
Notification == [job : Job, type : Reminder \cup {Confirmation}, at : 0..MaxTime,
                 status : NotificationStatus]

\* gone: no entry; delayed: waiting for its time or for a retry; failed: kept by
\* removeOnFail.  The others are an attempt in progress and its next step.
EntryState == {"gone", "delayed", "failed", "read", "load", "send", "settle"}
Gone == [pc |-> "gone", note |-> 0, due |-> 0, attempts |-> 0, stalls |-> 0,
         verdict |-> "QUEUED"]
Active(k) == queue[k].pc \in {"read", "load", "send", "settle"}
Held(k) == queue[k].pc # "gone"

Pc == {"idle", "find", "remove", "mark", "create", "add", "notAdded",
       "confirmCreate", "confirmSend", "confirmUpdate"}
\* todo: kinds of reminder not dealt with yet, the earliest first.
Idle == [pc |-> "idle", job |-> None, schedule |-> FALSE, seen |-> Absent, now |-> 0,
         todo |-> <<>>, note |-> 0, ok |-> FALSE]

TypeOK ==
  /\ job \in [Job -> JobRow]
  /\ notification \in Seq(Notification)
  /\ queue \in [Job \X Reminder ->
       [pc : EntryState, note : 0..Len(notification), due : 0..MaxTime,
        attempts : 0..MAX_ATTEMPTS, stalls : 0..1, verdict : NotificationStatus]]
  /\ failing \subseteq 1..Len(notification)
  /\ proc \in [Proc -> [pc : Pc, job : Job \cup {None}, schedule : BOOLEAN, seen : JobRow,
                        now : 0..MaxTime, todo : Seq(Reminder),
                        note : 0..Len(notification), ok : BOOLEAN]]
  /\ sent \in Seq(Nat) /\ Len(sent) = Len(notification)
  /\ now \in 0..MaxTime /\ ops \in 0..MaxOps
  /\ died \subseteq Job /\ overlapped \subseteq Job /\ workerDeaths \in 0..MaxWorkerDeaths

Init ==
  /\ job = [j \in Job |-> Absent]
  /\ notification = <<>> /\ sent = <<>>
  /\ queue = [k \in Job \X Reminder |-> Gone]
  /\ failing = {}
  /\ proc = [p \in Proc |-> Idle]
  /\ now = 0 /\ ops = 0
  /\ died = {} /\ overlapped = {} /\ workerDeaths = 0

-----------------------------------------------------------------------------
At(p, pc) == proc[p].pc = pc
Next1(p, rec) == proc' = [proc EXCEPT ![p] = rec]

NewRow(j, type, at) ==
  /\ notification' = Append(notification,
       [job |-> j, type |-> type, at |-> at, status |-> "QUEUED"])
  /\ sent' = Append(sent, 0)

(***************************************************************************)
(* The handlers that change a job.  The transaction commits, then the      *)
(* reminders follow.                                                       *)
(***************************************************************************)
Commit(p, j, row, pc, schedule) ==
  /\ At(p, "idle")
  /\ ops < MaxOps /\ ops' = ops + 1
  /\ job' = [job EXCEPT ![j] = row]
  /\ Next1(p, [Idle EXCEPT !.pc = pc, !.job = j, !.schedule = schedule])
  /\ UNCHANGED <<notification, queue, failing, sent, now, died, overlapped, workerDeaths>>

\* A public draft has no reminders yet.
Draft(p, j, s) ==
  /\ job[j].status = "none"
  /\ Commit(p, j, [status |-> "PENDING_CONFIRMATION", start |-> s, email |-> TRUE,
                   deleted |-> FALSE],
            "idle", FALSE)

Create(p, j, s, email) ==
  /\ job[j].status = "none"
  /\ Commit(p, j, [status |-> "SCHEDULED", start |-> s, email |-> email,
                   deleted |-> FALSE], "find", TRUE)

\* reviewJob finds deleted jobs too; it may change the workers only.
Review(p, j, s, confirm) ==
  /\ job[j].status # "none"
  /\ Commit(p, j, [job[j] EXCEPT !.start = s,
                                 !.status = IF confirm THEN "SCHEDULED" ELSE @],
            "find", TRUE)

\* syncJobReminderLifecycle, on the row the edit has read back.
Edit(p, j, status) ==
  /\ Found(j)
  /\ ~(job[j].status = "PENDING_CONFIRMATION" /\ status = "DONE")
  /\ IF status \in {"CANCELED", "DONE"}
     THEN Commit(p, j, [job[j] EXCEPT !.status = status], "remove", FALSE)
     ELSE Commit(p, j, [job[j] EXCEPT !.status = status], "find", TRUE)

Complete(p, j) ==
  /\ Found(j) /\ job[j].status # "PENDING_CONFIRMATION"
  /\ Commit(p, j, [job[j] EXCEPT !.status = "DONE"], "remove", FALSE)

Cancel(p, j) ==
  /\ Found(j)
  /\ Commit(p, j, [job[j] EXCEPT !.status = "CANCELED"], "remove", FALSE)

Reopen(p, j) ==
  /\ Found(j)
  /\ Commit(p, j, [job[j] EXCEPT !.status = "SCHEDULED"], "find", TRUE)

Delete(p, j) ==
  /\ Found(j)
  /\ Commit(p, j, [job[j] EXCEPT !.deleted = TRUE], "remove", FALSE)

\* The address of the client is edited; no reminders follow.
ClientEmail(j, email) ==
  /\ job[j].status # "none" /\ job[j].email # email
  /\ ops < MaxOps /\ ops' = ops + 1
  /\ job' = [job EXCEPT ![j].email = email]
  /\ UNCHANGED <<notification, queue, failing, proc, sent, now, died, overlapped, workerDeaths>>

(***************************************************************************)
(* scheduleJobReminders and cancelJobReminders                             *)
(***************************************************************************)
Find(p) ==
  /\ At(p, "find")
  /\ Next1(p, [proc[p] EXCEPT !.pc = "remove", !.seen = job[proc[p].job]])
  /\ UNCHANGED <<job, notification, queue, failing, sent, now, ops, died, overlapped, workerDeaths>>

\* Mistaken: no entry is removed.
RemoveNone(p) ==
  /\ At(p, "remove")
  /\ Next1(p, [proc[p] EXCEPT !.pc = "mark"])
  /\ UNCHANGED <<job, notification, queue, failing, sent, now, ops, died, overlapped, workerDeaths>>

\* cancelEmailReminder: a failure to remove an entry is ignored.
Remove(p) ==
  LET mine == {proc[p].job} \X Reminder
      free == {k \in mine : ~Active(k)}
  IN
  /\ At(p, "remove")
  /\ queue' = [k \in DOMAIN queue |-> IF k \in free THEN Gone ELSE queue[k]]
  /\ overlapped' = IF free = mine THEN overlapped ELSE overlapped \cup {proc[p].job}
  /\ Next1(p, [proc[p] EXCEPT !.pc = "mark"])
  /\ UNCHANGED <<job, notification, failing, sent, now, ops, died, workerDeaths>>

\* shouldScheduleEmailReminders
Wanted(row) == row.status = "SCHEDULED" /\ row.email

AfterMark(p) ==
  Next1(p, IF proc[p].schedule /\ Wanted(proc[p].seen)
           THEN [proc[p] EXCEPT !.pc = "create", !.now = now, !.todo = Definitions]
           ELSE Idle)

\* Mistaken: only the entries are dealt with.
MarkNone(p) ==
  /\ At(p, "mark")
  /\ AfterMark(p)
  /\ UNCHANGED <<job, notification, queue, failing, sent, now, ops, died, overlapped, workerDeaths>>

Mark(p) ==
  /\ At(p, "mark")
  /\ notification' = [n \in DOMAIN notification |->
       IF /\ notification[n].job = proc[p].job
          /\ notification[n].type \in Reminder
          /\ notification[n].status = "QUEUED"
       THEN [notification[n] EXCEPT !.status = "CANCELED"]
       ELSE notification[n]]
  /\ AfterMark(p)
  /\ UNCHANGED <<job, queue, failing, sent, now, ops, died, overlapped, workerDeaths>>

NextReminder(p) ==
  IF Len(proc[p].todo) = 1 THEN Idle
  ELSE [proc[p] EXCEPT !.pc = "create", !.todo = Tail(@)]

CreateReminder(p) ==
  LET kind == Head(proc[p].todo)
      at == proc[p].seen.start - Offset[kind]
  IN
  /\ At(p, "create")
  /\ IF at <= proc[p].now
     THEN Next1(p, NextReminder(p)) /\ UNCHANGED <<notification, sent>>
     ELSE /\ NewRow(proc[p].job, kind, at)
          /\ Next1(p, [proc[p] EXCEPT !.pc = "add", !.note = Len(notification) + 1])
  /\ UNCHANGED <<job, queue, failing, now, ops, died, overlapped, workerDeaths>>

\* scheduleEmailReminder.  Redis can be unreachable.
AddReminder(p) ==
  LET k == <<proc[p].job, Head(proc[p].todo)>>
      n == proc[p].note
  IN
  /\ At(p, "add")
  /\ \/ /\ queue' = IF Held(k) THEN queue
                    ELSE [queue EXCEPT ![k] = [Gone EXCEPT
                            !.pc = "delayed", !.note = n, !.due = notification[n].at]]
        /\ Next1(p, NextReminder(p))
     \/ /\ UNCHANGED queue
        /\ Next1(p, [proc[p] EXCEPT !.pc = "notAdded"])
  /\ UNCHANGED <<job, notification, failing, sent, now, ops, died, overlapped, workerDeaths>>

SetStatus(n, status) ==
  notification' = [notification EXCEPT ![n].status = status]

NotAdded(p) ==
  /\ At(p, "notAdded")
  /\ SetStatus(proc[p].note, "FAILED")
  /\ Next1(p, NextReminder(p))
  /\ UNCHANGED <<job, queue, failing, sent, now, ops, died, overlapped, workerDeaths>>

(***************************************************************************)
(* sendJobConfirmation                                                     *)
(***************************************************************************)
Blocked(row) == ~row.email \/ row.status \in {"CANCELED", "DONE"}

Confirm(p, j) ==
  /\ At(p, "idle")
  /\ Found(j) /\ ~Blocked(job[j])
  /\ ops < MaxOps /\ ops' = ops + 1
  /\ Next1(p, [Idle EXCEPT !.pc = "confirmCreate", !.job = j])
  /\ UNCHANGED <<job, notification, queue, failing, sent, now, died, overlapped, workerDeaths>>

ConfirmCreate(p) ==
  /\ At(p, "confirmCreate")
  /\ NewRow(proc[p].job, Confirmation, 0)
  /\ Next1(p, [proc[p] EXCEPT !.pc = "confirmSend", !.note = Len(notification) + 1])
  /\ UNCHANGED <<job, queue, failing, now, ops, died, overlapped, workerDeaths>>

ConfirmSend(p) ==
  /\ At(p, "confirmSend")
  /\ \E ok \in BOOLEAN :
       /\ sent' = IF ok THEN [sent EXCEPT ![proc[p].note] = @ + 1] ELSE sent
       /\ Next1(p, [proc[p] EXCEPT !.pc = "confirmUpdate", !.ok = ok])
  /\ UNCHANGED <<job, notification, queue, failing, now, ops, died, overlapped, workerDeaths>>

\* Mistaken: the answer of the provider is not looked at.
ConfirmUpdateBlind(p) ==
  /\ At(p, "confirmUpdate")
  /\ SetStatus(proc[p].note, "SENT")
  /\ Next1(p, Idle)
  /\ UNCHANGED <<job, queue, failing, sent, now, ops, died, overlapped, workerDeaths>>

ConfirmUpdate(p) ==
  /\ At(p, "confirmUpdate")
  /\ SetStatus(proc[p].note, IF proc[p].ok THEN "SENT" ELSE "FAILED")
  /\ Next1(p, Idle)
  /\ UNCHANGED <<job, queue, failing, sent, now, ops, died, overlapped, workerDeaths>>

Die(p) ==
  /\ ~At(p, "idle")
  /\ Cardinality(died) < MaxDeaths
  /\ died' = died \cup {proc[p].job}
  /\ Next1(p, Idle)
  /\ UNCHANGED <<job, notification, queue, failing, sent, now, ops, overlapped, workerDeaths>>

(***************************************************************************)
(* The worker: processEmail on the entry k                                 *)
(***************************************************************************)
Entry(k, rec) == queue' = [queue EXCEPT ![k] = rec]

Take(k) ==
  /\ queue[k].pc = "delayed" /\ queue[k].due <= now
  /\ Entry(k, [queue[k] EXCEPT !.pc = "read"])
  /\ UNCHANGED <<job, notification, failing, proc, sent, now, ops, died, overlapped, workerDeaths>>

ReadNotification(k) ==
  /\ queue[k].pc = "read"
  /\ Entry(k, IF notification[queue[k].note].status = "QUEUED"
              THEN [queue[k] EXCEPT !.pc = "load"] ELSE Gone)
  /\ UNCHANGED <<job, notification, failing, proc, sent, now, ops, died, overlapped, workerDeaths>>

\* What becomes of the notification without an e-mail.
Verdict(row) ==
  CASE row.status = "CANCELED" -> "CANCELED"
    [] row.status = "DONE" -> "SKIPPED"
    [] ~row.email -> "CANCELED"
    [] OTHER -> "QUEUED"

LoadJob(k) ==
  LET verdict == Verdict(job[k[1]]) IN
  /\ queue[k].pc = "load"
  /\ Entry(k, IF verdict = "QUEUED"
              THEN [queue[k] EXCEPT !.pc = "send"]
              ELSE [queue[k] EXCEPT !.pc = "settle", !.verdict = verdict])
  /\ UNCHANGED <<job, notification, failing, proc, sent, now, ops, died, overlapped, workerDeaths>>

\* Mistaken: an attempt that fails is not counted.
SendUncounted(k) ==
  /\ queue[k].pc = "send"
  /\ \/ /\ sent' = [sent EXCEPT ![queue[k].note] = @ + 1]
        /\ Entry(k, [queue[k] EXCEPT !.pc = "settle", !.verdict = "SENT"])
        /\ UNCHANGED failing
     \/ /\ Entry(k, [queue[k] EXCEPT !.pc = "delayed", !.due = now])
        /\ UNCHANGED <<failing, sent>>
  /\ UNCHANGED <<job, notification, proc, now, ops, died, overlapped, workerDeaths>>

\* Mistaken: the e-mail is sent, and the attempt fails.
SendAndThrow(k) ==
  /\ queue[k].pc = "send"
  /\ sent' = [sent EXCEPT ![queue[k].note] = @ + 1]
  /\ Entry(k, IF queue[k].attempts + 1 < MAX_ATTEMPTS
              THEN [queue[k] EXCEPT !.pc = "delayed", !.due = now, !.attempts = @ + 1]
              ELSE [queue[k] EXCEPT !.pc = "settle", !.verdict = "SENT"])
  /\ UNCHANGED <<failing, job, notification, proc, now, ops, died, overlapped, workerDeaths>>

\* The provider accepts the e-mail or not; BullMQ retries a failed attempt until
\* MAX_ATTEMPTS.
Send(k) ==
  /\ queue[k].pc = "send"
  /\ \/ /\ sent' = [sent EXCEPT ![queue[k].note] = @ + 1]
        /\ Entry(k, [queue[k] EXCEPT !.pc = "settle", !.verdict = "SENT"])
        /\ UNCHANGED failing
     \/ /\ queue[k].attempts + 1 < MAX_ATTEMPTS
        /\ Entry(k, [queue[k] EXCEPT !.pc = "delayed", !.due = now, !.attempts = @ + 1])
        /\ UNCHANGED <<failing, sent>>
     \/ /\ queue[k].attempts + 1 = MAX_ATTEMPTS
        /\ Entry(k, [queue[k] EXCEPT !.pc = "failed", !.attempts = @ + 1])
        /\ failing' = failing \cup {queue[k].note}
        /\ UNCHANGED sent
  /\ UNCHANGED <<job, notification, proc, now, ops, died, overlapped, workerDeaths>>

\* updateNotificationStatus asks for no status; removeOnComplete.
Settle(k) ==
  /\ queue[k].pc = "settle"
  /\ SetStatus(queue[k].note, queue[k].verdict)
  /\ Entry(k, Gone)
  /\ UNCHANGED <<job, failing, proc, sent, now, ops, died, overlapped, workerDeaths>>

\* The listener for 'failed'.
GiveUp(n) ==
  /\ n \in failing
  /\ failing' = failing \ {n}
  /\ SetStatus(n, "FAILED")
  /\ UNCHANGED <<job, queue, proc, sent, now, ops, died, overlapped, workerDeaths>>

\* BullMQ hands a stalled entry to the next worker, once (maxStalledCount); what
\* the listeners had to do is lost.
WorkerDie ==
  /\ workerDeaths < MaxWorkerDeaths
  /\ (\E k \in DOMAIN queue : Active(k)) \/ failing # {}
  /\ workerDeaths' = workerDeaths + 1
  /\ failing' = {}
  /\ queue' = [k \in DOMAIN queue |->
       IF ~Active(k) THEN queue[k]
       ELSE IF queue[k].stalls = 0
            THEN [queue[k] EXCEPT !.pc = "delayed", !.due = now, !.stalls = 1, !.verdict = "QUEUED"]
            ELSE [queue[k] EXCEPT !.pc = "failed", !.verdict = "QUEUED"]]
  /\ UNCHANGED <<job, notification, proc, sent, now, ops, died, overlapped>>

Tick ==
  /\ now < MaxTime
  /\ now' = now + 1
  /\ UNCHANGED <<job, notification, queue, failing, proc, sent, ops, died, overlapped, workerDeaths>>

-----------------------------------------------------------------------------
Request(p) ==
  \/ Find(p) \/ Remove(p) \/ Mark(p) \/ CreateReminder(p) \/ AddReminder(p) \/ NotAdded(p)
  \/ ConfirmCreate(p) \/ ConfirmSend(p) \/ ConfirmUpdate(p)

Worker(k) == Take(k) \/ ReadNotification(k) \/ LoadJob(k) \/ Send(k) \/ Settle(k)

Next ==
  \/ \E p \in Proc :
       \/ Request(p) \/ Die(p)
       \/ \E j \in Job :
            \/ Complete(p, j) \/ Cancel(p, j) \/ Reopen(p, j) \/ Delete(p, j) \/ Confirm(p, j)
            \/ \E status \in EditStatus : Edit(p, j, status)
            \/ \E s \in Start :
                 \/ Draft(p, j, s)
                 \/ \E b \in BOOLEAN : Create(p, j, s, b) \/ Review(p, j, s, b)
  \/ \E j \in Job, b \in BOOLEAN : ClientEmail(j, b)
  \/ \E k \in DOMAIN queue : Worker(k)
  \/ \E n \in DOMAIN notification : GiveUp(n)
  \/ WorkerDie
  \/ Tick

Spec == Init /\ [][Next]_vars

\* Requests and attempts go on, BullMQ polls the queue, listeners run, time passes.
Fairness ==
  /\ \A p \in Proc : WF_vars(Request(p))
  /\ \A k \in Job \X Reminder : WF_vars(Worker(k))
  /\ WF_vars(\E n \in failing : GiveUp(n))
  /\ WF_vars(Tick)

FairSpec == Spec /\ Fairness

-----------------------------------------------------------------------------
(***************************************************************************)
(* What the staff are shown                                                *)
(***************************************************************************)
Rows(j, types) ==
  {n \in DOMAIN notification : notification[n].job = j /\ notification[n].type \in types}

Latest(rows) == CHOOSE n \in rows : \A m \in rows : m <= n

\* mapReminderStatus and buildReminderSummary: without a row, what would be queued.
ReminderStatus(status) ==
  CASE status = "QUEUED" -> "SCHEDULED"
    [] status = "SKIPPED" -> "NOT_APPLICABLE"
    [] OTHER -> status

ReminderSummary(j, type) ==
  LET rows == Rows(j, {type}) IN
  IF rows # {} THEN ReminderStatus(notification[Latest(rows)].status)
  ELSE IF Wanted(job[j]) /\ job[j].start - Offset[type] > now
       THEN "SCHEDULED" ELSE "NOT_APPLICABLE"

\* buildConfirmationSummary
ConfirmationSummary(j) ==
  LET rows == Rows(j, {Confirmation}) IN
  IF rows # {} /\ notification[Latest(rows)].status \in {"SENT", "FAILED"}
  THEN notification[Latest(rows)].status ELSE "NOT_SENT"

\* getLatestClientCommunication; sentAt is not kept, so any SENT row may be it.
Communications(j) == {n \in Rows(j, Reminder \cup {Confirmation}) : notification[n].status = "SENT"}

-----------------------------------------------------------------------------
(***************************************************************************)
(* Properties                                                              *)
(***************************************************************************)

\* With requests served one at a time, a reminder that is still to be sent is for
\* a job that is scheduled, at the time it has now, through moves, cancellations
\* and reopening, and although an attempt may be under way while its reminder is
\* replaced.
RemindersFollowTheJob ==
  (\A p \in Proc : At(p, "idle")) =>
    \A k \in DOMAIN queue :
      queue[k].pc = "delayed" /\ notification[queue[k].note].status = "QUEUED"
        /\ k[1] \notin died
      => /\ job[k[1]].status = "SCHEDULED"
         /\ queue[k].due = job[k[1]].start - Offset[k[2]] \/ queue[k].attempts + queue[k].stalls > 0

\* A reminder shown as scheduled is in the queue, unless its job's reminders were
\* replaced during an attempt to send one (the queue then ignores the new one) or
\* a request died in between.
ScheduledIsQueued ==
  (\A p \in Proc : At(p, "idle")) =>
    \A n \in DOMAIN notification :
      LET k == <<notification[n].job, notification[n].type>> IN
      /\ notification[n].status = "QUEUED" /\ notification[n].type \in Reminder
      /\ k[1] \notin died \cup overlapped
      => Held(k) /\ queue[k].note = n

\* A notification is e-mailed at most once more than the worker has died.
SentOnce == \A n \in DOMAIN sent : sent[n] <= 1 + workerDeaths

\* Staff are told that an e-mail was sent only if one was.
ShownWasSent ==
  \A j \in Job :
    /\ \A type \in Reminder :
         ReminderSummary(j, type) = "SENT" => \E n \in Rows(j, {type}) : sent[n] > 0
    /\ ConfirmationSummary(j) = "SENT" => \E n \in Rows(j, {Confirmation}) : sent[n] > 0
    /\ \A n \in Communications(j) : sent[n] > 0

Undecided(n) == n \in DOMAIN notification /\ notification[n].status = "QUEUED"

\* A reminder in the queue is decided in the end (sent, cancelled, skipped or
\* given up) however often the provider refuses it and whatever is done to its
\* job meanwhile, unless a request of its job died, or the worker did and left
\* the entry among the failed ones.
RemindersAreDecided ==
  \A k \in Job \X Reminder, n \in 1..MaxOps * Len(Definitions) :
    queue[k].pc = "delayed" /\ queue[k].note = n /\ Undecided(n) ~>
      \/ ~Undecided(n)
      \/ k[1] \in died
      \/ workerDeaths > 0 /\ queue[k].pc = "failed"
=============================================================================
