------------------------------- MODULE Booking -------------------------------
(***************************************************************************)
(* Who is booked when: the writers of the schedule columns of a company's  *)
(* Job rows.  Customers submit public drafts                               *)
(* (public-booking-persistence.service.ts), staff create jobs              *)
(* (jobs.service.ts), review bookings (schedule.service.ts) and edit,      *)
(* complete, cancel, reopen and delete jobs (job-lifecycle.service.ts);    *)
(* slots.service.ts says which slots are offered.                          *)
(*                                                                         *)
(* Drafts and creations are SERIALIZABLE transactions.  What such a        *)
(* transaction decides is decided by its snapshot, so the step that takes  *)
(* the snapshot also computes the row to write, and the step that commits  *)
(* only asks whether PostgreSQL lets it.  All other writers read, decide   *)
(* and write at READ COMMITTED, where nothing forbids a write that was     *)
(* decided on rows changed since.                                          *)
(*                                                                         *)
(* The module describes one company and one day of its calendar, so there  *)
(* is one advisory lock.                                                   *)
(***************************************************************************)
EXTENDS Naturals, FiniteSets

CONSTANTS
  Job,        \* ids of job rows, one for each intent and key
  Worker,     \* active workers
  Intent,     \* booking intents of the public form (publicBookingIntentId)
  StaffKey,   \* idempotency keys of staff creations; bound: no more creations
  Proc,       \* requests the API can be serving at a time
  None,       \* no job, no worker
  Span,       \* slots: sets of points of time
  Open,       \* the points of time at which a worker is available
  EditStatus, \* statuses an edit can set
  Ops         \* which of the operations on existing jobs can happen

JobStatus == {"DRAFT", "PENDING_CONFIRMATION", "SCHEDULED", "IN_PROGRESS",
              "DONE", "CANCELED", "NO_SHOW"}
BLOCKING_STATUSES == {"PENDING_CONFIRMATION", "SCHEDULED", "IN_PROGRESS"}
MaxAttempts == 3

ASSUME ConstantsAssumption ==
  /\ None \notin Job \cup Worker \cup Intent \cup StaffKey
  /\ Intent \cap StaffKey = {}
  /\ IsFiniteSet(Job) /\ IsFiniteSet(Worker)
  /\ IsFiniteSet(Intent \cup StaffKey)
  /\ Cardinality(Job) >= Cardinality(Intent \cup StaffKey)
  /\ Open \in [Worker -> SUBSET UNION Span]
  /\ EditStatus \subseteq JobStatus
  /\ Ops \subseteq {"review", "edit", "complete", "cancel", "reopen", "delete",
                "pay"}

VARIABLES
  job,    \* Job rows and their assignments; status "none" is the absent row
  proc    \* requests in progress

vars == <<job, proc>>

-----------------------------------------------------------------------------
\* lead is workerId, crew the JobAssignment rows; token is the intent or the
\* idempotency key the row was created under; paid is whether paidAt is set.
Row == [status : JobStatus \cup {"none"}, span : Span \cup {{}},
        lead : Worker \cup {None}, crew : SUBSET Worker,
        paid : BOOLEAN, deleted : BOOLEAN,
        token : Intent \cup StaffKey \cup {None}]
Column == {"status", "span", "lead", "crew", "paid", "deleted", "token"}
Absent == [status |-> "none", span |-> {}, lead |-> None, crew |-> {},
           paid |-> FALSE, deleted |-> FALSE, token |-> None]

\* workerIds as validated: the first one becomes the lead.
Team == {[lead |-> None, crew |-> {}]} \cup
        {[lead |-> w, crew |-> c \cup {w}] : w \in Worker, c \in SUBSET Worker}

\* job, cols and row: the row a request will write (None: insert), and the
\* columns it writes.  doomed: PostgreSQL will not let the transaction commit;
\* crossed: it may refuse to.
Pc == {"idle", "draftRetry", "draftWait", "draftCommit",
       "createSnapshot", "createCommit", "write"}
Request == [pc : Pc, job : Job \cup {None}, row : Row, cols : SUBSET Column,
            doomed : BOOLEAN, crossed : BOOLEAN, attempt : 0..MaxAttempts]
Idle == [pc |-> "idle", job |-> None, row |-> Absent, cols |-> {},
         doomed |-> FALSE, crossed |-> FALSE, attempt |-> 0]

TypeOK ==
  /\ job \in [Job -> Row]
  /\ proc \in [Proc -> Request]

Init ==
  /\ job = [j \in Job |-> Absent]
  /\ proc = [p \in Proc |-> Idle]

-----------------------------------------------------------------------------
(***************************************************************************)
(* What the queries select                                                 *)
(***************************************************************************)
Exists(j) == job[j].status # "none"
Blocks(row) == row.status \in BLOCKING_STATUSES /\ ~row.deleted
Overlap(s, t) == s \cap t # {}

\* getAssignedWorkerIds
Assigned(row) == row.crew \cup ({row.lead} \ {None})

\* Mistaken: only the primary worker of the other jobs counts.
ClashByLead(row, crew, span) ==
  Blocks(row) /\ Overlap(row.span, span) /\ row.lead \in crew

\* The where clause of assertNoWorkerConflicts.
Clash(row, crew, span) ==
  Blocks(row) /\ Overlap(row.span, span) /\ Assigned(row) \cap crew # {}

NoWorkerConflicts(crew, span, except) ==
  \A j \in Job \ except : ~Clash(job[j], crew, span)

\* generateWorkerSlots: the availability of a worker less the jobs it leads.
Free(w, span) ==
  /\ span \subseteq Open[w]
  /\ \A j \in Job : ~(Blocks(job[j]) /\ job[j].lead = w /\ Overlap(job[j].span, span))

\* Reservations that have no primary worker.
Reservations(span) ==
  {j \in Job : Blocks(job[j]) /\ job[j].lead = None /\ Overlap(job[j].span, span)}

\* Mistaken: as many reservations as workers still leave room.
BookableToTheLast(span) ==
  LET free == {w \in Worker : Free(w, span)}
  IN  free # {} /\ Cardinality(free) >= Cardinality(Reservations(span))

\* isCompanySlotBookable: some worker is left when every reservation that
\* overlaps the slot has taken one.
Bookable(span) ==
  Cardinality({w \in Worker : Free(w, span)}) > Cardinality(Reservations(span))

-----------------------------------------------------------------------------
(***************************************************************************)
(* Transactions                                                            *)
(***************************************************************************)
At(p, pc) == proc[p].pc = pc
Return(p) == proc' = [proc EXCEPT ![p] = Idle]

IsPublic(row) == row.token \in Intent
InSerializable(q) == proc[q].pc \in {"draftWait", "draftCommit", "createCommit"}

\* Whether a SERIALIZABLE transaction that writes mine reads the row theirs: a
\* draft reads every job of the day, a creation the jobs of its workers.
Reads(mine, theirs) ==
  IsPublic(mine) \/ Clash(theirs, mine.crew, mine.span)

Merged(old, cols, new) == [c \in Column |-> IF c \in cols THEN new[c] ELSE old[c]]

\* A write of row j while q's transaction is open.  q cannot commit if it
\* writes the same row; nor, if the writer is SERIALIZABLE too, if each reads
\* what the other writes, or both insert under one unique token.
Disturbed(q, j, row, serializable) ==
  IF ~InSerializable(q) THEN proc[q]
  ELSE [proc[q] EXCEPT
         !.doomed = @ \/ proc[q].job = j
                      \/ /\ serializable
                         /\ \/ Reads(row, proc[q].row) /\ Reads(proc[q].row, row)
                            \/ row.token = proc[q].row.token,
         !.crossed = @ \/ serializable]

\* The request p, if any, writes row j and is done.
WriteRow(p, j, row, serializable) ==
  /\ job' = [job EXCEPT ![j] = row]
  /\ proc' = [q \in Proc |-> IF q = p THEN Idle ELSE Disturbed(q, j, row, serializable)]

\* Mistaken: the transaction runs at READ COMMITTED.
CommitUnchecked(p) ==
  LET r == proc[p] IN
  IF r.job = None
  THEN \E j \in Job : ~Exists(j) /\ WriteRow(p, j, r.row, TRUE)
  ELSE WriteRow(p, r.job, Merged(job[r.job], r.cols, r.row), TRUE)

\* Commit of a SERIALIZABLE transaction.
Commit(p) ==
  LET r == proc[p] IN
  /\ ~r.doomed
  /\ IF r.job = None
     THEN \E j \in Job : ~Exists(j) /\ WriteRow(p, j, r.row, TRUE)
     ELSE WriteRow(p, r.job, Merged(job[r.job], r.cols, r.row), TRUE)

(***************************************************************************)
(* createPublicBookingDraft                                                *)
(***************************************************************************)
Draft(i, s) == [Absent EXCEPT !.status = "PENDING_CONFIRMATION", !.span = s, !.token = i]
DraftColumns == {"status", "span", "lead"}

\* The transaction's first statement queues for the company's advisory lock, and
\* takes the snapshot.  "Selected slot is no longer available" and "This booking
\* has already been submitted." end the request.
DraftOpen(p, draft, attempt) ==
  LET mine == {j \in Job : Exists(j) /\ job[j].token = draft.token} IN
  IF ~Bookable(draft.span) \/ \E j \in mine : job[j].paid
  THEN Return(p)
  ELSE \E j \in IF mine = {} THEN {None} ELSE mine :
         proc' = [proc EXCEPT ![p] =
           [Idle EXCEPT !.pc = "draftWait", !.job = j, !.cols = DraftColumns,
                        !.attempt = attempt,
                        !.row = IF j = None THEN draft
                                ELSE Merged(job[j], DraftColumns, draft)]]

DraftBegin(p, i, s) ==
  /\ At(p, "idle")
  /\ DraftOpen(p, Draft(i, s), 1)
  /\ UNCHANGED job

DraftLock(p) ==
  /\ At(p, "draftWait")
  /\ \A q \in Proc : ~At(q, "draftCommit")
  /\ proc' = [proc EXCEPT ![p].pc = "draftCommit"]
  /\ UNCHANGED job

DraftCommit(p) == At(p, "draftCommit") /\ Commit(p)

\* Mistaken: the attempts are not counted.
DraftAbortAlwaysRetries(p) ==
  /\ At(p, "draftCommit")
  /\ proc[p].doomed \/ proc[p].crossed
  /\ proc' = [proc EXCEPT ![p].pc = "draftRetry", ![p].attempt = 0]
  /\ UNCHANGED job

\* P2034 is retried, the third one is thrown.  Another request of the same
\* intent may also have inserted the unique token, which is thrown at once.
DraftAbort(p) ==
  LET r == proc[p] IN
  /\ At(p, "draftCommit")
  /\ r.doomed \/ r.crossed
  /\ \/ /\ r.attempt < MaxAttempts
        /\ proc' = [proc EXCEPT ![p].pc = "draftRetry"]
     \/ /\ \/ r.attempt = MaxAttempts
           \/ r.job = None /\ \E j \in Job : job[j].token = r.row.token
        /\ Return(p)
  /\ UNCHANGED job

DraftRetry(p) ==
  LET r == proc[p] IN
  /\ At(p, "draftRetry")
  /\ DraftOpen(p, Draft(r.row.token, r.row.span), r.attempt + 1)
  /\ UNCHANGED job

(***************************************************************************)
(* createManagerJob and createWorkerJob                                    *)
(***************************************************************************)
Creation(k, team, s) ==
  [Absent EXCEPT !.status = "SCHEDULED", !.span = s, !.lead = team.lead,
                 !.crew = team.crew, !.token = k]

\* A key that has a job answers with it, or with "Idempotency key re-used with
\* different payload".
CreateOpen(p, row) ==
  IF \/ \E j \in Job : job[j].token = row.token
     \/ ~NoWorkerConflicts(row.crew, row.span, {})
  THEN Return(p)
  ELSE proc' = [proc EXCEPT ![p] =
         [Idle EXCEPT !.pc = "createCommit", !.row = row, !.cols = Column]]

ManagerCreate(p, k, team, s) ==
  /\ At(p, "idle")
  /\ CreateOpen(p, Creation(k, team, s))
  /\ UNCHANGED job

\* A worker's creation asks for the slot before its transaction begins.
WorkerCreate(p, k, w, s) ==
  /\ At(p, "idle")
  /\ Free(w, s)
  /\ proc' = [proc EXCEPT ![p] =
       [Idle EXCEPT !.pc = "createSnapshot",
                    !.row = Creation(k, [lead |-> w, crew |-> {w}], s)]]
  /\ UNCHANGED job

WorkerCreateOpen(p) ==
  /\ At(p, "createSnapshot")
  /\ CreateOpen(p, proc[p].row)
  /\ UNCHANGED job

CreateCommit(p) == At(p, "createCommit") /\ Commit(p)

\* A serialization failure is not retried.
CreateAbort(p) ==
  /\ At(p, "createCommit")
  /\ proc[p].doomed \/ proc[p].crossed
  /\ Return(p)
  /\ UNCHANGED job

(***************************************************************************)
(* The staff's operations on a job, at READ COMMITTED                      *)
(***************************************************************************)

\* The request decided to write the columns cols of row j.
Decide(p, j, row, cols) ==
  /\ At(p, "idle")
  /\ proc' = [proc EXCEPT ![p] =
       [Idle EXCEPT !.pc = "write", !.job = j, !.cols = cols,
                    !.row = Merged(Absent, cols, row)]]
  /\ UNCHANGED job

Differing(old, new, cols) == {c \in cols : old[c] # new[c]}

\* reviewJob, with the workers the job has or others, lead first.  The assignments
\* are always written, the other columns only if they differ from what was read;
\* one of them must.
ReviewBegin(p, j, team, s, confirm) ==
  LET old == job[j]
      new == [old EXCEPT !.lead = team.lead, !.crew = team.crew, !.span = s,
                         !.status = IF confirm THEN "SCHEDULED" ELSE @]
      changed == Differing(old, new, {"lead", "span", "status"})
  IN
  /\ "review" \in Ops
  /\ Exists(j)
  /\ confirm => old.paid
  /\ NoWorkerConflicts(team.crew, s, {j})
  /\ changed # {}
  /\ Decide(p, j, new, changed \cup {"crew"})

\* The workers of a job, for an edit that does not name any.
Kept(row) == [lead |-> row.lead, crew |-> Assigned(row)]

\* updateJob: no look at other jobs.
EditBegin(p, j, team, status) ==
  LET old == job[j]
      new == [old EXCEPT !.lead = team.lead, !.crew = team.crew, !.status = status]
      changed == Differing(old, new, {"lead", "status"}) \cup
                 (IF Kept(old) = team \/ (old.lead = None /\ Assigned(old) = team.crew)
                  THEN {} ELSE {"crew"})
  IN
  /\ "edit" \in Ops
  /\ Exists(j) /\ ~old.deleted
  /\ ~(old.status = "PENDING_CONFIRMATION" /\ status = "DONE")
  /\ changed # {}
  /\ Decide(p, j, new, changed)

\* completeJob, cancelJob and reopenJob: the row is read before the transaction,
\* which writes the status unconditionally.
StatusAfter == [complete |-> "DONE", cancel |-> "CANCELED", reopen |-> "SCHEDULED"]
StatusBegin(p, j, op) ==
  /\ op \in Ops
  /\ Exists(j) /\ ~job[j].deleted
  /\ op = "complete" => job[j].status # "PENDING_CONFIRMATION"
  /\ Decide(p, j, [job[j] EXCEPT !.status = StatusAfter[op]], {"status"})

DeleteBegin(p, j) ==
  /\ "delete" \in Ops
  /\ Exists(j) /\ ~job[j].deleted
  /\ Decide(p, j, [job[j] EXCEPT !.deleted = TRUE], {"deleted"})

Write(p) ==
  LET r == proc[p] IN
  /\ At(p, "write")
  /\ WriteRow(p, r.job, Merged(job[r.job], r.cols, r.row), FALSE)

\* The completion of a checkout sets paidAt (see Payments).
MarkPaid(j) ==
  /\ "pay" \in Ops
  /\ Exists(j) /\ ~job[j].paid
  /\ WriteRow(None, j, [job[j] EXCEPT !.paid = TRUE], FALSE)

-----------------------------------------------------------------------------
DraftSteps(p) ==
  DraftLock(p) \/ DraftCommit(p) \/ DraftAbort(p) \/ DraftRetry(p)

Next ==
  \/ \E p \in Proc :
       \/ DraftSteps(p)
       \/ WorkerCreateOpen(p) \/ CreateCommit(p) \/ CreateAbort(p)
       \/ Write(p)
       \/ \E s \in Span :
            \/ \E i \in Intent : DraftBegin(p, i, s)
            \/ \E k \in StaffKey :
                 \/ \E team \in Team : ManagerCreate(p, k, team, s)
                 \/ \E w \in Worker : WorkerCreate(p, k, w, s)
            \/ \E j \in Job, team \in Team, confirm \in BOOLEAN :
                 ReviewBegin(p, j, team, s, confirm)
       \/ \E j \in Job :
            \/ \E team \in Team \cup {Kept(job[j])},
               status \in EditStatus \cup {job[j].status} :
                 EditBegin(p, j, team, status)
            \/ \E op \in DOMAIN StatusAfter : StatusBegin(p, j, op)
            \/ DeleteBegin(p, j)
  \/ \E j \in Job : MarkPaid(j)

Spec == Init /\ [][Next]_vars

\* A request goes on; PostgreSQL grants an advisory lock in the order in which
\* it was asked for, so that a draft is not passed over for ever.
Fairness ==
  \A p \in Proc :
    /\ WF_vars(DraftCommit(p) \/ DraftAbort(p) \/ DraftRetry(p))
    /\ SF_vars(DraftLock(p))

FairSpec == Spec /\ Fairness

-----------------------------------------------------------------------------
(***************************************************************************)
(* Properties                                                              *)
(***************************************************************************)

\* No worker is assigned to two jobs at the same time.
WorkersNeverClash ==
  \A i, j \in Job : i # j /\ Blocks(job[i]) =>
    ~Clash(job[j], Assigned(job[i]), job[i].span)

\* However many creations run at once, staff never book a worker twice: the
\* conflict check of a creation holds when its row is committed, as long as
\* nothing but creations puts workers on jobs or jobs back on the calendar.
OnlyCreationsAssign == Ops \cap {"review", "edit", "reopen"} = {}
CreationsNeverClash == OnlyCreationsAssign => WorkersNeverClash

\* At every moment of the day customers hold no more bookings than workers are
\* available, through concurrent and repeated submissions, retries and creations
\* by the staff, as long as nobody takes a worker off a job.
CapacityIsKept ==
  OnlyCreationsAssign =>
    \A t \in UNION Span :
      Cardinality({j \in Job : IsPublic(job[j]) /\ Blocks(job[j]) /\ t \in job[j].span})
        <= Cardinality({w \in Worker : t \in Open[w]})

\* A paid booking is moved, or put back to pending, only by the staff, although
\* the payment may be credited while a second submission of the form is under
\* way.
PaidBookingsStay ==
  [][\A j \in Job :
       job[j].paid /\ (\/ job'[j].span # job[j].span
                      \/ job'[j].lead # job[j].lead
                      \/ job'[j].status # job[j].status)
       => \E p \in Proc : At(p, "write") /\ proc[p].job = j]_vars

\* Every submission of the public form is answered, however busy the day is.
EveryDraftIsAnswered ==
  \A p \in Proc : At(p, "draftWait") ~> At(p, "idle")
=============================================================================
