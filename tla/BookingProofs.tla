---------------------------- MODULE BookingProofs ----------------------------
(***************************************************************************)
(* Proofs about Booking, for any rows, workers, slots, customers, keys and *)
(* number of concurrent requests.                                          *)
(***************************************************************************)
EXTENDS Booking, FiniteSetTheorems, TLAPS

(***************************************************************************)
(* What the helpers return and what a write changes.                       *)
(***************************************************************************)
LEMMA CreationType ==
  \A k \in StaffKey, s \in Span : \A team :
    team.lead \in Worker \cup {None} /\ team.crew \in SUBSET Worker
      => Creation(k, team, s) \in Row
BY DEF Row, Absent, Creation, JobStatus

LEMMA RowTypes ==
  /\ Absent \in Row
  /\ \A i \in Intent \cup StaffKey, s \in Span : Draft(i, s) \in Row
  /\ \A k \in StaffKey, team \in Team, s \in Span : Creation(k, team, s) \in Row
<1>1. Absent \in Row
  BY DEF Row, Absent
<1>2. \A i \in Intent \cup StaffKey, s \in Span : Draft(i, s) \in Row
  BY DEF Row, Absent, Draft, JobStatus
<1>3. \A team \in Team : team.lead \in Worker \cup {None} /\ team.crew \in SUBSET Worker
  BY DEF Team
<1>4. \A k \in StaffKey, team \in Team, s \in Span : Creation(k, team, s) \in Row
  BY <1>3, CreationType
<1> QED BY <1>1, <1>2, <1>4

LEMMA IdleType == Idle \in Request
BY RowTypes DEF Idle, Request, Pc, MaxAttempts

LEMMA MergedType ==
  \A old, new \in Row, cols \in SUBSET Column : Merged(old, cols, new) \in Row
<1> SUFFICES ASSUME NEW old \in Row, NEW new \in Row, NEW cols \in SUBSET Column
             PROVE  Merged(old, cols, new) \in Row
  OBVIOUS
<1> DEFINE M == Merged(old, cols, new)
<1>1. M = [status |-> M.status, span |-> M.span, lead |-> M.lead,
           crew |-> M.crew, paid |-> M.paid, deleted |-> M.deleted,
           token |-> M.token]
  BY DEF Merged, Column
<1> QED BY <1>1 DEF Row, Merged, Column

\* A write keeps every other row; it ends the request that makes it and can only
\* doom others.
Spared(q, j, row, serializable) ==
  ~(/\ InSerializable(q)
    /\ \/ proc[q].job = j
       \/ serializable /\ Reads(row, proc[q].row) /\ Reads(proc[q].row, row))

LEMMA WriteRowFacts ==
  ASSUME TypeOK, NEW p, NEW j \in Job, NEW row \in Row, NEW serializable \in BOOLEAN,
         WriteRow(p, j, row, serializable)
  PROVE  /\ TypeOK'
         /\ job' = [job EXCEPT ![j] = row]
         /\ p \in Proc => proc'[p] = Idle
         /\ \A q \in Proc \ {p} :
              /\ proc'[q].pc = proc[q].pc
              /\ proc'[q].job = proc[q].job
              /\ proc'[q].row = proc[q].row
              /\ proc'[q].cols = proc[q].cols
              /\ proc'[q].attempt = proc[q].attempt
              /\ ~proc'[q].doomed => ~proc[q].doomed /\ Spared(q, j, row, serializable)
<1>1. \A q \in Proc : Disturbed(q, j, row, serializable) \in Request
  BY DEF TypeOK, Request, Disturbed
<1>2. proc' \in [Proc -> Request]
  BY <1>1, IdleType DEF WriteRow
<1>3. job' \in [Job -> Row]
  BY DEF WriteRow, TypeOK
<1>4. \A q \in Proc \ {p} : proc'[q] = Disturbed(q, j, row, serializable)
  BY DEF WriteRow
<1>5. \A q \in Proc \ {p} :
        LET d == Disturbed(q, j, row, serializable) IN
        /\ d.pc = proc[q].pc /\ d.job = proc[q].job /\ d.row = proc[q].row
        /\ d.cols = proc[q].cols /\ d.attempt = proc[q].attempt
        /\ ~d.doomed => ~proc[q].doomed /\ Spared(q, j, row, serializable)
  BY DEF TypeOK, Request, Disturbed, Spared
<1> QED BY <1>2, <1>3, <1>4, <1>5 DEF WriteRow, TypeOK

\* A step that changes one request and no row.
Moves(p) ==
  /\ UNCHANGED job
  /\ \A q \in Proc \ {p} : proc'[q] = proc[q]

LEMMA ReturnFacts ==
  ASSUME TypeOK, NEW p \in Proc, Return(p), UNCHANGED job
  PROVE  TypeOK' /\ Moves(p) /\ proc'[p] = Idle
BY IdleType DEF Return, TypeOK, Moves

-----------------------------------------------------------------------------
(***************************************************************************)
(* Type correctness.  The attempts of a draft that is to be retried are    *)
(* not used up.                                                            *)
(***************************************************************************)
Retryable ==
  \A p \in Proc : proc[p].pc = "draftRetry" =>
    /\ proc[p].attempt < MaxAttempts
    /\ proc[p].row.token \in Intent /\ proc[p].row.span \in Span
Aimed ==
  \A p \in Proc :
    /\ proc[p].pc = "write" => proc[p].job \in Job
    /\ proc[p].pc \in {"draftWait", "draftCommit"} =>
         proc[p].row.token \in Intent /\ proc[p].row.span \in Span
TypeInv == TypeOK /\ Retryable /\ Aimed

LEMMA DraftOpenFacts ==
  ASSUME TypeInv, NEW p \in Proc, NEW i \in Intent, NEW s \in Span,
         NEW attempt \in 0..MaxAttempts,
         DraftOpen(p, Draft(i, s), attempt), UNCHANGED job
  PROVE  /\ TypeOK' /\ Moves(p)
         /\ \/ proc'[p] = Idle
            \/ /\ proc'[p].pc = "draftWait"
               /\ proc'[p].cols = DraftColumns
               /\ ~proc'[p].doomed
               /\ proc'[p].row.token = i
               /\ proc'[p].row.span = s
               /\ proc'[p].row.lead = None
               /\ \/ proc'[p].job = None /\ proc'[p].row.crew = {}
                  \/ /\ proc'[p].job \in Job
                     /\ job[proc'[p].job].token = i
                     /\ proc'[p].row.crew = job[proc'[p].job].crew
<1>1. CASE Return(p)
  BY <1>1, ReturnFacts DEF TypeInv
<1>2. CASE ~Return(p)
  <2> DEFINE draft == Draft(i, s)
  <2> DEFINE mine == {j \in Job : Exists(j) /\ job[j].token = draft.token}
  <2>0. draft.token = i /\ draft.span = s /\ draft.lead = None /\ draft.crew = {}
    BY DEF Draft, Absent
  <2>1. PICK j \in IF mine = {} THEN {None} ELSE mine :
          proc' = [proc EXCEPT ![p] =
            [Idle EXCEPT !.pc = "draftWait", !.job = j, !.cols = DraftColumns,
                         !.attempt = attempt,
                         !.row = IF j = None THEN draft
                                 ELSE Merged(job[j], DraftColumns, draft)]]
    BY <1>2, Zenon DEF DraftOpen
  <2> DEFINE row == IF j = None THEN draft ELSE Merged(job[j], DraftColumns, draft)
  <2>2. j \in Job \cup {None} /\ (j # None => j \in Job /\ job[j].token = i)
    BY <2>0, <2>1
  <2>3. row \in Row
    BY <2>2, RowTypes, MergedType DEF TypeInv, TypeOK, DraftColumns, Column
  <2>4. /\ row.token = i /\ row.span = s /\ row.lead = None
        /\ row.crew = IF j = None THEN {} ELSE job[j].crew
    BY <2>0, <2>2 DEF Merged, DraftColumns, Column
  <2> HIDE DEF row
  <2>5. DraftColumns \in SUBSET Column
    BY DEF DraftColumns, Column
  <2>6. [Idle EXCEPT !.pc = "draftWait", !.job = j, !.cols = DraftColumns,
                     !.attempt = attempt, !.row = row] \in Request
    BY <2>2, <2>3, <2>5, IdleType DEF Request, Pc
  <2>7. proc' = [proc EXCEPT ![p] =
          [Idle EXCEPT !.pc = "draftWait", !.job = j, !.cols = DraftColumns,
                       !.attempt = attempt, !.row = row]]
    BY <2>1 DEF row
  <2>8. TypeOK' /\ Moves(p)
    BY <2>6, <2>7 DEF TypeInv, TypeOK, Moves
  <2>9. /\ proc'[p].pc = "draftWait" /\ proc'[p].cols = DraftColumns
        /\ ~proc'[p].doomed /\ proc'[p].row = row /\ proc'[p].job = j
    BY <2>7 DEF TypeInv, TypeOK, Idle
  <2> QED BY <2>2, <2>4, <2>8, <2>9
<1> QED BY <1>1, <1>2

LEMMA CreateOpenFacts ==
  ASSUME TypeInv, NEW p \in Proc, NEW row \in Row, CreateOpen(p, row), UNCHANGED job
  PROVE  /\ TypeOK' /\ Moves(p)
         /\ \/ proc'[p] = Idle
            \/ /\ proc'[p].pc = "createCommit" /\ proc'[p].row = row
               /\ proc'[p].job = None
               /\ NoWorkerConflicts(row.crew, row.span, {})
<1>1. CASE Return(p)
  BY <1>1, ReturnFacts DEF TypeInv
<1>2. CASE ~Return(p)
  <2> DEFINE r == [Idle EXCEPT !.pc = "createCommit", !.row = row, !.cols = Column]
  <2>0. ~(\/ \E j \in Job : job[j].token = row.token
          \/ ~NoWorkerConflicts(row.crew, row.span, {}))
    BY <1>2 DEF CreateOpen
  <2>1. proc' = [proc EXCEPT ![p] = r] /\ NoWorkerConflicts(row.crew, row.span, {})
    BY <2>0 DEF CreateOpen
  <2>2. r \in Request /\ r.pc = "createCommit" /\ r.row = row /\ r.job = None
    <3>1. Column \in SUBSET Column
      OBVIOUS
    <3> QED BY <3>1, IdleType DEF Request, Pc, Idle
  <2> HIDE DEF r
  <2> QED BY <2>1, <2>2 DEF TypeInv, TypeOK, Moves
<1> QED BY <1>1, <1>2

LEMMA DecideFacts ==
  ASSUME TypeInv, NEW p \in Proc, NEW j \in Job, NEW row \in Row,
         NEW cols \in SUBSET Column, Decide(p, j, row, cols)
  PROVE  /\ TypeOK' /\ Moves(p)
         /\ proc'[p].pc = "write" /\ proc'[p].job = j /\ proc'[p].cols = cols
         /\ proc'[p].row = Merged(Absent, cols, row)
<1> DEFINE r == [Idle EXCEPT !.pc = "write", !.job = j, !.cols = cols,
                            !.row = Merged(Absent, cols, row)]
<1>1. Merged(Absent, cols, row) \in Row
  BY RowTypes, MergedType
<1>2. /\ r \in Request /\ r.pc = "write" /\ r.job = j /\ r.cols = cols
      /\ r.row = Merged(Absent, cols, row)
  BY <1>1, IdleType DEF Request, Pc
<1>3. proc' = [proc EXCEPT ![p] = r]
  BY DEF Decide
<1> HIDE DEF r
<1> QED BY <1>2, <1>3 DEF Decide, TypeInv, TypeOK, Moves

LEMMA CommitFacts ==
  ASSUME TypeInv, NEW p \in Proc, Commit(p)
  PROVE  /\ ~proc[p].doomed
         /\ \E j \in Job, row \in Row :
              /\ WriteRow(p, j, row, TRUE)
              /\ \/ proc[p].job = None /\ ~Exists(j) /\ row = proc[p].row
                 \/ proc[p].job = j /\ row = Merged(job[j], proc[p].cols, proc[p].row)
<1>1. /\ proc[p].row \in Row /\ proc[p].job \in Job \cup {None}
      /\ proc[p].cols \in SUBSET Column
  BY DEF TypeInv, TypeOK, Request
<1>2. CASE proc[p].job = None
  BY <1>1, <1>2 DEF Commit
<1>3. CASE proc[p].job # None
  <2>1. proc[p].job \in Job
    BY <1>1, <1>3
  <2>2. Merged(job[proc[p].job], proc[p].cols, proc[p].row) \in Row
    BY <1>1, <2>1, MergedType DEF TypeInv, TypeOK
  <2> QED BY <1>3, <2>1, <2>2 DEF Commit
<1> QED BY <1>2, <1>3

LEMMA WriteFacts ==
  ASSUME TypeInv, NEW p \in Proc, Write(p)
  PROVE  \E j \in Job, row \in Row :
           /\ WriteRow(p, j, row, FALSE)
           /\ proc[p].job = j /\ row = Merged(job[j], proc[p].cols, proc[p].row)
<1>1. /\ proc[p].row \in Row /\ proc[p].job \in Job
      /\ proc[p].cols \in SUBSET Column
  BY DEF TypeInv, TypeOK, Aimed, Request, Write, At
<1>2. Merged(job[proc[p].job], proc[p].cols, proc[p].row) \in Row
  BY <1>1, MergedType DEF TypeInv, TypeOK
<1> QED BY <1>1, <1>2 DEF Write

LEMMA WriteKeepsTypes ==
  ASSUME TypeInv, NEW p, NEW j \in Job, NEW row \in Row, NEW serializable \in BOOLEAN,
         WriteRow(p, j, row, serializable)
  PROVE  TypeInv'
<1>1. /\ TypeOK'
      /\ p \in Proc => proc'[p].pc = "idle"
      /\ \A q \in Proc \ {p} :
           /\ proc'[q].pc = proc[q].pc
           /\ proc'[q].job = proc[q].job
           /\ proc'[q].row = proc[q].row
           /\ proc'[q].attempt = proc[q].attempt
  BY WriteRowFacts DEF TypeInv, Idle
<1> QED BY <1>1 DEF TypeInv, Retryable, Aimed

LEMMA MoveKeepsTypes ==
  ASSUME TypeInv, NEW p \in Proc, TypeOK', Moves(p),
         proc'[p].pc = "write" => proc'[p].job \in Job,
         proc'[p].pc \in {"draftRetry", "draftWait", "draftCommit"} =>
           proc'[p].row.token \in Intent /\ proc'[p].row.span \in Span,
         proc'[p].pc = "draftRetry" => proc'[p].attempt < MaxAttempts
  PROVE  TypeInv'
BY DEF TypeInv, Retryable, Aimed, Moves

LEMMA TypeInvInit == Init => TypeInv
BY RowTypes, IdleType DEF Init, TypeInv, TypeOK, Retryable, Aimed, Idle

\* What the staff decide is a row.
LEMMA StaffTypes ==
  ASSUME TypeInv, NEW j \in Job
  PROVE  /\ \A team \in Team \cup {Kept(job[j])} :
              team.lead \in Worker \cup {None} /\ team.crew \in SUBSET Worker
         /\ job[j] \in Row
         /\ \A old, new : \A cols \in SUBSET Column : Differing(old, new, cols) \in SUBSET Column
<1>1. job[j] \in Row
  BY DEF TypeInv, TypeOK
<1>2. Assigned(job[j]) \in SUBSET Worker
  BY <1>1 DEF Assigned, Row
<1>3. \A team \in Team : team.lead \in Worker \cup {None} /\ team.crew \in SUBSET Worker
  BY DEF Team
<1>4. Kept(job[j]).lead \in Worker \cup {None} /\ Kept(job[j]).crew \in SUBSET Worker
  BY <1>1, <1>2 DEF Kept, Row
<1> QED BY <1>1, <1>3, <1>4 DEF Differing

LEMMA TypeInvStep == TypeInv /\ [Next]_vars => TypeInv'
<1> SUFFICES ASSUME TypeInv, [Next]_vars
             PROVE  TypeInv'
  OBVIOUS
<1>1. ASSUME NEW p \in Proc, DraftLock(p)
      PROVE  TypeInv'
  <2>1. /\ proc' = [proc EXCEPT ![p].pc = "draftCommit"] /\ proc[p].pc = "draftWait"
        /\ UNCHANGED job
    BY <1>1 DEF DraftLock, At
  <2>2. TypeOK' /\ Moves(p) /\ proc'[p].pc = "draftCommit" /\ proc'[p].row = proc[p].row
    BY <2>1 DEF TypeInv, TypeOK, Request, Pc, Moves
  <2> QED BY <2>1, <2>2, MoveKeepsTypes DEF TypeInv, Aimed
<1>2. ASSUME NEW p \in Proc, DraftCommit(p) \/ CreateCommit(p)
      PROVE  TypeInv'
  BY <1>2, CommitFacts, WriteKeepsTypes DEF DraftCommit, CreateCommit
<1>3. ASSUME NEW p \in Proc, DraftAbort(p)
      PROVE  TypeInv'
  <2>1. CASE Return(p)
    BY <1>3, <2>1, ReturnFacts, MoveKeepsTypes DEF DraftAbort, TypeInv, Idle
  <2>2. CASE ~Return(p)
    <3>1. /\ proc' = [proc EXCEPT ![p].pc = "draftRetry"] /\ proc[p].pc = "draftCommit"
          /\ proc[p].attempt < MaxAttempts /\ UNCHANGED job
      BY <1>3, <2>2 DEF DraftAbort, At
    <3>2. /\ TypeOK' /\ Moves(p) /\ proc'[p].pc = "draftRetry"
          /\ proc'[p].row = proc[p].row /\ proc'[p].attempt = proc[p].attempt
      BY <3>1 DEF TypeInv, TypeOK, Request, Pc, Moves
    <3> QED BY <3>1, <3>2, MoveKeepsTypes DEF TypeInv, Aimed
  <2> QED BY <2>1, <2>2
<1>4. ASSUME NEW p \in Proc, DraftRetry(p)
      PROVE  TypeInv'
  <2>1. /\ proc[p].row.token \in Intent /\ proc[p].row.span \in Span
        /\ proc[p].attempt + 1 \in 0..MaxAttempts
    BY <1>4 DEF DraftRetry, At, TypeInv, TypeOK, Retryable, Request, MaxAttempts
  <2>2. DraftOpen(p, Draft(proc[p].row.token, proc[p].row.span), proc[p].attempt + 1)
        /\ UNCHANGED job
    BY <1>4 DEF DraftRetry
  <2> QED BY <2>1, <2>2, DraftOpenFacts, MoveKeepsTypes DEF Idle
<1>5. ASSUME NEW p \in Proc, NEW i \in Intent, NEW s \in Span, DraftBegin(p, i, s)
      PROVE  TypeInv'
  <2>1. 1 \in 0..MaxAttempts
    BY DEF MaxAttempts
  <2> QED BY <1>5, <2>1, DraftOpenFacts, MoveKeepsTypes DEF DraftBegin, Idle
<1>6. ASSUME NEW p \in Proc, NEW k \in StaffKey, NEW team \in Team, NEW s \in Span,
             ManagerCreate(p, k, team, s)
      PROVE  TypeInv'
  BY <1>6, RowTypes, CreateOpenFacts, MoveKeepsTypes DEF ManagerCreate, Idle
<1>7. ASSUME NEW p \in Proc, NEW k \in StaffKey, NEW w \in Worker, NEW s \in Span,
             WorkerCreate(p, k, w, s)
      PROVE  TypeInv'
  <2> DEFINE row == Creation(k, [lead |-> w, crew |-> {w}], s)
  <2>2. row \in Row
    BY CreationType
  <2> HIDE DEF row
  <2>3. [Idle EXCEPT !.pc = "createSnapshot", !.row = row] \in Request
    BY <2>2, IdleType DEF Request, Pc
  <2>4. /\ proc' = [proc EXCEPT ![p] = [Idle EXCEPT !.pc = "createSnapshot", !.row = row]]
        /\ UNCHANGED job
    BY <1>7 DEF WorkerCreate, row
  <2>5. TypeOK' /\ Moves(p) /\ proc'[p].pc = "createSnapshot"
    BY <2>3, <2>4, IdleType DEF TypeInv, TypeOK, Moves, Request
  <2> QED BY <2>5, MoveKeepsTypes
<1>8. ASSUME NEW p \in Proc, WorkerCreateOpen(p)
      PROVE  TypeInv'
  <2>1. proc[p].row \in Row
    BY DEF TypeInv, TypeOK, Request
  <2> QED BY <1>8, <2>1, CreateOpenFacts, MoveKeepsTypes DEF WorkerCreateOpen, Idle
<1>9. ASSUME NEW p \in Proc, CreateAbort(p)
      PROVE  TypeInv'
  BY <1>9, ReturnFacts, MoveKeepsTypes DEF CreateAbort, TypeInv, Idle
<1>10. ASSUME NEW p \in Proc, Write(p)
       PROVE  TypeInv'
  BY <1>10, WriteFacts, WriteKeepsTypes
<1>11. ASSUME NEW p \in Proc, NEW j \in Job, NEW row \in Row, NEW cols \in SUBSET Column,
              Decide(p, j, row, cols)
       PROVE  TypeInv'
  BY <1>11, DecideFacts, MoveKeepsTypes
<1>12. ASSUME NEW p \in Proc, NEW j \in Job, NEW team \in Team, NEW s \in Span,
              NEW confirm \in BOOLEAN, ReviewBegin(p, j, team, s, confirm)
       PROVE  TypeInv'
  <2> DEFINE new == [job[j] EXCEPT !.lead = team.lead, !.crew = team.crew, !.span = s,
                                  !.status = IF confirm THEN "SCHEDULED" ELSE @]
             cols == Differing(job[j], new, {"lead", "span", "status"}) \cup {"crew"}
  <2>1. new \in Row
    BY StaffTypes DEF Row, JobStatus
  <2>2. cols \in SUBSET Column
    BY DEF Differing, Column
  <2>3. Decide(p, j, new, cols)
    BY <1>12 DEF ReviewBegin
  <2> QED BY <1>11, <2>1, <2>2, <2>3
<1>13. ASSUME NEW p \in Proc, NEW j \in Job, NEW team \in Team \cup {Kept(job[j])},
              NEW status \in EditStatus \cup {job[j].status}, EditBegin(p, j, team, status)
       PROVE  TypeInv'
  <2> DEFINE new == [job[j] EXCEPT !.lead = team.lead, !.crew = team.crew, !.status = status]
             cols == Differing(job[j], new, {"lead", "status"}) \cup
                     (IF \/ Kept(job[j]) = team
                         \/ job[j].lead = None /\ Assigned(job[j]) = team.crew
                      THEN {} ELSE {"crew"})
  <2>1. new \in Row
    <3>1. job[j].status \in JobStatus \cup {"none"}
      BY StaffTypes DEF Row
    <3>2. status \in JobStatus \cup {"none"}
      BY <3>1, ConstantsAssumption
    <3> QED BY <3>2, StaffTypes DEF Row
  <2>2. cols \in SUBSET Column
    BY DEF Differing, Column
  <2>3. Decide(p, j, new, cols)
    BY <1>13 DEF EditBegin
  <2> QED BY <1>11, <2>1, <2>2, <2>3
<1>14. ASSUME NEW p \in Proc, NEW j \in Job, NEW op \in DOMAIN StatusAfter,
              StatusBegin(p, j, op)
       PROVE  TypeInv'
  <2>1. [job[j] EXCEPT !.status = StatusAfter[op]] \in Row
    BY StaffTypes DEF Row, StatusAfter, JobStatus
  <2>2. {"status"} \in SUBSET Column
    BY DEF Column
  <2> QED BY <1>11, <1>14, <2>1, <2>2 DEF StatusBegin
<1>15. ASSUME NEW p \in Proc, NEW j \in Job, DeleteBegin(p, j)
       PROVE  TypeInv'
  <2>1. [job[j] EXCEPT !.deleted = TRUE] \in Row
    BY StaffTypes DEF Row
  <2>2. {"deleted"} \in SUBSET Column
    BY DEF Column
  <2> QED BY <1>11, <1>15, <2>1, <2>2 DEF DeleteBegin
<1>16. ASSUME NEW j \in Job, MarkPaid(j)
       PROVE  TypeInv'
  <2>1. [job[j] EXCEPT !.paid = TRUE] \in Row
    BY StaffTypes DEF Row
  <2> QED BY <1>16, <2>1, WriteKeepsTypes DEF MarkPaid
<1>17. CASE UNCHANGED vars
  BY <1>17 DEF vars, TypeInv, TypeOK, Retryable, Aimed
<1> QED BY <1>1, <1>2, <1>3, <1>4, <1>5, <1>6, <1>7, <1>8, <1>9, <1>10, <1>12, <1>13,
           <1>14, <1>15, <1>16, <1>17 DEF Next, DraftSteps

THEOREM TypeInvariant == Spec => []TypeInv
BY TypeInvInit, TypeInvStep, PTL DEF Spec

\* No sequence of drafts, creations and staff operations puts anything but a job
\* into a row or a request, and no draft counts more attempts than it has.
THEOREM TypeCorrect == Spec => []TypeOK
BY TypeInvariant, PTL DEF TypeInv

-----------------------------------------------------------------------------
(***************************************************************************)
(* CreationsNeverClash.  Three facts carry it.  A customer's row has no    *)
(* workers, and a draft about to be committed gives it none.  A creation   *)
(* that may still commit clashes with no row: its snapshot showed none,    *)
(* and clashing is mutual, so the commit of a clashing creation is one     *)
(* that each of the two reads of the other, and dooms it.  The staff only  *)
(* take jobs off the calendar.                                             *)
(***************************************************************************)
RowsInv ==
  \A j \in Job : /\ Assigned(job[j]) = job[j].crew
                 /\ job[j].token \notin StaffKey => job[j].crew = {}
DraftsInv ==
  \A p \in Proc : proc[p].pc \in {"draftWait", "draftCommit"} =>
    /\ proc[p].row.lead = None /\ proc[p].row.crew = {}
    /\ proc[p].cols = DraftColumns
    /\ proc[p].job # None /\ ~proc[p].doomed => job[proc[p].job].token \notin StaffKey
CreationsInv ==
  \A p \in Proc : proc[p].pc \in {"createSnapshot", "createCommit"} =>
    /\ Assigned(proc[p].row) = proc[p].row.crew
    /\ proc[p].row.token \in StaffKey
    /\ Blocks(proc[p].row)
    /\ proc[p].pc = "createCommit" =>
         /\ proc[p].job = None
         /\ ~proc[p].doomed =>
              \A j \in Job : ~Clash(job[j], proc[p].row.crew, proc[p].row.span)
WritesInv ==
  \A p \in Proc : proc[p].pc = "write" =>
    \/ proc[p].cols = {"status"} /\ proc[p].row.status \in {"DONE", "CANCELED"}
    \/ proc[p].cols = {"deleted"} /\ proc[p].row.deleted
CreationInv ==
  OnlyCreationsAssign =>
    RowsInv /\ DraftsInv /\ CreationsInv /\ WritesInv /\ WorkersNeverClash

LEMMA ClashSymmetric ==
  \A a, b \in Row :
    Blocks(a) /\ Clash(b, Assigned(a), a.span) => Blocks(b) /\ Clash(a, Assigned(b), b.span)
BY DEF Clash, Overlap

\* A row without workers clashes with nothing.
LEMMA NobodyClashes ==
  \A row, crew, span : (Assigned(row) = {} => ~Clash(row, crew, span)) /\ ~Clash(row, {}, span)
BY DEF Clash

\* A write that clashes with no row, and with no creation that it spares.
LEMMA WriteKeepsCalendar ==
  ASSUME TypeInv, CreationInv, OnlyCreationsAssign,
         NEW p, NEW j \in Job, NEW row \in Row, NEW serializable \in BOOLEAN,
         WriteRow(p, j, row, serializable),
         Assigned(row) = row.crew,
         row.token \notin StaffKey => row.crew = {},
         \A i \in Job \ {j} : Blocks(row) => ~Clash(job[i], Assigned(row), row.span),
         \A q \in Proc \ {p} :
           proc[q].pc = "createCommit" /\ ~proc[q].doomed /\ Spared(q, j, row, serializable)
             => ~Clash(row, proc[q].row.crew, proc[q].row.span)
  PROVE  CreationInv'
<1>1. /\ job \in [Job -> Row]
      /\ \A i \in Job : job'[i] = IF i = j THEN row ELSE job[i]
  <2>1. job' = [job EXCEPT ![j] = row]
    BY DEF WriteRow
  <2> QED BY <2>1 DEF TypeInv, TypeOK
<1>2. /\ p \in Proc => proc'[p].pc = "idle"
      /\ \A q \in Proc \ {p} :
           /\ proc'[q].pc = proc[q].pc
           /\ proc'[q].job = proc[q].job
           /\ proc'[q].row = proc[q].row
           /\ proc'[q].cols = proc[q].cols
           /\ ~proc'[q].doomed => ~proc[q].doomed /\ Spared(q, j, row, serializable)
  BY WriteRowFacts DEF TypeInv, Idle
<1>3. RowsInv'
  BY <1>1 DEF CreationInv, RowsInv, Assigned
<1>4. DraftsInv'
  <2> SUFFICES ASSUME NEW q \in Proc, proc'[q].pc \in {"draftWait", "draftCommit"}
               PROVE  /\ proc'[q].row.lead = None /\ proc'[q].row.crew = {}
                      /\ proc'[q].cols = DraftColumns
                      /\ proc'[q].job # None /\ ~proc'[q].doomed =>
                           job'[proc'[q].job].token \notin StaffKey
    BY DEF DraftsInv
  <2>1. q # p
    BY <1>2
  <2>2. proc[q].job \in Job \cup {None}
    BY DEF TypeInv, TypeOK, Request
  <2>3. ~proc'[q].doomed => proc[q].job # j
    BY <1>2, <2>1 DEF Spared, InSerializable
  <2> QED BY <1>1, <1>2, <2>1, <2>2, <2>3 DEF CreationInv, DraftsInv
<1>5. CreationsInv'
  <2> SUFFICES ASSUME NEW q \in Proc, proc'[q].pc \in {"createSnapshot", "createCommit"}
               PROVE  /\ Assigned(proc'[q].row) = proc'[q].row.crew
                      /\ proc'[q].row.token \in StaffKey
                      /\ Blocks(proc'[q].row)
                      /\ proc'[q].pc = "createCommit" =>
                           /\ proc'[q].job = None
                           /\ ~proc'[q].doomed => \A i \in Job :
                                ~Clash(job'[i], proc'[q].row.crew, proc'[q].row.span)
    BY DEF CreationsInv, Assigned, Blocks, Clash, Overlap
  <2>1. q # p
    BY <1>2
  <2>2. /\ proc[q].pc \in {"createSnapshot", "createCommit"} /\ proc'[q].row = proc[q].row
        /\ proc'[q].pc = proc[q].pc /\ proc'[q].job = proc[q].job
    BY <1>2, <2>1
  <2>3. ASSUME proc'[q].pc = "createCommit", ~proc'[q].doomed, NEW i \in Job
        PROVE  ~Clash(job'[i], proc[q].row.crew, proc[q].row.span)
    <3>1. ~Clash(row, proc[q].row.crew, proc[q].row.span)
      BY <1>2, <2>1, <2>3
    <3>2. ~Clash(job[i], proc[q].row.crew, proc[q].row.span)
      BY <1>2, <2>1, <2>3 DEF CreationInv, CreationsInv
    <3> QED BY <1>1, <3>1, <3>2
  <2> QED BY <2>2, <2>3 DEF CreationInv, CreationsInv
<1>6. WritesInv'
  BY <1>2 DEF CreationInv, WritesInv
<1>7. WorkersNeverClash'
  <2> SUFFICES ASSUME NEW i \in Job, NEW k \in Job, i # k, Blocks(job'[i])
               PROVE  ~Clash(job'[k], Assigned(job'[i]), job'[i].span)
    BY DEF WorkersNeverClash, Assigned, Blocks, Clash, Overlap
  <2>1. CASE i = j
    BY <1>1, <2>1
  <2>2. CASE k = j
    <3>1. job'[k] = row /\ job'[i] = job[i] /\ job[i] \in Row
      BY <1>1, <2>2
    <3>2. SUFFICES ASSUME Clash(row, Assigned(job[i]), job[i].span)
                   PROVE  FALSE
      BY <3>1
    <3>3. Blocks(row) /\ Clash(job[i], Assigned(row), row.span)
      BY <3>1, <3>2, ClashSymmetric
    <3> QED BY <2>2, <3>3
  <2>3. CASE i # j /\ k # j
    BY <1>1, <2>3 DEF CreationInv, WorkersNeverClash
  <2> QED BY <2>1, <2>2, <2>3
<1> QED BY <1>3, <1>4, <1>5, <1>6, <1>7 DEF CreationInv

\* A request that moves on by itself, to a state in which it is what it should be.
LEMMA MoveKeepsCalendar ==
  ASSUME TypeInv, CreationInv, OnlyCreationsAssign, NEW p \in Proc, Moves(p),
         proc'[p].pc \in {"draftWait", "draftCommit"} =>
           /\ proc'[p].row.lead = None /\ proc'[p].row.crew = {}
           /\ proc'[p].cols = DraftColumns
           /\ proc'[p].job # None /\ ~proc'[p].doomed =>
                job[proc'[p].job].token \notin StaffKey,
         proc'[p].pc \in {"createSnapshot", "createCommit"} =>
           /\ Assigned(proc'[p].row) = proc'[p].row.crew
           /\ proc'[p].row.token \in StaffKey
           /\ Blocks(proc'[p].row)
           /\ proc'[p].pc = "createCommit" =>
                /\ proc'[p].job = None
                /\ \A j \in Job : ~Clash(job[j], proc'[p].row.crew, proc'[p].row.span),
         proc'[p].pc = "write" =>
           \/ proc'[p].cols = {"status"} /\ proc'[p].row.status \in {"DONE", "CANCELED"}
           \/ proc'[p].cols = {"deleted"} /\ proc'[p].row.deleted
  PROVE  CreationInv'
<1>1. job' = job /\ \A q \in Proc \ {p} : proc'[q] = proc[q]
  BY DEF Moves
<1>2. RowsInv' /\ WorkersNeverClash'
  BY <1>1 DEF CreationInv, RowsInv, WorkersNeverClash, Assigned, Blocks, Clash, Overlap
<1>3. DraftsInv'
  BY <1>1 DEF CreationInv, DraftsInv
<1>4. CreationsInv'
  BY <1>1 DEF CreationInv, CreationsInv, Assigned, Blocks, Clash, Overlap
<1>5. WritesInv'
  BY <1>1 DEF CreationInv, WritesInv
<1> QED BY <1>2, <1>3, <1>4, <1>5 DEF CreationInv

LEMMA CreationInvInit == Init => CreationInv
<1> SUFFICES ASSUME Init PROVE CreationInv
  OBVIOUS
<1>1. /\ \A j \in Job : job[j] = Absent
      /\ \A p \in Proc : proc[p].pc = "idle"
  BY DEF Init, Idle
<1>2. Assigned(Absent) = {} /\ Absent.crew = {} /\ ~Blocks(Absent)
  BY DEF Absent, Assigned, Blocks, BLOCKING_STATUSES
<1>3. RowsInv /\ WorkersNeverClash
  BY <1>1, <1>2 DEF RowsInv, WorkersNeverClash
<1>4. DraftsInv /\ CreationsInv /\ WritesInv
  BY <1>1 DEF DraftsInv, CreationsInv, WritesInv
<1> QED BY <1>3, <1>4 DEF CreationInv

LEMMA DraftOpenKeepsCalendar ==
  ASSUME TypeInv, CreationInv, OnlyCreationsAssign, NEW p \in Proc, NEW i \in Intent,
         NEW s \in Span, NEW attempt \in 0..MaxAttempts,
         DraftOpen(p, Draft(i, s), attempt), UNCHANGED job
  PROVE  CreationInv'
<1>1. i \notin StaffKey
  BY ConstantsAssumption
<1>2. Moves(p)
  BY DraftOpenFacts
<1>3. CASE proc'[p] = Idle
  BY <1>2, <1>3, MoveKeepsCalendar DEF Idle
<1>4. CASE proc'[p] # Idle
  <2>1. /\ proc'[p].pc = "draftWait" /\ proc'[p].cols = DraftColumns
        /\ proc'[p].row.lead = None
        /\ \/ proc'[p].job = None /\ proc'[p].row.crew = {}
           \/ /\ proc'[p].job \in Job
              /\ job[proc'[p].job].token = i
              /\ proc'[p].row.crew = job[proc'[p].job].crew
    BY <1>4, DraftOpenFacts
  <2>2. proc'[p].row.crew = {}
    BY <1>1, <2>1 DEF CreationInv, RowsInv
  <2> QED BY <1>1, <1>2, <2>1, <2>2, MoveKeepsCalendar
<1> QED BY <1>3, <1>4

LEMMA CreateOpenKeepsCalendar ==
  ASSUME TypeInv, CreationInv, OnlyCreationsAssign, NEW p \in Proc, NEW row \in Row,
         Assigned(row) = row.crew, row.token \in StaffKey, Blocks(row),
         CreateOpen(p, row), UNCHANGED job
  PROVE  CreationInv'
<1>1. Moves(p)
  BY CreateOpenFacts
<1>2. CASE proc'[p] = Idle
  BY <1>1, <1>2, MoveKeepsCalendar DEF Idle
<1>3. CASE proc'[p] # Idle
  <2>1. /\ proc'[p].pc = "createCommit" /\ proc'[p].row = row /\ proc'[p].job = None
        /\ \A j \in Job : ~Clash(job[j], row.crew, row.span)
    BY <1>3, CreateOpenFacts DEF NoWorkerConflicts
  <2> QED BY <1>1, <2>1, MoveKeepsCalendar
<1> QED BY <1>2, <1>3

\* What a creation is to insert.
LEMMA CreationFacts ==
  ASSUME NEW k \in StaffKey, NEW s \in Span, NEW team,
         team.lead = None \/ team.lead \in team.crew
  PROVE  /\ Assigned(Creation(k, team, s)) = Creation(k, team, s).crew
         /\ Creation(k, team, s).token \in StaffKey
         /\ Blocks(Creation(k, team, s))
BY DEF Creation, Absent, Assigned, Blocks, BLOCKING_STATUSES

LEMMA DraftCommitStep ==
  ASSUME TypeInv, CreationInv, OnlyCreationsAssign, NEW p \in Proc, DraftCommit(p)
  PROVE  CreationInv'
<1>1. PICK j \in Job, row \in Row :
        /\ WriteRow(p, j, row, TRUE)
        /\ \/ proc[p].job = None /\ row = proc[p].row
           \/ proc[p].job = j /\ row = Merged(job[j], proc[p].cols, proc[p].row)
  BY CommitFacts DEF DraftCommit
<1>2. /\ proc[p].row.lead = None /\ proc[p].row.crew = {}
      /\ proc[p].cols = DraftColumns
      /\ proc[p].job # None => job[proc[p].job].token \notin StaffKey
  BY CommitFacts DEF DraftCommit, At, CreationInv, DraftsInv
<1>3. row.lead = None /\ row.crew = {}
  <2>1. CASE row = proc[p].row
    BY <1>2, <2>1
  <2>2. CASE proc[p].job = j /\ row = Merged(job[j], proc[p].cols, proc[p].row)
    <3>1. job[j].crew = {}
      BY <1>2, <2>2, ConstantsAssumption DEF CreationInv, RowsInv
    <3> QED BY <1>2, <2>2, <3>1 DEF Merged, DraftColumns, Column
  <2> QED BY <1>1, <2>1, <2>2
<1>4. Assigned(row) = {}
  BY <1>3 DEF Assigned
<1>5. \A crew, span : ~Clash(row, crew, span)
  BY <1>4, NobodyClashes
<1>6. \A i \in Job : ~Clash(job[i], Assigned(row), row.span)
  BY <1>4, NobodyClashes
<1> QED BY <1>1, <1>3, <1>4, <1>5, <1>6, WriteKeepsCalendar

LEMMA CreateCommitStep ==
  ASSUME TypeInv, CreationInv, OnlyCreationsAssign, NEW p \in Proc, CreateCommit(p)
  PROVE  CreationInv'
<1>1. /\ Assigned(proc[p].row) = proc[p].row.crew
      /\ proc[p].row.token \in StaffKey /\ proc[p].job = None
      /\ \A j \in Job : ~Clash(job[j], proc[p].row.crew, proc[p].row.span)
  BY CommitFacts DEF CreateCommit, At, CreationInv, CreationsInv
<1>2. PICK j \in Job, row \in Row : WriteRow(p, j, row, TRUE) /\ row = proc[p].row
  BY <1>1, CommitFacts, ConstantsAssumption DEF CreateCommit
<1>3. ASSUME NEW q \in Proc \ {p}, proc[q].pc = "createCommit", ~proc[q].doomed,
             Spared(q, j, row, TRUE)
      PROVE  ~Clash(row, proc[q].row.crew, proc[q].row.span)
  <2> SUFFICES ASSUME Clash(row, proc[q].row.crew, proc[q].row.span)
               PROVE  FALSE
    OBVIOUS
  <2>1. Assigned(proc[q].row) = proc[q].row.crew /\ Blocks(proc[q].row) /\ proc[q].row \in Row
    BY <1>3 DEF CreationInv, CreationsInv, TypeInv, TypeOK, Request
  <2>2. Clash(proc[q].row, row.crew, row.span)
    BY <1>1, <1>2, <2>1, ClashSymmetric
  <2>3. Reads(row, proc[q].row) /\ Reads(proc[q].row, row)
    BY <2>2 DEF Reads
  <2> QED BY <1>3, <2>3 DEF Spared, InSerializable
<1> QED BY <1>1, <1>2, <1>3, WriteKeepsCalendar

LEMMA WriteStep ==
  ASSUME TypeInv, CreationInv, OnlyCreationsAssign, NEW p \in Proc, Write(p)
  PROVE  CreationInv'
<1>1. PICK j \in Job, row \in Row :
        WriteRow(p, j, row, FALSE) /\ row = Merged(job[j], proc[p].cols, proc[p].row)
  BY WriteFacts
<1>2. \/ proc[p].cols = {"status"} /\ proc[p].row.status \in {"DONE", "CANCELED"}
      \/ proc[p].cols = {"deleted"} /\ proc[p].row.deleted
  BY DEF Write, At, CreationInv, WritesInv
<1>3. ~Blocks(row)
  BY <1>1, <1>2 DEF Merged, Column, Blocks, BLOCKING_STATUSES
<1>4. row.lead = job[j].lead /\ row.crew = job[j].crew /\ row.token = job[j].token
  BY <1>1, <1>2 DEF Merged, Column
<1>5. Assigned(row) = row.crew /\ (row.token \notin StaffKey => row.crew = {})
  BY <1>4 DEF CreationInv, RowsInv, Assigned
<1>6. \A crew, span : ~Clash(row, crew, span)
  BY <1>3 DEF Clash
<1> QED BY <1>1, <1>3, <1>5, <1>6, WriteKeepsCalendar

LEMMA MarkPaidStep ==
  ASSUME TypeInv, CreationInv, OnlyCreationsAssign, NEW j \in Job, MarkPaid(j)
  PROVE  CreationInv'
<1> DEFINE row == [job[j] EXCEPT !.paid = TRUE]
<1>1. job[j] \in Row /\ row \in Row
  BY StaffTypes DEF Row
<1>2. /\ row.status = job[j].status /\ row.span = job[j].span /\ row.lead = job[j].lead
      /\ row.crew = job[j].crew /\ row.deleted = job[j].deleted /\ row.token = job[j].token
  BY <1>1 DEF Row
<1>3. WriteRow(None, j, row, FALSE)
  BY DEF MarkPaid
<1> HIDE DEF row
<1>4. /\ Assigned(row) = Assigned(job[j]) /\ (Blocks(row) <=> Blocks(job[j]))
      /\ \A crew, span : Clash(row, crew, span) <=> Clash(job[j], crew, span)
  BY <1>2 DEF Assigned, Blocks, Clash
<1>5. Assigned(row) = row.crew /\ (row.token \notin StaffKey => row.crew = {})
  BY <1>2, <1>4 DEF CreationInv, RowsInv
<1>6. \A i \in Job \ {j} : Blocks(row) => ~Clash(job[i], Assigned(row), row.span)
  BY <1>2, <1>4 DEF CreationInv, WorkersNeverClash
<1>7. \A q \in Proc \ {None} : proc[q].pc = "createCommit" /\ ~proc[q].doomed
        => ~Clash(row, proc[q].row.crew, proc[q].row.span)
  BY <1>4 DEF CreationInv, CreationsInv
<1> QED BY <1>1, <1>3, <1>5, <1>6, <1>7, WriteKeepsCalendar

LEMMA CreationInvStep == TypeInv /\ CreationInv /\ [Next]_vars => CreationInv'
<1> SUFFICES ASSUME TypeInv, CreationInv, OnlyCreationsAssign, [Next]_vars
             PROVE  CreationInv'
  BY DEF CreationInv, OnlyCreationsAssign
<1>1. ASSUME NEW p \in Proc, DraftLock(p)
      PROVE  CreationInv'
  <2>1. /\ Moves(p) /\ proc'[p].pc = "draftCommit" /\ proc'[p].row = proc[p].row
        /\ proc'[p].cols = proc[p].cols /\ proc'[p].job = proc[p].job
        /\ proc'[p].doomed = proc[p].doomed /\ proc[p].pc = "draftWait"
    BY <1>1 DEF DraftLock, At, Moves, TypeInv, TypeOK, Request
  <2> QED BY <2>1, MoveKeepsCalendar DEF CreationInv, DraftsInv
<1>2. ASSUME NEW p \in Proc, DraftAbort(p)
      PROVE  CreationInv'
  <2>1. Moves(p) /\ (proc'[p] = Idle \/ proc'[p].pc = "draftRetry")
    BY <1>2, ReturnFacts DEF DraftAbort, TypeInv, TypeOK, Request, Moves
  <2> QED BY <2>1, MoveKeepsCalendar DEF Idle
<1>3. ASSUME NEW p \in Proc, DraftRetry(p)
      PROVE  CreationInv'
  <2>1. /\ proc[p].row.token \in Intent /\ proc[p].row.span \in Span
        /\ proc[p].attempt + 1 \in 0..MaxAttempts
    BY <1>3 DEF DraftRetry, At, TypeInv, TypeOK, Retryable, Request, MaxAttempts
  <2> QED BY <1>3, <2>1, DraftOpenKeepsCalendar DEF DraftRetry
<1>4. ASSUME NEW p \in Proc, NEW i \in Intent, NEW s \in Span, DraftBegin(p, i, s)
      PROVE  CreationInv'
  <2>1. 1 \in 0..MaxAttempts
    BY DEF MaxAttempts
  <2> QED BY <1>4, <2>1, DraftOpenKeepsCalendar DEF DraftBegin
<1>5. ASSUME NEW p \in Proc, NEW k \in StaffKey, NEW team \in Team, NEW s \in Span,
             ManagerCreate(p, k, team, s)
      PROVE  CreationInv'
  <2>1. team.lead = None \/ team.lead \in team.crew
    BY DEF Team
  <2>2. Creation(k, team, s) \in Row
    BY RowTypes
  <2> QED BY <1>5, <2>1, <2>2, CreationFacts, CreateOpenKeepsCalendar DEF ManagerCreate
<1>6. ASSUME NEW p \in Proc, NEW k \in StaffKey, NEW w \in Worker, NEW s \in Span,
             WorkerCreate(p, k, w, s)
      PROVE  CreationInv'
  <2> DEFINE team == [lead |-> w, crew |-> {w}]
             row == Creation(k, team, s)
  <2>1. Assigned(row) = row.crew /\ row.token \in StaffKey /\ Blocks(row)
    BY CreationFacts
  <2> HIDE DEF row
  <2>2. proc' = [proc EXCEPT ![p] = [Idle EXCEPT !.pc = "createSnapshot", !.row = row]]
    BY <1>6 DEF WorkerCreate, row
  <2>3. Moves(p) /\ proc'[p].pc = "createSnapshot" /\ proc'[p].row = row
    BY <1>6, <2>2, IdleType DEF WorkerCreate, Moves, TypeInv, TypeOK, Request
  <2> QED BY <2>1, <2>3, MoveKeepsCalendar
<1>7. ASSUME NEW p \in Proc, WorkerCreateOpen(p)
      PROVE  CreationInv'
  <2>1. proc[p].row \in Row
    BY DEF TypeInv, TypeOK, Request
  <2>2. /\ Assigned(proc[p].row) = proc[p].row.crew
        /\ proc[p].row.token \in StaffKey /\ Blocks(proc[p].row)
    BY <1>7 DEF WorkerCreateOpen, At, CreationInv, CreationsInv
  <2> QED BY <1>7, <2>1, <2>2, CreateOpenKeepsCalendar DEF WorkerCreateOpen
<1>8. ASSUME NEW p \in Proc, CreateAbort(p)
      PROVE  CreationInv'
  <2>1. Moves(p) /\ proc'[p] = Idle
    BY <1>8, ReturnFacts DEF CreateAbort, TypeInv
  <2> QED BY <2>1, MoveKeepsCalendar DEF Idle
<1>9. ASSUME NEW p \in Proc, NEW j \in Job, NEW op \in DOMAIN StatusAfter,
             StatusBegin(p, j, op)
      PROVE  CreationInv'
  <2> DEFINE row == [job[j] EXCEPT !.status = StatusAfter[op]]
  <2>1. StatusAfter[op] \in {"DONE", "CANCELED"}
    BY <1>9 DEF StatusBegin, StatusAfter, OnlyCreationsAssign
  <2>2. row \in Row /\ row.status = StatusAfter[op]
    BY <2>1, StaffTypes DEF Row, JobStatus
  <2>3. {"status"} \in SUBSET Column
    BY DEF Column
  <2>4. Decide(p, j, row, {"status"})
    BY <1>9 DEF StatusBegin
  <2> HIDE DEF row
  <2>5. /\ Moves(p) /\ proc'[p].pc = "write" /\ proc'[p].cols = {"status"}
        /\ proc'[p].row = Merged(Absent, {"status"}, row)
    BY <2>2, <2>3, <2>4, DecideFacts
  <2>6. proc'[p].row.status \in {"DONE", "CANCELED"}
    BY <2>1, <2>2, <2>5 DEF Merged, Column
  <2> QED BY <2>5, <2>6, MoveKeepsCalendar
<1>10. ASSUME NEW p \in Proc, NEW j \in Job, DeleteBegin(p, j)
       PROVE  CreationInv'
  <2> DEFINE row == [job[j] EXCEPT !.deleted = TRUE]
  <2>1. row \in Row /\ row.deleted
    BY StaffTypes DEF Row
  <2>2. {"deleted"} \in SUBSET Column
    BY DEF Column
  <2>3. Decide(p, j, row, {"deleted"})
    BY <1>10 DEF DeleteBegin
  <2> HIDE DEF row
  <2>4. /\ Moves(p) /\ proc'[p].pc = "write" /\ proc'[p].cols = {"deleted"}
        /\ proc'[p].row = Merged(Absent, {"deleted"}, row)
    BY <2>1, <2>2, <2>3, DecideFacts
  <2>5. proc'[p].row.deleted
    BY <2>1, <2>4 DEF Merged, Column
  <2> QED BY <2>4, <2>5, MoveKeepsCalendar
<1>11. ASSUME NEW p \in Proc, NEW j \in Job, NEW team, NEW s, NEW confirm,
              ReviewBegin(p, j, team, s, confirm) \/ EditBegin(p, j, team, s)
       PROVE  FALSE
  BY <1>11 DEF ReviewBegin, EditBegin, OnlyCreationsAssign
<1>12. CASE UNCHANGED vars
  BY <1>12 DEF vars, CreationInv, RowsInv, DraftsInv, CreationsInv, WritesInv,
               WorkersNeverClash, Assigned, Blocks, Clash, Overlap
<1> QED BY <1>1, <1>2, <1>3, <1>4, <1>5, <1>6, <1>7, <1>8, <1>9, <1>10, <1>11, <1>12,
           DraftCommitStep, CreateCommitStep, WriteStep, MarkPaidStep DEF Next, DraftSteps

\* Whatever creations, drafts, payments, completions, cancellations and deletions
\* run at once, staff creations never put a worker on two jobs at a time.
THEOREM CreationsCorrect == Spec => []CreationsNeverClash
<1>1. Spec => []CreationInv
  BY TypeInvariant, CreationInvInit, CreationInvStep, PTL DEF Spec
<1>2. CreationInv => CreationsNeverClash
  BY DEF CreationInv, CreationsNeverClash
<1> QED BY <1>1, <1>2, PTL

-----------------------------------------------------------------------------
(***************************************************************************)
(* PaidBookingsStay, with all operations of the staff.  A draft that may   *)
(* still commit rewrites a row that is unpaid: it was unpaid when the      *)
(* snapshot was taken, and the credit of a payment writes the row and so   *)
(* dooms the draft.  For the rows of new jobs: what is paid exists, what   *)
(* is inserted is unpaid, and the staff neither write paidAt nor make a    *)
(* row go away.                                                            *)
(***************************************************************************)
PaidExist == \A j \in Job : job[j].paid => Exists(j)
DraftsAreUnpaid ==
  \A p \in Proc : proc[p].pc \in {"draftWait", "draftCommit"} =>
    /\ proc[p].cols = DraftColumns
    /\ proc[p].row.status = "PENDING_CONFIRMATION"
    /\ proc[p].job = None => ~proc[p].row.paid
    /\ proc[p].job # None /\ ~proc[p].doomed => ~job[proc[p].job].paid
CreationsAreUnpaid ==
  \A p \in Proc : proc[p].pc \in {"createSnapshot", "createCommit"} =>
    ~proc[p].row.paid /\ proc[p].job = None
StaffKeepPaid ==
  \A p \in Proc : proc[p].pc = "write" =>
    "paid" \notin proc[p].cols /\ ("status" \in proc[p].cols => proc[p].row.status # "none")
PaidInv == PaidExist /\ DraftsAreUnpaid /\ CreationsAreUnpaid /\ StaffKeepPaid

LEMMA WriteKeepsPaid ==
  ASSUME TypeInv, PaidInv, NEW p, NEW j \in Job, NEW row \in Row,
         NEW serializable \in BOOLEAN, WriteRow(p, j, row, serializable),
         row.paid => row.status # "none"
  PROVE  PaidInv'
<1>1. job \in [Job -> Row] /\ \A i \in Job : job'[i] = IF i = j THEN row ELSE job[i]
  <2>1. job' = [job EXCEPT ![j] = row]
    BY DEF WriteRow
  <2> QED BY <2>1 DEF TypeInv, TypeOK
<1>2. /\ p \in Proc => proc'[p].pc = "idle"
      /\ \A q \in Proc \ {p} :
           /\ proc'[q].pc = proc[q].pc
           /\ proc'[q].job = proc[q].job
           /\ proc'[q].row = proc[q].row
           /\ proc'[q].cols = proc[q].cols
           /\ ~proc'[q].doomed => ~proc[q].doomed /\ Spared(q, j, row, serializable)
  BY WriteRowFacts DEF TypeInv, Idle
<1>3. PaidExist'
  BY <1>1 DEF PaidInv, PaidExist, Exists
<1>4. DraftsAreUnpaid'
  <2> SUFFICES ASSUME NEW q \in Proc, proc'[q].pc \in {"draftWait", "draftCommit"}
               PROVE  /\ proc'[q].cols = DraftColumns
                      /\ proc'[q].row.status = "PENDING_CONFIRMATION"
                      /\ proc'[q].job = None => ~proc'[q].row.paid
                      /\ proc'[q].job # None /\ ~proc'[q].doomed =>
                           ~job'[proc'[q].job].paid
    BY DEF DraftsAreUnpaid
  <2>1. q # p
    BY <1>2
  <2>2. proc[q].job \in Job \cup {None}
    BY DEF TypeInv, TypeOK, Request
  <2>3. ~proc'[q].doomed => proc[q].job # j
    BY <1>2, <2>1 DEF Spared, InSerializable
  <2> QED BY <1>1, <1>2, <2>1, <2>2, <2>3 DEF PaidInv, DraftsAreUnpaid
<1>5. CreationsAreUnpaid' /\ StaffKeepPaid'
  BY <1>2 DEF PaidInv, CreationsAreUnpaid, StaffKeepPaid
<1> QED BY <1>3, <1>4, <1>5 DEF PaidInv

LEMMA MoveKeepsPaid ==
  ASSUME TypeInv, PaidInv, NEW p \in Proc, Moves(p),
         proc'[p].pc \in {"draftWait", "draftCommit"} =>
           /\ proc'[p].cols = DraftColumns
           /\ proc'[p].row.status = "PENDING_CONFIRMATION"
           /\ proc'[p].job = None => ~proc'[p].row.paid
           /\ proc'[p].job # None /\ ~proc'[p].doomed => ~job[proc'[p].job].paid,
         proc'[p].pc \in {"createSnapshot", "createCommit"} =>
           ~proc'[p].row.paid /\ proc'[p].job = None,
         proc'[p].pc = "write" =>
           /\ "paid" \notin proc'[p].cols
           /\ "status" \in proc'[p].cols => proc'[p].row.status # "none"
  PROVE  PaidInv'
<1>1. job' = job /\ \A q \in Proc \ {p} : proc'[q] = proc[q]
  BY DEF Moves
<1>2. PaidExist'
  BY <1>1 DEF PaidInv, PaidExist, Exists
<1>3. DraftsAreUnpaid'
  BY <1>1 DEF PaidInv, DraftsAreUnpaid
<1>4. CreationsAreUnpaid' /\ StaffKeepPaid'
  BY <1>1 DEF PaidInv, CreationsAreUnpaid, StaffKeepPaid
<1> QED BY <1>2, <1>3, <1>4 DEF PaidInv

LEMMA PaidInvInit == Init => PaidInv
<1> SUFFICES ASSUME Init PROVE PaidInv
  OBVIOUS
<1>1. /\ \A j \in Job : job[j] = Absent
      /\ \A p \in Proc : proc[p].pc = "idle"
  BY DEF Init, Idle
<1>2. ~Absent.paid
  BY DEF Absent
<1> QED BY <1>1, <1>2 DEF PaidInv, PaidExist, DraftsAreUnpaid, CreationsAreUnpaid, StaffKeepPaid

\* DraftOpen refuses a paid booking.
LEMMA DraftOpenUnpaid ==
  ASSUME TypeInv, PaidInv, NEW p \in Proc, NEW i \in Intent, NEW s \in Span,
         NEW attempt \in 0..MaxAttempts,
         DraftOpen(p, Draft(i, s), attempt), UNCHANGED job
  PROVE  PaidInv'
<1>1. Moves(p)
  BY DraftOpenFacts
<1>2. CASE Return(p)
  <2>1. proc'[p] = Idle
    BY <1>2, ReturnFacts DEF TypeInv
  <2> QED BY <1>1, <2>1, MoveKeepsPaid DEF Idle
<1>3. CASE ~Return(p)
  <2> DEFINE draft == Draft(i, s)
  <2> DEFINE mine == {j \in Job : Exists(j) /\ job[j].token = draft.token}
  <2>0. draft.status = "PENDING_CONFIRMATION" /\ ~draft.paid
    BY DEF Draft, Absent
  <2>1. PICK j \in IF mine = {} THEN {None} ELSE mine :
          proc' = [proc EXCEPT ![p] =
            [Idle EXCEPT !.pc = "draftWait", !.job = j, !.cols = DraftColumns,
                         !.attempt = attempt,
                         !.row = IF j = None THEN draft
                                 ELSE Merged(job[j], DraftColumns, draft)]]
    BY <1>3, Zenon DEF DraftOpen
  <2>2. \A k \in mine : ~job[k].paid
    BY <1>3 DEF DraftOpen
  <2> DEFINE row == IF j = None THEN draft ELSE Merged(job[j], DraftColumns, draft)
  <2>3. j # None => ~job[j].paid
    BY <2>1, <2>2
  <2>4. row.status = "PENDING_CONFIRMATION" /\ (j = None => ~row.paid)
    BY <2>0 DEF Merged, DraftColumns, Column
  <2> HIDE DEF row
  <2>5. proc' = [proc EXCEPT ![p] =
          [Idle EXCEPT !.pc = "draftWait", !.job = j, !.cols = DraftColumns,
                       !.attempt = attempt, !.row = row]]
    BY <2>1 DEF row
  <2>6. /\ proc'[p].pc = "draftWait" /\ proc'[p].cols = DraftColumns
        /\ proc'[p].row = row /\ proc'[p].job = j
    BY <2>5, IdleType DEF TypeInv, TypeOK, Request
  <2> QED BY <1>1, <2>3, <2>4, <2>6, MoveKeepsPaid
<1> QED BY <1>2, <1>3

LEMMA CreateOpenUnpaid ==
  ASSUME TypeInv, PaidInv, NEW p \in Proc, NEW row \in Row, ~row.paid,
         CreateOpen(p, row), UNCHANGED job
  PROVE  PaidInv'
<1>1. Moves(p) /\ \/ proc'[p] = Idle
                  \/ /\ proc'[p].pc = "createCommit" /\ proc'[p].row = row
                     /\ proc'[p].job = None
  BY CreateOpenFacts
<1> QED BY <1>1, MoveKeepsPaid DEF Idle

\* What the staff decide.
LEMMA DecideKeepsPaid ==
  ASSUME TypeInv, PaidInv, NEW p \in Proc, NEW j \in Job, NEW row \in Row,
         NEW cols \in SUBSET (Column \ {"paid"}), row.status # "none",
         Decide(p, j, row, cols)
  PROVE  PaidInv'
<1>1. /\ Moves(p) /\ proc'[p].pc = "write" /\ proc'[p].cols = cols
      /\ proc'[p].row = Merged(Absent, cols, row)
  BY DecideFacts
<1>2. "status" \in cols => proc'[p].row.status # "none"
  BY <1>1 DEF Merged, Column
<1> QED BY <1>1, <1>2, MoveKeepsPaid

-----------------------------------------------------------------------------
(***************************************************************************)
(* The step that writes a row, and which.                                  *)
(***************************************************************************)
Only(j) == \A i \in Job \ {j} : job'[i] = job[i]

LEMMA WritesOnly ==
  ASSUME TypeInv, NEW p, NEW j \in Job, NEW row \in Row, NEW serializable \in BOOLEAN,
         WriteRow(p, j, row, serializable)
  PROVE  Only(j) /\ job'[j] = row
BY DEF WriteRow, TypeInv, TypeOK, Only

LEMMA CommitUnpaid ==
  ASSUME TypeInv, PaidInv, NEW p \in Proc, DraftCommit(p) \/ CreateCommit(p)
  PROVE  PaidInv' /\ \E j \in Job : ~job[j].paid /\ Only(j)
<1>1. ~proc[p].doomed
  BY CommitFacts DEF DraftCommit, CreateCommit
<1>2. PICK j \in Job, row \in Row :
        /\ WriteRow(p, j, row, TRUE)
        /\ \/ proc[p].job = None /\ ~Exists(j) /\ row = proc[p].row
           \/ proc[p].job = j /\ row = Merged(job[j], proc[p].cols, proc[p].row)
  BY CommitFacts DEF DraftCommit, CreateCommit
<1>3. CASE proc[p].job = None /\ ~Exists(j) /\ row = proc[p].row
  <2>1. ~row.paid
    BY <1>3 DEF DraftCommit, CreateCommit, At, PaidInv, DraftsAreUnpaid, CreationsAreUnpaid
  <2>2. ~job[j].paid
    BY <1>3 DEF PaidInv, PaidExist
  <2> QED BY <1>2, <2>1, <2>2, WriteKeepsPaid, WritesOnly
<1>4. CASE proc[p].job = j /\ row = Merged(job[j], proc[p].cols, proc[p].row)
  <2>1. proc[p].job # None
    BY <1>4, ConstantsAssumption
  <2>2. proc[p].cols = DraftColumns /\ ~job[j].paid
    BY <1>1, <1>4, <2>1 DEF DraftCommit, CreateCommit, At, PaidInv, DraftsAreUnpaid,
                           CreationsAreUnpaid
  <2>3. ~row.paid
    BY <1>4, <2>2 DEF Merged, DraftColumns, Column
  <2> QED BY <1>2, <2>2, <2>3, WriteKeepsPaid, WritesOnly
<1> QED BY <1>2, <1>3, <1>4

LEMMA WriteUnpaid ==
  ASSUME TypeInv, PaidInv, NEW p \in Proc, Write(p)
  PROVE  PaidInv' /\ proc[p].job \in Job /\ At(p, "write") /\ Only(proc[p].job)
<1>1. PICK j \in Job, row \in Row :
        /\ WriteRow(p, j, row, FALSE)
        /\ proc[p].job = j /\ row = Merged(job[j], proc[p].cols, proc[p].row)
  BY WriteFacts
<1>2. At(p, "write")
  BY DEF Write
<1>3. /\ "paid" \notin proc[p].cols
      /\ "status" \in proc[p].cols => proc[p].row.status # "none"
  BY <1>2 DEF At, PaidInv, StaffKeepPaid
<1>4. /\ row.paid = job[j].paid
      /\ row.status = job[j].status \/ row.status # "none"
  BY <1>1, <1>3 DEF Merged, Column
<1>5. row.paid => row.status # "none"
  BY <1>4 DEF PaidInv, PaidExist, Exists
<1>6. PaidInv'
  BY <1>1, <1>5, WriteKeepsPaid
<1>7. Only(j)
  <2>1. WriteRow(p, j, row, FALSE)
    BY <1>1
  <2>2. TypeInv /\ j \in Job /\ row \in Row /\ FALSE \in BOOLEAN
    OBVIOUS
  <2> QED BY <2>1, <2>2 DEF WriteRow, TypeInv, TypeOK, Only
<1>8. Only(proc[p].job) /\ proc[p].job \in Job
  BY <1>1, <1>7
<1> QED BY <1>2, <1>6, <1>8

LEMMA MarkPaidUnpaid ==
  ASSUME TypeInv, PaidInv, NEW j \in Job, MarkPaid(j)
  PROVE  /\ PaidInv' /\ Only(j)
         /\ job'[j].span = job[j].span /\ job'[j].lead = job[j].lead
         /\ job'[j].status = job[j].status
<1> DEFINE row == [job[j] EXCEPT !.paid = TRUE]
<1>1. /\ row \in Row /\ row.span = job[j].span /\ row.lead = job[j].lead
      /\ row.status = job[j].status
  BY StaffTypes DEF Row
<1>2. WriteRow(None, j, row, FALSE) /\ Exists(j)
  BY DEF MarkPaid
<1> HIDE DEF row
<1>3. row.status # "none"
  BY <1>1, <1>2 DEF Exists
<1> QED BY <1>1, <1>2, <1>3, WriteKeepsPaid, WritesOnly

\* The staff's decisions and the requests that only move on.
LEMMA StaffUnpaid ==
  ASSUME TypeInv, PaidInv, NEW p \in Proc, NEW j \in Job,
         \/ \E team \in Team, s \in Span, confirm \in BOOLEAN :
              ReviewBegin(p, j, team, s, confirm)
         \/ \E team \in Team \cup {Kept(job[j])}, status \in EditStatus \cup {job[j].status} :
              EditBegin(p, j, team, status)
         \/ \E op \in DOMAIN StatusAfter : StatusBegin(p, j, op)
         \/ DeleteBegin(p, j)
  PROVE  PaidInv' /\ job' = job
<1>1. CASE \E team \in Team, s \in Span, confirm \in BOOLEAN :
             ReviewBegin(p, j, team, s, confirm)
  <2>1. PICK team \in Team, s \in Span, confirm \in BOOLEAN :
          ReviewBegin(p, j, team, s, confirm)
    BY <1>1
  <2> DEFINE new == [job[j] EXCEPT !.lead = team.lead, !.crew = team.crew, !.span = s,
                                  !.status = IF confirm THEN "SCHEDULED" ELSE @]
             cols == Differing(job[j], new, {"lead", "span", "status"}) \cup {"crew"}
  <2>2. new \in Row
    BY StaffTypes DEF Row, JobStatus
  <2>3. new.status # "none"
    BY <2>1, StaffTypes DEF ReviewBegin, Exists, Row
  <2>4. cols \in SUBSET (Column \ {"paid"})
    BY DEF Differing, Column
  <2>5. Decide(p, j, new, cols)
    BY <2>1 DEF ReviewBegin
  <2> HIDE DEF new, cols
  <2> QED BY <2>2, <2>3, <2>4, <2>5, DecideKeepsPaid DEF Decide
<1>2. CASE \E team \in Team \cup {Kept(job[j])}, status \in EditStatus \cup {job[j].status} :
             EditBegin(p, j, team, status)
  <2>1. PICK team \in Team \cup {Kept(job[j])}, status \in EditStatus \cup {job[j].status} :
          EditBegin(p, j, team, status)
    BY <1>2
  <2> DEFINE new == [job[j] EXCEPT !.lead = team.lead, !.crew = team.crew, !.status = status]
             cols == Differing(job[j], new, {"lead", "status"}) \cup
                     (IF \/ Kept(job[j]) = team
                         \/ job[j].lead = None /\ Assigned(job[j]) = team.crew
                      THEN {} ELSE {"crew"})
  <2>2. status \in JobStatus
    <3>1. job[j].status \in JobStatus
      BY <2>1, StaffTypes DEF EditBegin, Exists, Row
    <3> QED BY <3>1, ConstantsAssumption
  <2>3. new \in Row
    BY <2>2, StaffTypes DEF Row
  <2>4. new.status # "none"
    BY <2>2, StaffTypes DEF Row, JobStatus
  <2>5. cols \in SUBSET (Column \ {"paid"})
    BY DEF Differing, Column
  <2>6. Decide(p, j, new, cols)
    BY <2>1 DEF EditBegin
  <2> HIDE DEF new, cols
  <2> QED BY <2>3, <2>4, <2>5, <2>6, DecideKeepsPaid DEF Decide
<1>3. CASE \E op \in DOMAIN StatusAfter : StatusBegin(p, j, op)
  <2>1. PICK op \in DOMAIN StatusAfter : StatusBegin(p, j, op)
    BY <1>3
  <2> DEFINE new == [job[j] EXCEPT !.status = StatusAfter[op]]
  <2>2. StatusAfter[op] \in JobStatus /\ StatusAfter[op] # "none"
    BY DEF StatusAfter, JobStatus
  <2>3. new \in Row /\ new.status # "none"
    BY <2>2, StaffTypes DEF Row
  <2>4. {"status"} \in SUBSET (Column \ {"paid"})
    BY DEF Column
  <2>5. Decide(p, j, new, {"status"})
    BY <2>1 DEF StatusBegin
  <2> HIDE DEF new
  <2> QED BY <2>3, <2>4, <2>5, DecideKeepsPaid DEF Decide
<1>4. CASE DeleteBegin(p, j)
  <2> DEFINE new == [job[j] EXCEPT !.deleted = TRUE]
  <2>1. new \in Row /\ new.status # "none"
    BY <1>4, StaffTypes DEF DeleteBegin, Exists, Row
  <2>2. {"deleted"} \in SUBSET (Column \ {"paid"})
    BY DEF Column
  <2>3. Decide(p, j, new, {"deleted"})
    BY <1>4 DEF DeleteBegin
  <2> HIDE DEF new
  <2> QED BY <2>1, <2>2, <2>3, DecideKeepsPaid DEF Decide
<1> QED BY <1>1, <1>2, <1>3, <1>4

LEMMA OwnStepsUnpaid ==
  ASSUME TypeInv, PaidInv, NEW p \in Proc,
         \/ DraftLock(p) \/ DraftAbort(p) \/ DraftRetry(p)
         \/ WorkerCreateOpen(p) \/ CreateAbort(p)
         \/ \E i \in Intent, s \in Span : DraftBegin(p, i, s)
         \/ \E k \in StaffKey, team \in Team, s \in Span : ManagerCreate(p, k, team, s)
         \/ \E k \in StaffKey, w \in Worker, s \in Span : WorkerCreate(p, k, w, s)
  PROVE  PaidInv' /\ job' = job
<1>1. CASE DraftLock(p)
  <2>1. /\ Moves(p) /\ proc'[p].pc = "draftCommit" /\ proc'[p].row = proc[p].row
        /\ proc'[p].cols = proc[p].cols /\ proc'[p].job = proc[p].job
        /\ proc'[p].doomed = proc[p].doomed /\ proc[p].pc = "draftWait"
    BY <1>1 DEF DraftLock, At, Moves, TypeInv, TypeOK, Request
  <2> QED BY <2>1, MoveKeepsPaid DEF PaidInv, DraftsAreUnpaid, Moves
<1>2. CASE DraftAbort(p) \/ CreateAbort(p)
  <2>1. Moves(p) /\ (proc'[p] = Idle \/ proc'[p].pc = "draftRetry")
    BY <1>2, ReturnFacts DEF DraftAbort, CreateAbort, TypeInv, TypeOK, Request, Moves
  <2> QED BY <2>1, MoveKeepsPaid DEF Idle, Moves
<1>3. CASE DraftRetry(p)
  <2>1. /\ proc[p].row.token \in Intent /\ proc[p].row.span \in Span
        /\ proc[p].attempt + 1 \in 0..MaxAttempts
    BY <1>3 DEF DraftRetry, At, TypeInv, TypeOK, Retryable, Request, MaxAttempts
  <2> QED BY <1>3, <2>1, DraftOpenUnpaid DEF DraftRetry
<1>4. CASE \E i \in Intent, s \in Span : DraftBegin(p, i, s)
  <2>1. 1 \in 0..MaxAttempts
    BY DEF MaxAttempts
  <2> QED BY <1>4, <2>1, DraftOpenUnpaid DEF DraftBegin
<1>5. CASE WorkerCreateOpen(p)
  <2>1. proc[p].row \in Row /\ ~proc[p].row.paid
    BY <1>5 DEF WorkerCreateOpen, At, TypeInv, TypeOK, Request, PaidInv, CreationsAreUnpaid
  <2> QED BY <1>5, <2>1, CreateOpenUnpaid DEF WorkerCreateOpen
<1>6. CASE \E k \in StaffKey, team \in Team, s \in Span : ManagerCreate(p, k, team, s)
  <2>1. \A k \in StaffKey, team \in Team, s \in Span :
          Creation(k, team, s) \in Row /\ ~Creation(k, team, s).paid
    <3>1. \A k, team, s : ~Creation(k, team, s).paid
      BY DEF Creation, Absent
    <3> QED BY <3>1, RowTypes
  <2> QED BY <1>6, <2>1, CreateOpenUnpaid DEF ManagerCreate
<1>7. CASE \E k \in StaffKey, w \in Worker, s \in Span : WorkerCreate(p, k, w, s)
  <2>1. PICK k \in StaffKey, w \in Worker, s \in Span : WorkerCreate(p, k, w, s)
    BY <1>7
  <2> DEFINE row == Creation(k, [lead |-> w, crew |-> {w}], s)
  <2>2. ~row.paid
    BY DEF Creation, Absent
  <2> HIDE DEF row
  <2>3. proc' = [proc EXCEPT ![p] = [Idle EXCEPT !.pc = "createSnapshot", !.row = row]]
    BY <2>1 DEF WorkerCreate, row
  <2> DEFINE r == [Idle EXCEPT !.pc = "createSnapshot", !.row = row]
  <2>4. r.pc = "createSnapshot" /\ r.row = row /\ r.job = None
    BY DEF Idle
  <2> HIDE DEF r
  <2>5. proc' = [proc EXCEPT ![p] = r]
    BY <2>3 DEF r
  <2>6. /\ Moves(p) /\ proc'[p].pc = "createSnapshot" /\ proc'[p].row = row
        /\ proc'[p].job = None
    BY <2>1, <2>4, <2>5 DEF WorkerCreate, Moves, TypeInv, TypeOK
  <2> QED BY <2>2, <2>6, MoveKeepsPaid DEF Moves
<1> QED BY <1>1, <1>2, <1>3, <1>4, <1>5, <1>6, <1>7

-----------------------------------------------------------------------------
Stays(j) ==
  job[j].paid /\ (\/ job'[j].span # job[j].span
                 \/ job'[j].lead # job[j].lead
                 \/ job'[j].status # job[j].status)
    => \E p \in Proc : At(p, "write") /\ proc[p].job = j

LEMMA PaidStep ==
  TypeInv /\ PaidInv /\ [Next]_vars => PaidInv' /\ \A j \in Job : Stays(j)
<1> SUFFICES ASSUME TypeInv, PaidInv, [Next]_vars
             PROVE  PaidInv' /\ \A j \in Job : Stays(j)
  OBVIOUS
<1>1. ASSUME job' = job PROVE \A j \in Job : Stays(j)
  BY <1>1 DEF Stays
<1>2. ASSUME NEW p \in Proc, DraftCommit(p) \/ CreateCommit(p)
      PROVE  PaidInv' /\ \A j \in Job : Stays(j)
  BY <1>2, CommitUnpaid DEF Stays, Only
<1>3. ASSUME NEW p \in Proc, Write(p)
      PROVE  PaidInv' /\ \A j \in Job : Stays(j)
  BY <1>3, WriteUnpaid DEF Stays, Only
<1>4. ASSUME NEW j \in Job, MarkPaid(j)
      PROVE  PaidInv' /\ \A i \in Job : Stays(i)
  BY <1>4, MarkPaidUnpaid DEF Stays, Only
<1>5. CASE UNCHANGED vars
  BY <1>1, <1>5 DEF vars, PaidInv, PaidExist, Exists, DraftsAreUnpaid, CreationsAreUnpaid,
                    StaffKeepPaid
<1> QED BY <1>1, <1>2, <1>3, <1>4, <1>5, StaffUnpaid, OwnStepsUnpaid DEF Next, DraftSteps

\* A customer's repeated submission never moves a booking that is paid, or takes
\* its worker or its status away, at whatever moment the payment is credited:
\* only a write decided by the staff does.
THEOREM PaidStay == Spec => PaidBookingsStay
<1>1. TypeInv /\ PaidInv /\ [Next]_vars => PaidInv'
  BY PaidStep
<1>2. TypeInv /\ PaidInv /\ [Next]_vars =>
        [\A j \in Job :
          job[j].paid /\ (\/ job'[j].span # job[j].span
                         \/ job'[j].lead # job[j].lead
                         \/ job'[j].status # job[j].status)
          => \E p \in Proc : At(p, "write") /\ proc[p].job = j]_vars
  BY PaidStep DEF Stays
<1> QED BY <1>1, <1>2, PaidInvInit, TypeInvariant, PTL DEF Spec, PaidBookingsStay

-----------------------------------------------------------------------------
(***************************************************************************)
(* CapacityIsKept.  A draft that may still commit has room: at each moment *)
(* of its slot, fewer bookings are held than workers are available.  Its   *)
(* snapshot showed so, because a booking held by a customer has no primary *)
(* worker and is counted among the reservations; and the commit of another *)
(* draft, the only step that adds a booking, is one each of the two reads  *)
(* of the other, and dooms it.                                             *)
(***************************************************************************)
Held(t) == {j \in Job : IsPublic(job[j]) /\ Blocks(job[j]) /\ t \in job[j].span}
Available(t) == {w \in Worker : t \in Open[w]}

CapacityInv ==
  OnlyCreationsAssign =>
    /\ \A t \in UNION Span : Cardinality(Held(t)) <= Cardinality(Available(t))
    /\ \A j \in Job : IsPublic(job[j]) => job[j].lead = None
    /\ \A p \in Proc : proc[p].pc \in {"draftWait", "draftCommit"} /\ ~proc[p].doomed =>
         /\ proc[p].job # None => IsPublic(job[proc[p].job])
         /\ \A t \in proc[p].row.span : Cardinality(Held(t)) < Cardinality(Available(t))

LEMMA Counts ==
  \A t : /\ Cardinality(Held(t)) \in Nat /\ IsFiniteSet(Held(t))
         /\ Cardinality(Available(t)) \in Nat /\ IsFiniteSet(Available(t))
<1> SUFFICES ASSUME NEW t
             PROVE  /\ Cardinality(Held(t)) \in Nat /\ IsFiniteSet(Held(t))
                    /\ Cardinality(Available(t)) \in Nat /\ IsFiniteSet(Available(t))
  OBVIOUS
<1>1. Held(t) \in SUBSET Job /\ Available(t) \in SUBSET Worker
  BY DEF Held, Available
<1>2. IsFiniteSet(Job) /\ IsFiniteSet(Worker)
  BY ConstantsAssumption
<1>3. IsFiniteSet(Held(t)) /\ IsFiniteSet(Available(t))
  BY <1>1, <1>2, FS_Subset
<1> QED BY <1>3, FS_CardinalityType

\* What isCompanySlotBookable promises of every moment of a slot.
LEMMA BookableMeansRoom ==
  ASSUME NEW s, Bookable(s), \A j \in Job : IsPublic(job[j]) => job[j].lead = None,
         NEW t \in s
  PROVE  Cardinality(Held(t)) < Cardinality(Available(t))
<1> DEFINE free == {w \in Worker : Free(w, s)}
           reserved == Reservations(s)
<1>1. Held(t) \in SUBSET reserved
  BY DEF Held, Reservations, Overlap
<1>2. free \in SUBSET Available(t)
  BY DEF Free, Available
<1>3. IsFiniteSet(reserved)
  <2>1. reserved \in SUBSET Job
    BY DEF Reservations
  <2> QED BY <2>1, FS_Subset, ConstantsAssumption
<1>4. Cardinality(free) > Cardinality(reserved)
  BY DEF Bookable
<1> HIDE DEF free, reserved
<1>5. Cardinality(Held(t)) <= Cardinality(reserved)
  BY <1>1, <1>3, FS_Subset
<1>6. IsFiniteSet(free) /\ Cardinality(free) <= Cardinality(Available(t))
  BY <1>2, Counts, FS_Subset
<1>7. /\ Cardinality(free) \in Nat /\ Cardinality(reserved) \in Nat
      /\ Cardinality(Held(t)) \in Nat /\ Cardinality(Available(t)) \in Nat
  BY <1>3, <1>6, Counts, FS_CardinalityType
<1> QED BY <1>4, <1>5, <1>6, <1>7

LEMMA WriteSpares ==
  ASSUME TypeInv, NEW p, NEW j \in Job, NEW row \in Row, NEW serializable \in BOOLEAN,
         WriteRow(p, j, row, serializable)
  PROVE  /\ p \in Proc => proc'[p].pc = "idle"
         /\ \A q \in Proc \ {p} :
              /\ proc'[q].pc = proc[q].pc
              /\ proc'[q].job = proc[q].job
              /\ proc'[q].row = proc[q].row
              /\ ~proc'[q].doomed => ~proc[q].doomed /\ Spared(q, j, row, serializable)
BY WriteRowFacts DEF TypeInv, Idle

\* A write that books nothing for a customer.
LEMMA WriteKeepsCapacity ==
  ASSUME TypeInv, CapacityInv, OnlyCreationsAssign,
         NEW p, NEW j \in Job, NEW row \in Row, NEW serializable \in BOOLEAN,
         WriteRow(p, j, row, serializable),
         IsPublic(row) => row.lead = None,
         IsPublic(row) /\ Blocks(row) =>
           IsPublic(job[j]) /\ Blocks(job[j]) /\ row.span = job[j].span
  PROVE  CapacityInv'
<1>1. /\ job \in [Job -> Row]
      /\ \A i \in Job : job'[i] = IF i = j THEN row ELSE job[i]
  <2>1. job' = [job EXCEPT ![j] = row]
    BY DEF WriteRow
  <2> QED BY <2>1 DEF TypeInv, TypeOK
<1>0. /\ p \in Proc => proc'[p].pc = "idle"
      /\ \A q \in Proc \ {p} :
           /\ proc'[q].pc = proc[q].pc
           /\ proc'[q].job = proc[q].job
           /\ proc'[q].row = proc[q].row
           /\ ~proc'[q].doomed => ~proc[q].doomed /\ Spared(q, j, row, serializable)
  BY WriteSpares
<1>2. \A t : Held(t)' \in SUBSET Held(t)
  <2> SUFFICES ASSUME NEW t, NEW i \in Job, IsPublic(job'[i]), Blocks(job'[i]),
                      t \in job'[i].span
               PROVE  IsPublic(job[i]) /\ Blocks(job[i]) /\ t \in job[i].span
    BY DEF Held, IsPublic, Blocks
  <2> QED BY <1>1
<1>3. \A t : Cardinality(Held(t)') <= Cardinality(Held(t)) /\ Cardinality(Held(t)') \in Nat
  <2> SUFFICES ASSUME NEW t
               PROVE  /\ Cardinality(Held(t)') <= Cardinality(Held(t))
                      /\ Cardinality(Held(t)') \in Nat
    OBVIOUS
  <2>1. Held(t)' \in SUBSET Held(t)
    BY <1>2
  <2>2. IsFiniteSet(Held(t)') /\ Cardinality(Held(t)') <= Cardinality(Held(t))
    BY <2>1, Counts, FS_Subset
  <2> QED BY <2>2, FS_CardinalityType
<1>4. \A t \in UNION Span : Cardinality(Held(t)') <= Cardinality(Available(t))
  BY <1>3, Counts DEF CapacityInv
<1>5. \A i \in Job : IsPublic(job'[i]) => job'[i].lead = None
  BY <1>1 DEF CapacityInv
<1>6. ASSUME NEW q \in Proc, proc'[q].pc \in {"draftWait", "draftCommit"}, ~proc'[q].doomed
      PROVE  /\ proc'[q].job # None => IsPublic(job'[proc'[q].job])
             /\ \A t \in proc'[q].row.span : Cardinality(Held(t)') < Cardinality(Available(t))
  <2>1. q # p
    BY <1>0, <1>6
  <2>2. /\ proc'[q].pc = proc[q].pc /\ proc'[q].job = proc[q].job
        /\ proc'[q].row = proc[q].row /\ ~proc[q].doomed
        /\ Spared(q, j, row, serializable)
    BY <1>0, <1>6, <2>1
  <2>3. proc[q].job # j /\ proc[q].job \in Job \cup {None}
    BY <1>6, <2>2 DEF Spared, InSerializable, TypeInv, TypeOK, Request
  <2>4. /\ proc[q].job # None => IsPublic(job[proc[q].job])
        /\ \A t \in proc[q].row.span : Cardinality(Held(t)) < Cardinality(Available(t))
    BY <1>6, <2>2 DEF CapacityInv
  <2>5. proc[q].job # None => job'[proc[q].job] = job[proc[q].job]
    BY <1>1, <2>3
  <2>6. \A t \in proc[q].row.span : Cardinality(Held(t)') < Cardinality(Available(t))
    BY <1>3, <2>4, Counts
  <2> QED BY <2>2, <2>4, <2>5, <2>6
<1> QED BY <1>4, <1>5, <1>6 DEF CapacityInv, Held, Available, IsPublic

\* A request that moves on by itself.
LEMMA MoveKeepsCapacity ==
  ASSUME TypeInv, CapacityInv, NEW p \in Proc, Moves(p),
         proc'[p].pc \in {"draftWait", "draftCommit"} /\ ~proc'[p].doomed =>
           /\ proc'[p].job # None => IsPublic(job[proc'[p].job])
           /\ \A t \in proc'[p].row.span : Cardinality(Held(t)) < Cardinality(Available(t))
  PROVE  CapacityInv'
<1>1. job' = job /\ \A q \in Proc \ {p} : proc'[q] = proc[q]
  BY DEF Moves
<1>2. \A t : Held(t)' = Held(t)
  BY <1>1 DEF Held, IsPublic, Blocks
<1> SUFFICES ASSUME OnlyCreationsAssign
             PROVE  /\ \A t \in UNION Span : Cardinality(Held(t)') <= Cardinality(Available(t))
                    /\ \A j \in Job : IsPublic(job'[j]) => job'[j].lead = None
                    /\ \A q \in Proc : proc'[q].pc \in {"draftWait", "draftCommit"} /\ ~proc'[q].doomed =>
                         /\ proc'[q].job # None => IsPublic(job'[proc'[q].job])
                         /\ \A t \in proc'[q].row.span : Cardinality(Held(t)') < Cardinality(Available(t))
  BY DEF CapacityInv, Held, Available, IsPublic, OnlyCreationsAssign
<1>3. \A t \in UNION Span : Cardinality(Held(t)') <= Cardinality(Available(t))
  BY <1>2 DEF CapacityInv
<1>4. \A j \in Job : IsPublic(job'[j]) => job'[j].lead = None
  BY <1>1 DEF CapacityInv
<1>5. ASSUME NEW q \in Proc, proc'[q].pc \in {"draftWait", "draftCommit"}, ~proc'[q].doomed
      PROVE  /\ proc'[q].job # None => IsPublic(job'[proc'[q].job])
             /\ \A t \in proc'[q].row.span : Cardinality(Held(t)') < Cardinality(Available(t))
  <2>1. CASE q = p
    BY <1>1, <1>2, <1>5, <2>1
  <2>2. CASE q # p
    BY <1>1, <1>2, <1>5, <2>2 DEF CapacityInv
  <2> QED BY <2>1, <2>2
<1> QED BY <1>3, <1>4, <1>5

LEMMA DraftOpenKeepsCapacity ==
  ASSUME TypeInv, CapacityInv, OnlyCreationsAssign, NEW p \in Proc, NEW i \in Intent,
         NEW s \in Span, NEW attempt \in 0..MaxAttempts,
         DraftOpen(p, Draft(i, s), attempt), UNCHANGED job
  PROVE  CapacityInv'
<1>1. Moves(p)
  BY DraftOpenFacts
<1>2. CASE proc'[p] = Idle
  BY <1>1, <1>2, MoveKeepsCapacity DEF Idle
<1>3. CASE proc'[p] # Idle
  <2>1. /\ proc'[p].row.span = s
        /\ proc'[p].job # None => IsPublic(job[proc'[p].job])
    BY <1>3, DraftOpenFacts DEF IsPublic
  <2>2. proc[p] \in Request /\ proc \in [Proc -> Request]
    BY DEF TypeInv, TypeOK
  <2>3. ~Return(p)
    BY <1>3, <2>2 DEF Return
  <2>4. Draft(i, s).span = s
    BY DEF Draft, Absent
  <2>5. Bookable(s)
    BY <2>3, <2>4 DEF DraftOpen
  <2>6. \A t \in s : Cardinality(Held(t)) < Cardinality(Available(t))
    BY <2>5, BookableMeansRoom DEF CapacityInv
  <2> QED BY <1>1, <2>1, <2>6, MoveKeepsCapacity
<1> QED BY <1>2, <1>3

\* The one step that books: there was room, and no other draft that overlaps in
\* time with it can still commit.
LEMMA DraftCommitKeepsCapacity ==
  ASSUME TypeInv, CreationInv, CapacityInv, OnlyCreationsAssign, NEW p \in Proc,
         DraftCommit(p)
  PROVE  CapacityInv'
<1>1. PICK j \in Job, row \in Row :
        /\ WriteRow(p, j, row, TRUE)
        /\ \/ proc[p].job = None /\ row = proc[p].row
           \/ proc[p].job = j /\ row = Merged(job[j], proc[p].cols, proc[p].row)
  BY CommitFacts DEF DraftCommit
<1>2. /\ proc[p].pc = "draftCommit" /\ ~proc[p].doomed
      /\ proc[p].row.lead = None /\ proc[p].cols = DraftColumns
      /\ proc[p].row.token \in Intent
      /\ proc[p].row.span \in Span
  BY CommitFacts DEF DraftCommit, At, CreationInv, DraftsInv, TypeInv, Aimed
<1>3. /\ proc[p].job # None => IsPublic(job[proc[p].job])
      /\ \A t \in proc[p].row.span : Cardinality(Held(t)) < Cardinality(Available(t))
  BY <1>2 DEF CapacityInv
<1>4. row.lead = None /\ row.span = proc[p].row.span /\ IsPublic(row)
  <2>1. CASE proc[p].job = None /\ row = proc[p].row
    BY <1>2, <2>1 DEF IsPublic
  <2>2. CASE proc[p].job = j /\ row = Merged(job[j], proc[p].cols, proc[p].row)
    <3>1. IsPublic(job[j])
      BY <1>3, <2>2, ConstantsAssumption
    <3> QED BY <1>2, <2>2, <3>1 DEF Merged, DraftColumns, Column, IsPublic
  <2> QED BY <1>1, <2>1, <2>2
<1>5. /\ job \in [Job -> Row]
      /\ \A i \in Job : job'[i] = IF i = j THEN row ELSE job[i]
  <2>1. job' = [job EXCEPT ![j] = row]
    BY <1>1 DEF WriteRow
  <2> QED BY <2>1 DEF TypeInv, TypeOK
<1>6. /\ proc'[p].pc = "idle"
      /\ \A q \in Proc \ {p} :
           /\ proc'[q].pc = proc[q].pc
           /\ proc'[q].row = proc[q].row
           /\ ~proc'[q].doomed => Spared(q, j, row, TRUE)
  <2>1. /\ p \in Proc => proc'[p].pc = "idle"
        /\ \A q \in Proc \ {p} :
             /\ proc'[q].pc = proc[q].pc
             /\ proc'[q].job = proc[q].job
             /\ proc'[q].row = proc[q].row
             /\ ~proc'[q].doomed => ~proc[q].doomed /\ Spared(q, j, row, TRUE)
    BY <1>1, WriteSpares, Zenon
  <2> QED BY <2>1
<1>7. ASSUME NEW t \in UNION Span
      PROVE  Cardinality(Held(t)') <= Cardinality(Available(t))
  <2>1. CASE t \in row.span
    <3>1. Held(t)' \in SUBSET (Held(t) \cup {j})
      <4> SUFFICES ASSUME NEW i \in Job, IsPublic(job'[i]), Blocks(job'[i]),
                          t \in job'[i].span, i # j
                   PROVE  IsPublic(job[i]) /\ Blocks(job[i]) /\ t \in job[i].span
        BY DEF Held, IsPublic, Blocks
      <4> QED BY <1>5
    <3>2. /\ IsFiniteSet(Held(t) \cup {j})
          /\ Cardinality(Held(t) \cup {j}) <= Cardinality(Held(t)) + 1
      <4> DEFINE H == Held(t)
      <4>1. IsFiniteSet(H) /\ Cardinality(H) \in Nat
        BY Counts
      <4> HIDE DEF H
      <4>2. /\ IsFiniteSet(H \cup {j})
            /\ Cardinality(H \cup {j}) <= Cardinality(H) + 1
        <5>1. /\ IsFiniteSet(H \cup {j})
              /\ Cardinality(H \cup {j}) = IF j \in H THEN Cardinality(H) ELSE Cardinality(H) + 1
          BY <4>1, FS_AddElement, Zenon
        <5> QED BY <4>1, <5>1
      <4> QED BY <4>2 DEF H
    <3>3. IsFiniteSet(Held(t)') /\ Cardinality(Held(t)') <= Cardinality(Held(t) \cup {j})
      BY <3>1, <3>2, FS_Subset
    <3>4. Cardinality(Held(t)') \in Nat /\ Cardinality(Held(t) \cup {j}) \in Nat
      BY <3>2, <3>3, FS_CardinalityType
    <3>5. Cardinality(Held(t)) < Cardinality(Available(t))
      BY <1>3, <1>4, <2>1
    <3>6. Cardinality(Held(t)) \in Nat /\ Cardinality(Available(t)) \in Nat
      BY Counts
    <3> QED BY <3>2, <3>3, <3>4, <3>5, <3>6
  <2>2. CASE t \notin row.span
    <3>1. Held(t)' \in SUBSET Held(t)
      <4> SUFFICES ASSUME NEW i \in Job, IsPublic(job'[i]), Blocks(job'[i]),
                          t \in job'[i].span
                   PROVE  IsPublic(job[i]) /\ Blocks(job[i]) /\ t \in job[i].span
        BY DEF Held, IsPublic, Blocks
      <4> QED BY <1>5, <2>2
    <3>2. IsFiniteSet(Held(t)') /\ Cardinality(Held(t)') <= Cardinality(Held(t))
      BY <3>1, Counts, FS_Subset
    <3>3. Cardinality(Held(t)') \in Nat
      BY <3>2, FS_CardinalityType
    <3>4. Cardinality(Held(t)) <= Cardinality(Available(t))
      BY DEF CapacityInv
    <3> QED BY <3>2, <3>3, <3>4, Counts
  <2> QED BY <2>1, <2>2
<1>8. \A i \in Job : IsPublic(job'[i]) => job'[i].lead = None
  BY <1>4, <1>5 DEF CapacityInv
<1>9. \A q \in Proc : ~(proc'[q].pc \in {"draftWait", "draftCommit"} /\ ~proc'[q].doomed)
  <2> SUFFICES ASSUME NEW q \in Proc, proc'[q].pc \in {"draftWait", "draftCommit"},
                      ~proc'[q].doomed
               PROVE  FALSE
    OBVIOUS
  <2>1. q # p /\ proc[q].pc \in {"draftWait", "draftCommit"} /\ Spared(q, j, row, TRUE)
    BY <1>6
  <2>2. IsPublic(proc[q].row)
    BY <2>1 DEF TypeInv, Aimed, IsPublic
  <2> QED BY <1>4, <2>1, <2>2 DEF Spared, InSerializable, Reads
<1> QED BY <1>7, <1>8, <1>9 DEF CapacityInv, Held, Available, IsPublic

LEMMA CreateCommitKeepsCapacity ==
  ASSUME TypeInv, CreationInv, CapacityInv, OnlyCreationsAssign, NEW p \in Proc,
         CreateCommit(p)
  PROVE  CapacityInv'
<1>1. proc[p].row.token \in StaffKey /\ proc[p].job = None
  BY CommitFacts DEF CreateCommit, At, CreationInv, CreationsInv
<1>2. PICK j \in Job, row \in Row : WriteRow(p, j, row, TRUE) /\ row = proc[p].row
  BY <1>1, CommitFacts, ConstantsAssumption DEF CreateCommit
<1>3. ~IsPublic(row)
  BY <1>1, <1>2, ConstantsAssumption DEF IsPublic
<1> QED BY <1>2, <1>3, WriteKeepsCapacity

LEMMA StaffWriteKeepsCapacity ==
  ASSUME TypeInv, CreationInv, CapacityInv, OnlyCreationsAssign, NEW p \in Proc, Write(p)
  PROVE  CapacityInv'
<1>1. PICK j \in Job, row \in Row :
        WriteRow(p, j, row, FALSE) /\ row = Merged(job[j], proc[p].cols, proc[p].row)
  BY WriteFacts
<1>2. \/ proc[p].cols = {"status"} /\ proc[p].row.status \in {"DONE", "CANCELED"}
      \/ proc[p].cols = {"deleted"} /\ proc[p].row.deleted
  BY DEF Write, At, CreationInv, WritesInv
<1>3. ~Blocks(row)
  BY <1>1, <1>2 DEF Merged, Column, Blocks, BLOCKING_STATUSES
<1>4. row.lead = job[j].lead /\ row.token = job[j].token
  BY <1>1, <1>2 DEF Merged, Column
<1>5. IsPublic(row) => row.lead = None
  BY <1>4 DEF CapacityInv, IsPublic
<1> QED BY <1>1, <1>3, <1>5, WriteKeepsCapacity

LEMMA MarkPaidKeepsCapacity ==
  ASSUME TypeInv, CapacityInv, OnlyCreationsAssign, NEW j \in Job, MarkPaid(j)
  PROVE  CapacityInv'
<1> DEFINE row == [job[j] EXCEPT !.paid = TRUE]
<1>1. job[j] \in Row /\ row \in Row
  BY StaffTypes DEF Row
<1>2. /\ row.status = job[j].status /\ row.span = job[j].span /\ row.lead = job[j].lead
      /\ row.deleted = job[j].deleted /\ row.token = job[j].token
  BY <1>1 DEF Row
<1>3. WriteRow(None, j, row, FALSE)
  BY DEF MarkPaid
<1> HIDE DEF row
<1>4. IsPublic(row) => row.lead = None
  BY <1>2 DEF CapacityInv, IsPublic
<1>5. IsPublic(row) /\ Blocks(row) => IsPublic(job[j]) /\ Blocks(job[j]) /\ row.span = job[j].span
  BY <1>2 DEF IsPublic, Blocks
<1> QED BY <1>1, <1>3, <1>4, <1>5, WriteKeepsCapacity

LEMMA CapacityInvInit == Init => CapacityInv
<1> SUFFICES ASSUME Init PROVE CapacityInv
  OBVIOUS
<1>1. /\ \A j \in Job : job[j] = Absent
      /\ \A p \in Proc : proc[p].pc = "idle"
  BY DEF Init, Idle
<1>2. Absent.lead = None /\ Absent.span = {}
  BY DEF Absent
<1>3. \A t : Held(t) = {}
  BY <1>1, <1>2 DEF Held
<1>4. Cardinality({}) = 0
  BY FS_EmptySet
<1>5. \A t : Cardinality(Held(t)) <= Cardinality(Available(t))
  BY <1>3, <1>4, Counts
<1> QED BY <1>1, <1>2, <1>5 DEF CapacityInv

LEMMA CapacityInvStep == TypeInv /\ CreationInv /\ CapacityInv /\ [Next]_vars => CapacityInv'
<1> SUFFICES ASSUME TypeInv, CreationInv, CapacityInv, OnlyCreationsAssign, [Next]_vars
             PROVE  CapacityInv'
  BY DEF CapacityInv, OnlyCreationsAssign
<1>1. ASSUME NEW p \in Proc, DraftLock(p)
      PROVE  CapacityInv'
  <2>1. /\ Moves(p) /\ proc'[p].pc = "draftCommit" /\ proc'[p].row = proc[p].row
        /\ proc'[p].job = proc[p].job
        /\ proc'[p].doomed = proc[p].doomed /\ proc[p].pc = "draftWait"
    BY <1>1 DEF DraftLock, At, Moves, TypeInv, TypeOK, Request
  <2>2. ~proc[p].doomed =>
          /\ proc[p].job # None => IsPublic(job[proc[p].job])
          /\ \A t \in proc[p].row.span : Cardinality(Held(t)) < Cardinality(Available(t))
    BY <2>1 DEF CapacityInv
  <2> QED BY <2>1, <2>2, MoveKeepsCapacity
<1>2. ASSUME NEW p \in Proc, DraftAbort(p)
      PROVE  CapacityInv'
  <2>1. Moves(p) /\ (proc'[p] = Idle \/ proc'[p].pc = "draftRetry")
    BY <1>2, ReturnFacts DEF DraftAbort, TypeInv, TypeOK, Request, Moves
  <2> QED BY <2>1, MoveKeepsCapacity DEF Idle
<1>3. ASSUME NEW p \in Proc, DraftRetry(p)
      PROVE  CapacityInv'
  <2>1. /\ proc[p].row.token \in Intent /\ proc[p].row.span \in Span
        /\ proc[p].attempt + 1 \in 0..MaxAttempts
    BY <1>3 DEF DraftRetry, At, TypeInv, TypeOK, Retryable, Request, MaxAttempts
  <2> QED BY <1>3, <2>1, DraftOpenKeepsCapacity DEF DraftRetry
<1>4. ASSUME NEW p \in Proc, NEW i \in Intent, NEW s \in Span, DraftBegin(p, i, s)
      PROVE  CapacityInv'
  <2>1. 1 \in 0..MaxAttempts
    BY DEF MaxAttempts
  <2> QED BY <1>4, <2>1, DraftOpenKeepsCapacity DEF DraftBegin
<1>5. ASSUME NEW p \in Proc, NEW k \in StaffKey, NEW team \in Team, NEW s \in Span,
             ManagerCreate(p, k, team, s)
      PROVE  CapacityInv'
  <2>1. Creation(k, team, s) \in Row
    BY RowTypes
  <2>2. Moves(p) /\ (proc'[p] = Idle \/ proc'[p].pc = "createCommit")
    BY <1>5, <2>1, CreateOpenFacts DEF ManagerCreate
  <2> QED BY <2>2, MoveKeepsCapacity DEF Idle
<1>6. ASSUME NEW p \in Proc, NEW k \in StaffKey, NEW w \in Worker, NEW s \in Span,
             WorkerCreate(p, k, w, s)
      PROVE  CapacityInv'
  <2>1. Moves(p) /\ proc'[p].pc = "createSnapshot"
    BY <1>6, IdleType DEF WorkerCreate, Moves, TypeInv, TypeOK, Request
  <2> QED BY <2>1, MoveKeepsCapacity
<1>7. ASSUME NEW p \in Proc, WorkerCreateOpen(p)
      PROVE  CapacityInv'
  <2>1. proc[p].row \in Row
    BY DEF TypeInv, TypeOK, Request
  <2>2. Moves(p) /\ (proc'[p] = Idle \/ proc'[p].pc = "createCommit")
    BY <1>7, <2>1, CreateOpenFacts DEF WorkerCreateOpen
  <2> QED BY <2>2, MoveKeepsCapacity DEF Idle
<1>8. ASSUME NEW p \in Proc, CreateAbort(p)
      PROVE  CapacityInv'
  <2>1. Moves(p) /\ proc'[p] = Idle
    BY <1>8, ReturnFacts DEF CreateAbort, TypeInv
  <2> QED BY <2>1, MoveKeepsCapacity DEF Idle
<1>9. ASSUME NEW p \in Proc, NEW j \in Job, NEW op \in DOMAIN StatusAfter,
             StatusBegin(p, j, op)
      PROVE  CapacityInv'
  <2> DEFINE row == [job[j] EXCEPT !.status = StatusAfter[op]]
  <2>1. row \in Row
    BY StaffTypes DEF Row, StatusAfter, JobStatus
  <2>2. {"status"} \in SUBSET Column
    BY DEF Column
  <2>3. Decide(p, j, row, {"status"})
    BY <1>9 DEF StatusBegin
  <2> HIDE DEF row
  <2>4. Moves(p) /\ proc'[p].pc = "write"
    BY <2>1, <2>2, <2>3, DecideFacts
  <2> QED BY <2>4, MoveKeepsCapacity
<1>10. ASSUME NEW p \in Proc, NEW j \in Job, DeleteBegin(p, j)
       PROVE  CapacityInv'
  <2> DEFINE row == [job[j] EXCEPT !.deleted = TRUE]
  <2>1. row \in Row
    BY StaffTypes DEF Row
  <2>2. {"deleted"} \in SUBSET Column
    BY DEF Column
  <2>3. Decide(p, j, row, {"deleted"})
    BY <1>10 DEF DeleteBegin
  <2> HIDE DEF row
  <2>4. Moves(p) /\ proc'[p].pc = "write"
    BY <2>1, <2>2, <2>3, DecideFacts
  <2> QED BY <2>4, MoveKeepsCapacity
<1>11. ASSUME NEW p \in Proc, NEW j \in Job, NEW team, NEW s, NEW confirm,
              ReviewBegin(p, j, team, s, confirm) \/ EditBegin(p, j, team, s)
       PROVE  FALSE
  BY <1>11 DEF ReviewBegin, EditBegin, OnlyCreationsAssign
<1>12. CASE UNCHANGED vars
  BY <1>12 DEF vars, CapacityInv, Held, IsPublic, Blocks
<1> QED BY <1>1, <1>2, <1>3, <1>4, <1>5, <1>6, <1>7, <1>8, <1>9, <1>10, <1>11, <1>12,
           DraftCommitKeepsCapacity, CreateCommitKeepsCapacity, StaffWriteKeepsCapacity,
           MarkPaidKeepsCapacity DEF Next, DraftSteps

\* However many customers submit and submit again at once, and whatever the staff
\* create, complete, cancel or delete meanwhile, the customers never hold more
\* bookings of a moment than workers are available at it.
THEOREM CapacityCorrect == Spec => []CapacityIsKept
<1>1. Spec => []CreationInv
  BY TypeInvariant, CreationInvInit, CreationInvStep, PTL DEF Spec
<1>2. CapacityInv => CapacityIsKept
  BY DEF CapacityInv, CapacityIsKept, Held, Available
<1> QED BY <1>1, <1>2, TypeInvariant, CapacityInvInit, CapacityInvStep, PTL DEF Spec
=============================================================================
