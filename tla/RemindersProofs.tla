-------------------------- MODULE RemindersProofs --------------------------
(***************************************************************************)
(* Proofs about Reminders.  However requests, the worker, retries and      *)
(* deaths are interleaved, a row has one owner, the entry of the queue or  *)
(* the request that is to e-mail it: so it is sent once, and shown as sent *)
(* only if it was.  With requests served one at a time, what is shown as   *)
(* scheduled is in the queue, for the job as it is now.                    *)
(***************************************************************************)
EXTENDS Reminders, WellFoundedInduction, SequenceTheorems, TLAPS

Key == Job \X Reminder

\* The entries and the requests there can be with that many rows.
EntryRow(rows) ==
  [pc : EntryState, note : 0..rows, due : 0..MaxTime, attempts : 0..MAX_ATTEMPTS,
   stalls : 0..1, verdict : NotificationStatus]

ProcRow(rows) ==
  [pc : Pc, job : Job \cup {None}, schedule : BOOLEAN, seen : JobRow, now : 0..MaxTime,
   todo : Seq(Reminder), note : 0..rows, ok : BOOLEAN]

-----------------------------------------------------------------------------
(***************************************************************************)
(* The invariant that any number of requests keep                          *)
(***************************************************************************)

\* Kinds of reminder that a request is still to deal with.
IsTodo(todo) ==
  /\ todo \in Seq(Reminder) /\ todo # <<>>
  /\ \A i, j \in DOMAIN todo : todo[i] = todo[j] => i = j

Writing == {"add", "notAdded", "confirmSend", "confirmUpdate"}
HasRow(p) == proc[p].pc \in Writing

ProcIsAimed(p) ==
  /\ proc[p].pc # "idle" => proc[p].job \in Job
  /\ proc[p].pc \in {"create", "add", "notAdded"} => IsTodo(proc[p].todo)

\* The row of an entry is of the entry's job and kind, and that of a request is of
\* the request's.
EntryOwnsRow(k) ==
  Held(k) => /\ queue[k].note \in DOMAIN notification
             /\ notification[queue[k].note].job = k[1]
             /\ notification[queue[k].note].type = k[2]

ProcOwnsRow(p) ==
  HasRow(p) =>
    /\ proc[p].note \in DOMAIN notification
    /\ notification[proc[p].note].job = proc[p].job
    /\ proc[p].pc \in {"add", "notAdded"} =>
         notification[proc[p].note].type = Head(proc[p].todo)
    /\ \A q \in Proc : HasRow(q) /\ proc[q].note = proc[p].note => q = p
    /\ \A k \in Key : Held(k) => queue[k].note # proc[p].note

\* How often the row of an entry, and that of a request, has been e-mailed.
EntryIsCounted(k) ==
  /\ queue[k].pc \in {"delayed", "read", "load", "send"} =>
       sent[queue[k].note] <= workerDeaths
  /\ queue[k].pc = "settle" =>
       /\ queue[k].verdict # "QUEUED"
       /\ queue[k].verdict = "SENT" => sent[queue[k].note] > 0

ProcIsCounted(p) ==
  /\ proc[p].pc \in {"add", "confirmSend"} => sent[proc[p].note] = 0
  /\ proc[p].pc = "confirmUpdate" /\ proc[p].ok => sent[proc[p].note] > 0

RowIsCounted(n) ==
  /\ sent[n] <= 1 + workerDeaths
  /\ notification[n].status = "SENT" => sent[n] > 0

IInv ==
  /\ TypeOK
  /\ \A p \in Proc : ProcIsAimed(p) /\ ProcOwnsRow(p) /\ ProcIsCounted(p)
  /\ \A k \in Key : EntryOwnsRow(k) /\ EntryIsCounted(k)
  /\ \A n \in DOMAIN notification : RowIsCounted(n)

-----------------------------------------------------------------------------
(***************************************************************************)
(* What requests served one at a time keep                                 *)
(***************************************************************************)
OneAtATime == \A p, q \in Proc : p = q

KeyOf(n) == <<notification[n].job, notification[n].type>>
QueuedReminder(n) == notification[n].status = "QUEUED" /\ notification[n].type \in Reminder

\* A request that is still to cancel the row, or to queue it.
Minds(p, n) ==
  /\ proc[p].job = notification[n].job
  /\ \/ proc[p].pc = "mark"
     \/ proc[p].pc \in {"add", "notAdded"} /\ proc[p].note = n

RowIsMinded(n) ==
  QueuedReminder(n) /\ notification[n].job \notin died \cup overlapped =>
    \/ Held(KeyOf(n)) /\ queue[KeyOf(n)].note = n
    \/ \E p \in Proc : Minds(p, n)

\* A request finds no entry where it is about to add one.
WayIsClear(p) ==
  proc[p].pc # "idle" /\ proc[p].job \notin overlapped =>
    /\ proc[p].pc = "mark" => \A kind \in Reminder : ~Held(<<proc[p].job, kind>>)
    /\ proc[p].pc \in {"create", "add", "notAdded"} =>
         \A i \in DOMAIN proc[p].todo : ~Held(<<proc[p].job, proc[p].todo[i]>>)

\* What a request has seen of its job is so still.
ProcIsCurrent(p) ==
  /\ proc[p].schedule /\ proc[p].pc \in {"remove", "mark"} =>
       /\ proc[p].seen.status = job[proc[p].job].status
       /\ proc[p].seen.start = job[proc[p].job].start
  /\ proc[p].pc \in {"create", "add", "notAdded"} =>
       /\ job[proc[p].job].status = "SCHEDULED"
       /\ proc[p].seen.start = job[proc[p].job].start
  /\ proc[p].pc = "add" =>
       notification[proc[p].note].at = proc[p].seen.start - Offset[Head(proc[p].todo)]

Current == {"delayed", "read", "load", "send", "settle"}
EntryIsCurrent(k) ==
  /\ queue[k].pc \in Current
  /\ notification[queue[k].note].status = "QUEUED" /\ k[1] \notin died
  => \/ /\ job[k[1]].status = "SCHEDULED"
        /\ queue[k].due = job[k[1]].start - Offset[k[2]] \/ queue[k].attempts + queue[k].stalls > 0
     \/ \E p \in Proc : proc[p].job = k[1] /\ proc[p].pc \in {"find", "remove", "mark"}

OneInv ==
  /\ IInv
  /\ \A p \in Proc : WayIsClear(p) /\ ProcIsCurrent(p)
  /\ \A k \in Key : EntryIsCurrent(k)
  /\ \A n \in DOMAIN notification : RowIsMinded(n)
-----------------------------------------------------------------------------
(***************************************************************************)
(* Rows, entries and requests                                              *)
(***************************************************************************)
LEMMA Types ==
  ASSUME TypeOK
  PROVE  /\ Len(notification) \in Nat /\ DOMAIN notification = 1..Len(notification)
         /\ DOMAIN sent = 1..Len(notification)
         /\ \A n \in DOMAIN notification : notification[n] \in Notification /\ sent[n] \in Nat
         /\ queue \in [Key -> EntryRow(Len(notification))]
         /\ proc \in [Proc -> ProcRow(Len(notification))]
  BY DEF TypeOK, Key, EntryRow, ProcRow

LEMMA IdleRow == ASSUME NEW rows \in Nat PROVE Idle \in ProcRow(rows)
  <1>1. Absent \in JobRow
    BY DEF Absent, JobRow, JobStatus
  <1>2. <<>> \in Seq(Reminder)
    BY EmptySeq
  <1>3. 0 \in 0..MaxTime /\ 0 \in 0..rows
    BY ConstantsAssumption
  <1> QED BY <1>1, <1>2, <1>3 DEF Idle, ProcRow, Pc

LEMMA GoneRow == ASSUME NEW rows \in Nat PROVE Gone \in EntryRow(rows)
  BY ConstantsAssumption DEF Gone, EntryRow, EntryState, NotificationStatus

\* What is left of the kinds when the first has been dealt with.
LEMMA TodoGoesOn ==
  ASSUME NEW todo, IsTodo(todo)
  PROVE  /\ Head(todo) \in Reminder /\ Len(todo) \in Nat \ {0} /\ Tail(todo) \in Seq(Reminder)
         /\ DOMAIN todo = 1..Len(todo) /\ Head(todo) = todo[1]
         /\ Len(todo) # 1 => IsTodo(Tail(todo))
         /\ \A i \in DOMAIN Tail(todo) : /\ i + 1 \in DOMAIN todo
                                         /\ Tail(todo)[i] = todo[i + 1]
                                         /\ Tail(todo)[i] # Head(todo)
  <1>1. /\ todo \in Seq(Reminder) /\ todo # <<>>
        /\ \A i, j \in DOMAIN todo : todo[i] = todo[j] => i = j
    BY DEF IsTodo
  <1>2. /\ Head(todo) \in Reminder /\ Tail(todo) \in Seq(Reminder)
        /\ Len(Tail(todo)) = Len(todo) - 1
        /\ \A i \in 1..Len(Tail(todo)) : Tail(todo)[i] = todo[i + 1]
    BY <1>1, HeadTailProperties
  <1>3. /\ Len(todo) \in Nat /\ Len(todo) # 0
        /\ DOMAIN todo = 1..Len(todo) /\ Head(todo) = todo[1]
        /\ DOMAIN Tail(todo) = 1..Len(Tail(todo))
    BY <1>1, <1>2
  <1>4. \A i \in DOMAIN Tail(todo) : /\ i + 1 \in DOMAIN todo
                                     /\ Tail(todo)[i] = todo[i + 1]
                                     /\ Tail(todo)[i] # Head(todo)
    BY <1>1, <1>2, <1>3
  <1>5. ASSUME Len(todo) # 1 PROVE IsTodo(Tail(todo))
    <2>1. Tail(todo) # <<>>
      <3>1. Len(<<>>) = 0
        BY EmptySeq
      <3>2. Len(Tail(todo)) # 0
        BY <1>2, <1>3, <1>5
      <3> QED BY <3>1, <3>2
    <2>2. ASSUME NEW i \in DOMAIN Tail(todo), NEW j \in DOMAIN Tail(todo), Tail(todo)[i] = Tail(todo)[j]
          PROVE  i = j
      <3>1. todo[i + 1] = todo[j + 1] /\ i + 1 \in DOMAIN todo /\ j + 1 \in DOMAIN todo
        BY <1>4, <2>2
      <3>2. i + 1 = j + 1
        BY <1>1, <3>1
      <3>3. i \in Int /\ j \in Int
        BY <1>2, <1>3
      <3> QED BY <3>2, <3>3
    <2> QED BY <1>2, <2>1, <2>2 DEF IsTodo
  <1> QED BY <1>2, <1>3, <1>4, <1>5

LEMMA DefinitionsAreTodo == IsTodo(Definitions)
  BY ConstantsAssumption DEF IsTodo

-----------------------------------------------------------------------------
(***************************************************************************)
(* The variables that no row, entry or request is part of                  *)
(***************************************************************************)
RestIsTyped ==
  /\ job \in [Job -> JobRow]
  /\ failing \subseteq 1..Len(notification)
  /\ now \in 0..MaxTime /\ ops \in 0..MaxOps
  /\ died \subseteq Job /\ overlapped \subseteq Job /\ workerDeaths \in 0..MaxWorkerDeaths

\* A step that e-mails, or decides, no row but m, and adds rows that were not.
RowsKept(m) ==
  /\ notification' \in Seq(Notification)
  /\ sent' \in Seq(Nat) /\ Len(sent') = Len(notification')
  /\ Len(notification) <= Len(notification')
  /\ \A n \in DOMAIN notification :
       /\ notification'[n].job = notification[n].job
       /\ notification'[n].type = notification[n].type
       /\ n # m => sent'[n] = sent[n]
  /\ \A n \in DOMAIN notification' : RowIsCounted(n)'

LEMMA RowsUnchanged ==
  ASSUME IInv, UNCHANGED <<notification, sent>>, workerDeaths' >= workerDeaths,
         workerDeaths' \in Nat, NEW m
  PROVE  RowsKept(m)
  <1>1. \A n \in DOMAIN notification : RowIsCounted(n) /\ sent[n] \in Nat
    BY Types DEF IInv
  <1>2. workerDeaths \in Nat
    BY ConstantsAssumption DEF IInv, TypeOK
  <1>3. \A n \in DOMAIN notification' : RowIsCounted(n)'
    BY <1>1, <1>2 DEF RowIsCounted
  <1> QED BY <1>3 DEF IInv, TypeOK, RowsKept

LEMMA RowsSame ==
  ASSUME IInv, UNCHANGED <<notification, sent, workerDeaths>>, NEW m PROVE RowsKept(m)
  <1>1. workerDeaths \in Nat
    BY ConstantsAssumption DEF IInv, TypeOK
  <1> QED BY <1>1, RowsUnchanged

\* A row's status is written.
LEMMA StatusSet ==
  ASSUME IInv, NEW n \in DOMAIN notification, NEW status \in NotificationStatus,
         SetStatus(n, status), status = "SENT" => sent[n] > 0,
         UNCHANGED <<sent, workerDeaths>>, NEW m
  PROVE  /\ RowsKept(m) /\ Len(notification') = Len(notification)
         /\ DOMAIN notification' = DOMAIN notification
         /\ \A i \in DOMAIN notification :
              /\ notification'[i].at = notification[i].at
              /\ notification'[i].status = IF i = n THEN status ELSE notification[i].status
  <1> DEFINE row == [notification[n] EXCEPT !.status = status]
  <1>1. /\ Len(notification) \in Nat /\ DOMAIN notification = 1..Len(notification)
        /\ \A i \in DOMAIN notification : notification[i] \in Notification
        /\ notification \in Seq(Notification)
    BY Types DEF IInv, TypeOK
  <1>2. /\ row \in Notification /\ row.status = status /\ row.at = notification[n].at
        /\ row.job = notification[n].job /\ row.type = notification[n].type
    BY <1>1 DEF Notification
  <1>3. notification' = [notification EXCEPT ![n] = row]
    BY DEF SetStatus
  <1> HIDE DEF row
  <1>4. /\ notification' \in Seq(Notification) /\ Len(notification') = Len(notification)
        /\ notification'[n] = row
        /\ \A i \in DOMAIN notification : i # n => notification'[i] = notification[i]
        /\ DOMAIN notification' = DOMAIN notification
    BY <1>1, <1>2, <1>3, ExceptSeq
  <1>5. \A i \in DOMAIN notification : RowIsCounted(i)
    BY DEF IInv
  <1>6. \A i \in DOMAIN notification' : RowIsCounted(i)'
    BY <1>2, <1>4, <1>5 DEF RowIsCounted
  <1>7. Len(notification) <= Len(notification')
    BY <1>1, <1>4
  <1> QED BY <1>2, <1>4, <1>6, <1>7 DEF RowsKept, IInv, TypeOK

\* A row is written.
LEMMA RowAdded ==
  ASSUME IInv, NEW j \in Job, NEW type \in Reminder \cup {Confirmation}, NEW at \in 0..MaxTime,
         NewRow(j, type, at), UNCHANGED workerDeaths, NEW m
  PROVE  /\ RowsKept(m) /\ Len(notification') = Len(notification) + 1
         /\ DOMAIN notification' = 1..(Len(notification) + 1)
         /\ \A n \in DOMAIN notification :
              notification'[n] = notification[n] /\ sent'[n] = sent[n]
         /\ notification'[Len(notification) + 1]
              = [job |-> j, type |-> type, at |-> at, status |-> "QUEUED"]
         /\ sent'[Len(notification) + 1] = 0
  <1> DEFINE row == [job |-> j, type |-> type, at |-> at, status |-> "QUEUED"]
  <1>1. /\ Len(notification) \in Nat /\ DOMAIN notification = 1..Len(notification)
        /\ notification \in Seq(Notification)
        /\ sent \in Seq(Nat) /\ Len(sent) = Len(notification)
    BY Types DEF IInv, TypeOK
  <1>2. row \in Notification /\ row.status = "QUEUED"
    BY DEF Notification, NotificationStatus
  <1>3. notification' = Append(notification, row) /\ sent' = Append(sent, 0)
    BY DEF NewRow
  <1> HIDE DEF row
  <1>4. /\ notification' \in Seq(Notification) /\ Len(notification') = Len(notification) + 1
        /\ \A n \in 1..Len(notification) : notification'[n] = notification[n]
        /\ notification'[Len(notification) + 1] = row
    BY <1>1, <1>2, <1>3, AppendProperties
  <1>5. /\ sent' \in Seq(Nat) /\ Len(sent') = Len(sent) + 1
        /\ \A n \in 1..Len(sent) : sent'[n] = sent[n]
        /\ sent'[Len(sent) + 1] = 0
    BY <1>1, <1>3, AppendProperties
  <1>6. DOMAIN notification' = 1..(Len(notification) + 1)
    BY <1>1, <1>4
  <1>7. workerDeaths \in Nat /\ \A n \in DOMAIN notification : RowIsCounted(n)
    BY ConstantsAssumption DEF IInv, TypeOK
  <1>8. ASSUME NEW n \in DOMAIN notification' PROVE RowIsCounted(n)'
    <2>1. CASE n \in DOMAIN notification
      BY <1>1, <1>4, <1>5, <1>7, <2>1 DEF RowIsCounted
    <2>2. CASE n \notin DOMAIN notification
      <3>1. n = Len(notification) + 1
        BY <1>1, <1>6, <2>2
      <3> QED BY <1>1, <1>2, <1>4, <1>5, <1>7, <3>1 DEF RowIsCounted
    <2> QED BY <2>1, <2>2
  <1>9. Len(sent') = Len(notification') /\ Len(notification) <= Len(notification')
    BY <1>1, <1>4, <1>5
  <1> QED BY <1>1, <1>4, <1>5, <1>6, <1>8, <1>9 DEF RowsKept, row

\* A step of one entry, which keeps its row or goes.
LEMMA EntryKeeps ==
  ASSUME IInv, NEW k \in Key, NEW e \in EntryRow(Len(notification)), Held(k),
         queue' = [queue EXCEPT ![k] = e], UNCHANGED <<proc, workerDeaths>>,
         RowsKept(queue[k].note), Len(notification') = Len(notification),
         RestIsTyped',
         e.pc # "gone" => e.note = queue[k].note,
         e.pc \in {"delayed", "read", "load", "send"} => sent'[e.note] <= workerDeaths,
         e.pc = "settle" => /\ e.verdict # "QUEUED"
                            /\ e.verdict = "SENT" => sent'[e.note] > 0
  PROVE  IInv'
  <1> DEFINE m == queue[k].note
  <1>1. /\ Len(notification) \in Nat /\ DOMAIN notification = 1..Len(notification)
        /\ DOMAIN notification' = 1..Len(notification')
        /\ queue \in [Key -> EntryRow(Len(notification))]
        /\ proc \in [Proc -> ProcRow(Len(notification))]
    BY Types DEF IInv, RowsKept
  <1>2. /\ queue' \in [Key -> EntryRow(Len(notification'))]
        /\ queue'[k] = e /\ \A l \in Key \ {k} : queue'[l] = queue[l]
    BY <1>1
  <1>3. TypeOK'
    BY <1>1, <1>2 DEF TypeOK, RestIsTyped, RowsKept, Key, EntryRow, ProcRow
  <1>4. m \in DOMAIN notification /\ \A p \in Proc : HasRow(p) => proc[p].note # m
    BY DEF IInv, EntryOwnsRow, ProcOwnsRow
  <1>5. \A l \in Key : Held(l)' => Held(l) /\ queue'[l].note = queue[l].note
    BY <1>2 DEF Held
  <1>6. ASSUME NEW p \in Proc PROVE (ProcIsAimed(p) /\ ProcOwnsRow(p) /\ ProcIsCounted(p))'
    <2>1. ProcIsAimed(p) /\ ProcOwnsRow(p) /\ ProcIsCounted(p)
      BY DEF IInv
    <2>2. ProcIsAimed(p)'
      BY <2>1 DEF ProcIsAimed
    <2>3. ProcOwnsRow(p)'
      BY <1>1, <1>5, <2>1 DEF ProcOwnsRow, HasRow, RowsKept
    <2>4. ProcIsCounted(p)'
      <3>1. HasRow(p) => sent'[proc[p].note] = sent[proc[p].note]
        BY <1>4, <2>1 DEF RowsKept, ProcOwnsRow
      <3> QED BY <2>1, <3>1 DEF ProcIsCounted, HasRow, Writing
    <2> QED BY <2>2, <2>3, <2>4
  <1>7. ASSUME NEW l \in Key PROVE EntryOwnsRow(l)' /\ EntryIsCounted(l)'
    <2>1. EntryOwnsRow(l) /\ EntryIsCounted(l) /\ EntryOwnsRow(k)
      BY DEF IInv
    <2>2. EntryOwnsRow(l)'
      BY <1>1, <1>5, <2>1 DEF EntryOwnsRow, RowsKept
    <2>3. EntryIsCounted(l)'
      <3>1. CASE l = k
        BY <1>2, <3>1 DEF EntryIsCounted
      <3>2. CASE l # k
        <4>1. Held(l) => queue[l].note # m
          BY <2>1, <3>2 DEF EntryOwnsRow, Key
        <4>2. Held(l) => sent'[queue[l].note] = sent[queue[l].note]
          BY <2>1, <4>1 DEF RowsKept, EntryOwnsRow
        <4> QED BY <1>2, <2>1, <3>2, <4>2 DEF EntryIsCounted, Held
      <3> QED BY <3>1, <3>2
    <2> QED BY <2>2, <2>3
  <1> QED BY <1>3, <1>6, <1>7 DEF IInv, RowsKept

\* A step of one request, which keeps its row, writes one or needs none.
LEMMA RequestKeeps ==
  ASSUME IInv, NEW p \in Proc, NEW r \in ProcRow(Len(notification')),
         proc' = [proc EXCEPT ![p] = r], UNCHANGED <<queue, workerDeaths>>,
         NEW m \in Nat, RowsKept(m), m \in DOMAIN notification => HasRow(p) /\ m = proc[p].note,
         RestIsTyped',
         r.pc # "idle" => r.job \in Job,
         r.pc \in {"create", "add", "notAdded"} => IsTodo(r.todo),
         r.pc \in Writing =>
           /\ r.note \in DOMAIN notification' /\ notification'[r.note].job = r.job
           /\ r.pc \in {"add", "notAdded"} => notification'[r.note].type = Head(r.todo)
           /\ r.note \in DOMAIN notification => HasRow(p) /\ r.note = proc[p].note,
         r.pc \in {"add", "confirmSend"} => sent'[r.note] = 0,
         r.pc = "confirmUpdate" /\ r.ok => sent'[r.note] > 0
  PROVE  IInv'
  <1>1. /\ Len(notification) \in Nat /\ DOMAIN notification = 1..Len(notification)
        /\ Len(notification') \in Nat /\ Len(notification) <= Len(notification')
        /\ DOMAIN notification' = 1..Len(notification')
        /\ queue \in [Key -> EntryRow(Len(notification))]
        /\ proc \in [Proc -> ProcRow(Len(notification))]
    BY Types DEF IInv, RowsKept
  <1>2. 0..Len(notification) \subseteq 0..Len(notification')
    BY <1>1
  <1>3. queue \in [Key -> EntryRow(Len(notification'))]
    BY <1>1, <1>2 DEF EntryRow
  <1>4. proc \in [Proc -> ProcRow(Len(notification'))]
    BY <1>1, <1>2 DEF ProcRow
  <1>5. /\ proc' \in [Proc -> ProcRow(Len(notification'))]
        /\ proc'[p] = r /\ \A q \in Proc \ {p} : proc'[q] = proc[q]
    BY <1>4
  <1>6. TypeOK'
    BY <1>3, <1>5 DEF TypeOK, RestIsTyped, RowsKept, Key, EntryRow, ProcRow
  <1>7. DOMAIN notification \subseteq DOMAIN notification'
    BY <1>1
  <1>8. ASSUME NEW q \in Proc \ {p}, HasRow(q)
        PROVE  /\ proc[q].note \in DOMAIN notification
               /\ sent'[proc[q].note] = sent[proc[q].note]
               /\ r.pc \in Writing => r.note # proc[q].note
    <2>1. ProcOwnsRow(q)
      BY DEF IInv
    <2>2. proc[q].note \in DOMAIN notification /\ (HasRow(p) => proc[p].note # proc[q].note)
      BY <1>8, <2>1 DEF ProcOwnsRow
    <2> QED BY <2>2 DEF RowsKept
  <1>9. ASSUME NEW k \in Key, Held(k)
        PROVE  /\ queue[k].note \in DOMAIN notification
               /\ sent'[queue[k].note] = sent[queue[k].note]
               /\ r.pc \in Writing => r.note # queue[k].note
    <2>1. EntryOwnsRow(k) /\ ProcOwnsRow(p)
      BY DEF IInv
    <2>2. queue[k].note \in DOMAIN notification /\ (HasRow(p) => proc[p].note # queue[k].note)
      BY <1>9, <2>1 DEF ProcOwnsRow, EntryOwnsRow
    <2> QED BY <2>2 DEF RowsKept
  <1>10. ASSUME NEW q \in Proc PROVE (ProcIsAimed(q) /\ ProcOwnsRow(q) /\ ProcIsCounted(q))'
    <2>1. ProcIsAimed(q) /\ ProcOwnsRow(q) /\ ProcIsCounted(q)
      BY DEF IInv
    <2>2. CASE q = p
      <3>1. ProcIsAimed(p)'
        BY <1>5 DEF ProcIsAimed
      <3>2. ProcIsCounted(p)'
        BY <1>5 DEF ProcIsCounted
      <3>3. ProcOwnsRow(p)'
        BY <1>5, <1>8, <1>9 DEF ProcOwnsRow, HasRow, Held
      <3> QED BY <2>2, <3>1, <3>2, <3>3
    <2>3. CASE q # p
      <3>1. ProcIsAimed(q)'
        BY <1>5, <2>1, <2>3 DEF ProcIsAimed
      <3>2. ProcIsCounted(q)'
        BY <1>5, <1>8, <2>1, <2>3 DEF ProcIsCounted, HasRow, Writing
      <3>3. ProcOwnsRow(q)'
        BY <1>5, <1>7, <1>8, <2>1, <2>3 DEF ProcOwnsRow, HasRow, Held, RowsKept
      <3> QED BY <3>1, <3>2, <3>3
    <2> QED BY <2>2, <2>3
  <1>11. ASSUME NEW k \in Key PROVE EntryOwnsRow(k)' /\ EntryIsCounted(k)'
    <2>1. EntryOwnsRow(k) /\ EntryIsCounted(k)
      BY DEF IInv
    <2>2. EntryOwnsRow(k)'
      BY <1>7, <2>1 DEF EntryOwnsRow, Held, RowsKept
    <2>3. EntryIsCounted(k)'
      BY <1>9, <2>1 DEF EntryIsCounted, Held
    <2> QED BY <2>2, <2>3
  <1> QED BY <1>6, <1>10, <1>11 DEF IInv, RowsKept

\* A step of the whole queue that e-mails nothing.
LEMMA QueueKeeps ==
  ASSUME IInv, UNCHANGED <<notification, sent>>, RestIsTyped', workerDeaths' >= workerDeaths,
         queue' \in [Key -> EntryRow(Len(notification))],
         \A k \in Key : /\ Held(k)' => Held(k) /\ queue'[k].note = queue[k].note
                        /\ EntryIsCounted(k)',
         proc' \in [Proc -> ProcRow(Len(notification))],
         \A p \in Proc : /\ ProcIsAimed(p)'
                         /\ proc'[p].pc \in Writing => proc'[p] = proc[p]
  PROVE  IInv'
  <1>1. TypeOK'
    BY DEF IInv, TypeOK, RestIsTyped, Key, EntryRow, ProcRow
  <1>2. RowsKept(0)
    BY ConstantsAssumption, RowsUnchanged DEF RestIsTyped
  <1>3. ASSUME NEW p \in Proc PROVE ProcOwnsRow(p)' /\ ProcIsCounted(p)'
    <2>1. ProcOwnsRow(p) /\ ProcIsCounted(p)
      BY DEF IInv
    <2>2. ProcOwnsRow(p)'
      BY <2>1 DEF ProcOwnsRow, HasRow, Held
    <2>3. ProcIsCounted(p)'
      BY <2>1 DEF ProcIsCounted, Writing
    <2> QED BY <2>2, <2>3
  <1>4. ASSUME NEW k \in Key PROVE EntryOwnsRow(k)'
    <2>1. EntryOwnsRow(k)
      BY DEF IInv
    <2> QED BY <2>1 DEF EntryOwnsRow, Held
  <1> QED BY <1>1, <1>2, <1>3, <1>4 DEF IInv, RowsKept

-----------------------------------------------------------------------------
(***************************************************************************)
(* The steps of requests                                                   *)
(***************************************************************************)
LEMMA RestKept ==
  ASSUME IInv, Len(notification') \in Nat, Len(notification') >= Len(notification),
         UNCHANGED <<failing, now, died, overlapped, workerDeaths>>,
         job' \in [Job -> JobRow], ops' \in 0..MaxOps
  PROVE  RestIsTyped'
  BY Types DEF IInv, TypeOK, RestIsTyped

\* The record of a request that starts.
Started(pc, j, schedule) == [Idle EXCEPT !.pc = pc, !.job = j, !.schedule = schedule]

LEMMA RequestStarts ==
  ASSUME NEW rows \in Nat, NEW pc \in Pc, NEW j \in Job, NEW schedule \in BOOLEAN
  PROVE  /\ Started(pc, j, schedule) \in ProcRow(rows)
         /\ Started(pc, j, schedule).pc = pc
         /\ Started(pc, j, schedule).job = j
         /\ Started(pc, j, schedule).schedule = schedule
  <1>1. PICK i \in ProcRow(rows) : i = Idle
    BY IdleRow
  <1> DEFINE r == [i EXCEPT !.pc = pc, !.job = j, !.schedule = schedule]
  <1>2. r \in ProcRow(rows) /\ r.pc = pc /\ r.job = j /\ r.schedule = schedule
    BY DEF ProcRow
  <1>3. r = Started(pc, j, schedule)
    BY <1>1 DEF Started
  <1> HIDE DEF r
  <1> QED BY <1>2, <1>3

LEMMA ConfirmStarts ==
  ASSUME NEW rows \in Nat, NEW j \in Job
  PROVE  \E r \in ProcRow(rows) :
           /\ r = [Idle EXCEPT !.pc = "confirmCreate", !.job = j]
           /\ r.pc = "confirmCreate" /\ r.job = j
  <1>1. PICK i \in ProcRow(rows) : i = Idle
    BY IdleRow
  <1> DEFINE r == [i EXCEPT !.pc = "confirmCreate", !.job = j]
  <1>2. r \in ProcRow(rows) /\ r.pc = "confirmCreate" /\ r.job = j
    BY DEF ProcRow, Pc
  <1>3. r = [Idle EXCEPT !.pc = "confirmCreate", !.job = j]
    BY <1>1
  <1> HIDE DEF r
  <1> QED BY <1>2, <1>3

LEMMA CommitKeeps ==
  ASSUME IInv, NEW p \in Proc, NEW j \in Job, NEW row \in JobRow,
         NEW pc \in {"idle", "find", "remove"}, NEW schedule \in BOOLEAN,
         Commit(p, j, row, pc, schedule)
  PROVE  IInv'
  <1> DEFINE r == Started(pc, j, schedule)
  <1>1. r \in ProcRow(Len(notification)) /\ r.pc = pc /\ r.job = j
    BY RequestStarts, Types DEF IInv, Pc
  <1>2. RowsKept(0)
    BY RowsSame DEF Commit
  <1>3. job' \in [Job -> JobRow] /\ ops' \in 0..MaxOps
    BY ConstantsAssumption DEF Commit, IInv, TypeOK
  <1>4. RestIsTyped'
    BY <1>3, Types, RestKept DEF Commit, IInv
  <1>5. proc' = [proc EXCEPT ![p] = r] /\ UNCHANGED <<queue, workerDeaths, notification>>
    BY DEF Commit, Next1, Started
  <1> HIDE DEF r
  <1>6. 0 \notin DOMAIN notification
    BY Types DEF IInv
  <1> QED BY <1>1, <1>2, <1>4, <1>5, <1>6, RequestKeeps DEF Writing

LEMMA ChangesKeep ==
  ASSUME IInv, NEW p \in Proc, NEW j \in Job,
         \/ Complete(p, j) \/ Cancel(p, j) \/ Reopen(p, j) \/ Delete(p, j)
         \/ \E status \in EditStatus : Edit(p, j, status)
         \/ \E s \in Start :
              \/ Draft(p, j, s)
              \/ \E b \in BOOLEAN : Create(p, j, s, b) \/ Review(p, j, s, b)
  PROVE  IInv'
  <1>1. job[j] \in JobRow
    BY DEF IInv, TypeOK
  <1>2. ASSUME NEW status \in JobStatus
        PROVE  [job[j] EXCEPT !.status = status] \in JobRow
    BY <1>1 DEF JobRow
  <1>3. [job[j] EXCEPT !.deleted = TRUE] \in JobRow
    BY <1>1 DEF JobRow
  <1>4. ASSUME NEW s \in Start, NEW status \in JobStatus
        PROVE  [job[j] EXCEPT !.start = s, !.status = status] \in JobRow
    BY <1>1 DEF JobRow
  <1>5. ASSUME NEW s \in Start, NEW status \in JobStatus, NEW b \in BOOLEAN
        PROVE  [status |-> status, start |-> s, email |-> b, deleted |-> FALSE] \in JobRow
    BY DEF JobRow
  <1>6. CASE Complete(p, j)
    BY <1>2, <1>6, CommitKeeps DEF Complete, JobStatus
  <1>7. CASE Cancel(p, j)
    BY <1>2, <1>7, CommitKeeps DEF Cancel, JobStatus
  <1>8. CASE Reopen(p, j)
    BY <1>2, <1>8, CommitKeeps DEF Reopen, JobStatus
  <1>9. CASE Delete(p, j)
    BY <1>3, <1>9, CommitKeeps DEF Delete
  <1>10. ASSUME NEW status \in EditStatus, Edit(p, j, status) PROVE IInv'
    BY <1>2, <1>10, CommitKeeps, ConstantsAssumption DEF Edit
  <1>11. ASSUME NEW s \in Start, Draft(p, j, s) PROVE IInv'
    BY <1>5, <1>11, CommitKeeps DEF Draft, JobStatus
  <1>12. ASSUME NEW s \in Start, NEW b \in BOOLEAN, Create(p, j, s, b) PROVE IInv'
    BY <1>5, <1>12, CommitKeeps DEF Create, JobStatus
  <1>13. ASSUME NEW s \in Start, NEW b \in BOOLEAN, Review(p, j, s, b) PROVE IInv'
    <2>1. PICK row : row = [job[j] EXCEPT !.start = s,
                                          !.status = IF b THEN "SCHEDULED" ELSE @]
      OBVIOUS
    <2>2. row \in JobRow
      BY <1>1, <2>1 DEF JobRow, JobStatus
    <2> QED BY <1>13, <2>1, <2>2, CommitKeeps DEF Review
  <1> QED BY <1>6, <1>7, <1>8, <1>9, <1>10, <1>11, <1>12, <1>13

LEMMA ConfirmKeeps == ASSUME IInv, NEW p \in Proc, NEW j \in Job, Confirm(p, j) PROVE IInv'
  <1>1. PICK r \in ProcRow(Len(notification)) :
          r = [Idle EXCEPT !.pc = "confirmCreate", !.job = j] /\ r.pc = "confirmCreate" /\ r.job = j
    BY ConfirmStarts, Types DEF IInv
  <1>2. RowsKept(0) /\ 0 \notin DOMAIN notification
    BY RowsSame, Types DEF Confirm, IInv
  <1>3. job' \in [Job -> JobRow] /\ ops' \in 0..MaxOps
    BY ConstantsAssumption DEF Confirm, IInv, TypeOK
  <1>4. RestIsTyped'
    BY <1>3, Types, RestKept DEF Confirm, IInv
  <1>5. proc' = [proc EXCEPT ![p] = r] /\ UNCHANGED <<queue, workerDeaths, notification>>
    BY <1>1 DEF Confirm, Next1
  <1> QED BY <1>1, <1>2, <1>4, <1>5, RequestKeeps DEF Writing

\* A step of a request that leaves the rows, the queue and the jobs alone and needs no
\* row afterwards.
LEMMA PlainKeeps ==
  ASSUME IInv, NEW p \in Proc, NEW r \in ProcRow(Len(notification)),
         proc' = [proc EXCEPT ![p] = r],
         UNCHANGED <<job, notification, queue, failing, sent, now, ops, overlapped, workerDeaths>>,
         died' \subseteq Job,
         r.pc \notin Writing, r.pc # "idle" => r.job \in Job,
         r.pc = "create" => IsTodo(r.todo)
  PROVE  IInv'
  <1>1. RowsKept(0) /\ 0 \notin DOMAIN notification
    BY RowsSame, Types DEF IInv
  <1>2. RestIsTyped'
    BY DEF RestIsTyped, IInv, TypeOK
  <1> QED BY <1>1, <1>2, RequestKeeps DEF Writing

LEMMA FindKeeps == ASSUME IInv, NEW p \in Proc, Find(p) PROVE IInv'
  <1> DEFINE r == [proc[p] EXCEPT !.pc = "remove", !.seen = job[proc[p].job]]
  <1>1. proc[p] \in ProcRow(Len(notification)) /\ proc[p].job \in Job
    BY Types DEF IInv, ProcIsAimed, Find, At
  <1>2. job[proc[p].job] \in JobRow
    BY <1>1 DEF IInv, TypeOK
  <1>3. r \in ProcRow(Len(notification)) /\ r.pc = "remove" /\ r.job \in Job
    BY <1>1, <1>2 DEF ProcRow, Pc
  <1>4. proc' = [proc EXCEPT ![p] = r]
    BY DEF Find, Next1
  <1> HIDE DEF r
  <1> QED BY <1>3, <1>4, PlainKeeps DEF Find, IInv, TypeOK, Writing

LEMMA DieKeeps == ASSUME IInv, NEW p \in Proc, Die(p) PROVE IInv'
  <1>1. Idle \in ProcRow(Len(notification)) /\ Idle.pc = "idle"
    BY IdleRow, Types DEF IInv, Idle
  <1>2. died' \subseteq Job
    BY DEF Die, At, IInv, TypeOK, ProcIsAimed
  <1> QED BY <1>1, <1>2, PlainKeeps DEF Die, Next1, Writing

\* What a request goes on with after its mark.
LEMMA Marked ==
  ASSUME IInv, NEW p \in Proc, At(p, "mark"), AfterMark(p)
  PROVE  \E r \in ProcRow(Len(notification)) :
           /\ proc' = [proc EXCEPT ![p] = r]
           /\ r.pc \in {"idle", "create"}
           /\ r.pc = "create" =>
                /\ r.job = proc[p].job /\ r.seen = proc[p].seen /\ r.todo = Definitions
                /\ proc[p].schedule /\ proc[p].seen.status = "SCHEDULED"
  <1>1. proc[p] \in ProcRow(Len(notification)) /\ now \in 0..MaxTime
    BY Types DEF IInv, TypeOK
  <1>2. CASE proc[p].schedule /\ Wanted(proc[p].seen)
    <2> DEFINE r == [proc[p] EXCEPT !.pc = "create", !.now = now, !.todo = Definitions]
    <2>1. Definitions \in Seq(Reminder)
      BY ConstantsAssumption
    <2>2. /\ r \in ProcRow(Len(notification)) /\ r.pc = "create" /\ r.todo = Definitions
          /\ r.job = proc[p].job /\ r.seen = proc[p].seen
      BY <1>1, <2>1 DEF ProcRow, Pc
    <2>3. proc' = [proc EXCEPT ![p] = r]
      BY <1>2 DEF AfterMark, Next1
    <2>4. proc[p].seen.status = "SCHEDULED"
      BY <1>2 DEF Wanted
    <2> HIDE DEF r
    <2> QED BY <1>2, <2>2, <2>3, <2>4
  <1>3. CASE ~(proc[p].schedule /\ Wanted(proc[p].seen))
    <2>1. Idle \in ProcRow(Len(notification)) /\ Idle.pc = "idle"
      BY IdleRow, Types DEF IInv, Idle
    <2>2. proc' = [proc EXCEPT ![p] = Idle]
      BY <1>3 DEF AfterMark, Next1
    <2> QED BY <2>1, <2>2
  <1> QED BY <1>2, <1>3

\* What a request goes on with after a kind of reminder.
LEMMA ReminderDone ==
  ASSUME IInv, NEW p \in Proc, proc[p].pc \in {"create", "add", "notAdded"}
  PROVE  \E r \in ProcRow(Len(notification)) :
           /\ r = NextReminder(p)
           /\ r.pc \in {"idle", "create"}
           /\ r.pc = "create" =>
                /\ r.job = proc[p].job /\ r.seen = proc[p].seen
                /\ r.todo = Tail(proc[p].todo) /\ IsTodo(r.todo)
  <1>1. proc[p] \in ProcRow(Len(notification)) /\ IsTodo(proc[p].todo)
    BY Types DEF IInv, ProcIsAimed
  <1>2. CASE Len(proc[p].todo) = 1
    BY <1>2, IdleRow, Types DEF IInv, Idle, NextReminder
  <1>3. CASE Len(proc[p].todo) # 1
    <2> DEFINE r == [proc[p] EXCEPT !.pc = "create", !.todo = Tail(proc[p].todo)]
    <2>1. Tail(proc[p].todo) \in Seq(Reminder) /\ IsTodo(Tail(proc[p].todo))
      BY <1>1, <1>3, TodoGoesOn
    <2>2. /\ r \in ProcRow(Len(notification)) /\ r.pc = "create" /\ r.todo = Tail(proc[p].todo)
          /\ r.job = proc[p].job /\ r.seen = proc[p].seen
      BY <1>1, <2>1 DEF ProcRow, Pc
    <2>3. r = NextReminder(p)
      BY <1>3 DEF NextReminder
    <2> HIDE DEF r
    <2> QED BY <2>1, <2>2, <2>3
  <1> QED BY <1>2, <1>3

\* The entries after a removal, and what the request goes on with.
LEMMA Removed ==
  ASSUME IInv, NEW p \in Proc, Remove(p)
  PROVE  \E r \in ProcRow(Len(notification)) :
           /\ proc' = [proc EXCEPT ![p] = r]
           /\ r.pc = "mark" /\ r.job = proc[p].job /\ r.job \in Job
           /\ r.schedule = proc[p].schedule /\ r.seen = proc[p].seen
           /\ queue' \in [Key -> EntryRow(Len(notification))]
           /\ \A k \in Key : \/ queue'[k] = queue[k] /\ (k[1] = r.job => Active(k))
                             \/ queue'[k] = Gone /\ k[1] = r.job
           /\ r.job \notin overlapped' => \A k \in Key : k[1] = r.job => queue'[k] = Gone
           /\ overlapped \subseteq overlapped' /\ overlapped' \subseteq Job
  <1> DEFINE r == [proc[p] EXCEPT !.pc = "mark"]
             mine == {proc[p].job} \X Reminder
             free == {k \in mine : ~Active(k)}
  <1>1. /\ proc[p] \in ProcRow(Len(notification)) /\ proc[p].job \in Job
        /\ queue \in [Key -> EntryRow(Len(notification))]
        /\ Len(notification) \in Nat /\ overlapped \subseteq Job
    BY Types DEF IInv, TypeOK, ProcIsAimed, Remove, At
  <1>2. /\ r \in ProcRow(Len(notification)) /\ r.pc = "mark" /\ r.job = proc[p].job
        /\ r.schedule = proc[p].schedule /\ r.seen = proc[p].seen
    BY <1>1 DEF ProcRow, Pc
  <1>3. proc' = [proc EXCEPT ![p] = r]
    BY DEF Remove, Next1
  <1> HIDE DEF r
  <1>4. \A k \in Key : k \in mine <=> k[1] = proc[p].job
    BY DEF Key
  <1>5. /\ queue' \in [Key -> EntryRow(Len(notification))]
        /\ \A k \in Key : queue'[k] = IF k \in free THEN Gone ELSE queue[k]
    BY <1>1, GoneRow DEF Remove
  <1>6. \A k \in Key : \/ queue'[k] = queue[k] /\ (k[1] = r.job => Active(k))
                       \/ queue'[k] = Gone /\ k[1] = r.job
    BY <1>2, <1>4, <1>5
  <1>7. ASSUME r.job \notin overlapped', NEW k \in Key, k[1] = r.job PROVE queue'[k] = Gone
    <2>1. free = mine
      BY <1>2, <1>7 DEF Remove
    <2> QED BY <1>2, <1>4, <1>5, <1>7, <2>1
  <1>8. overlapped \subseteq overlapped' /\ overlapped' \subseteq Job
    BY <1>1 DEF Remove
  <1> QED BY <1>1, <1>2, <1>3, <1>5, <1>6, <1>7, <1>8

LEMMA RemoveKeeps == ASSUME IInv, NEW p \in Proc, Remove(p) PROVE IInv'
  <1>1. PICK r \in ProcRow(Len(notification)) :
           /\ proc' = [proc EXCEPT ![p] = r]
           /\ r.pc = "mark" /\ r.job \in Job
           /\ queue' \in [Key -> EntryRow(Len(notification))]
           /\ \A k \in Key : queue'[k] \in {queue[k], Gone}
           /\ overlapped' \subseteq Job
    BY Removed
  <1>2. /\ proc \in [Proc -> ProcRow(Len(notification))]
        /\ proc' \in [Proc -> ProcRow(Len(notification))]
        /\ proc'[p] = r /\ \A q \in Proc \ {p} : proc'[q] = proc[q]
    BY <1>1, Types DEF IInv
  <1>3. ASSUME NEW k \in Key
        PROVE  /\ Held(k)' => Held(k) /\ queue'[k].note = queue[k].note
               /\ EntryIsCounted(k)'
    <2>1. EntryIsCounted(k)
      BY DEF IInv
    <2>2. Gone.pc = "gone"
      BY DEF Gone
    <2>3. UNCHANGED <<sent, workerDeaths>>
      BY DEF Remove
    <2> QED BY <1>1, <2>1, <2>2, <2>3 DEF Held, EntryIsCounted
  <1>4. ASSUME NEW q \in Proc
        PROVE  /\ ProcIsAimed(q)'
               /\ proc'[q].pc \in Writing => proc'[q] = proc[q]
    <2>1. ProcIsAimed(q)
      BY DEF IInv
    <2> QED BY <1>1, <1>2, <2>1 DEF ProcIsAimed, Writing
  <1>5. RestIsTyped' /\ UNCHANGED <<notification, sent, workerDeaths>>
    BY <1>1 DEF Remove, IInv, TypeOK, RestIsTyped
  <1>6. workerDeaths' >= workerDeaths
    BY <1>5, ConstantsAssumption DEF IInv, TypeOK
  <1> QED BY <1>1, <1>2, <1>3, <1>4, <1>5, <1>6, QueueKeeps

\* The rows after a mark.
LEMMA MarkedRows ==
  ASSUME IInv, NEW p \in Proc, Mark(p), NEW m
  PROVE  /\ RowsKept(m) /\ Len(notification') = Len(notification)
         /\ DOMAIN notification' = DOMAIN notification
         /\ \A n \in DOMAIN notification :
              notification'[n].status =
                IF notification[n].job = proc[p].job /\ QueuedReminder(n)
                THEN "CANCELED" ELSE notification[n].status
  <1> DEFINE hit(n) == notification[n].job = proc[p].job /\ QueuedReminder(n)
             row(n) == IF hit(n) THEN [notification[n] EXCEPT !.status = "CANCELED"]
                       ELSE notification[n]
  <1>1. /\ Len(notification) \in Nat /\ DOMAIN notification = 1..Len(notification)
        /\ \A n \in DOMAIN notification : notification[n] \in Notification /\ RowIsCounted(n)
    BY Types DEF IInv, TypeOK
  <1>2. ASSUME NEW n \in DOMAIN notification
        PROVE  /\ row(n) \in Notification
               /\ row(n).job = notification[n].job /\ row(n).type = notification[n].type
               /\ row(n).status = IF hit(n) THEN "CANCELED" ELSE notification[n].status
    BY <1>1, <1>2 DEF Notification, NotificationStatus
  <1>3. notification' = [n \in DOMAIN notification |-> row(n)]
    BY DEF Mark, QueuedReminder
  <1> HIDE DEF row, hit
  <1>4. notification' \in [1..Len(notification) -> Notification]
    BY <1>1, <1>2, <1>3
  <1>5. notification' \in Seq(Notification) /\ Len(notification') = Len(notification)
    BY <1>1, <1>4
  <1>6. \A n \in DOMAIN notification : notification'[n] = row(n)
    BY <1>3
  <1>7. DOMAIN notification' = DOMAIN notification
    BY <1>3
  <1>8. UNCHANGED <<sent, workerDeaths>>
    BY DEF Mark
  <1>9. ASSUME NEW n \in DOMAIN notification' PROVE RowIsCounted(n)'
    BY <1>1, <1>2, <1>6, <1>7, <1>8 DEF RowIsCounted, hit
  <1>10. RowsKept(m)
    BY <1>1, <1>2, <1>5, <1>6, <1>8, <1>9 DEF RowsKept, IInv, TypeOK
  <1> QED BY <1>2, <1>5, <1>6, <1>7, <1>10 DEF hit

LEMMA MarkKeeps == ASSUME IInv, NEW p \in Proc, Mark(p) PROVE IInv'
  <1>1. PICK r \in ProcRow(Len(notification)) :
           /\ proc' = [proc EXCEPT ![p] = r]
           /\ r.pc \in {"idle", "create"}
           /\ r.pc = "create" => r.job = proc[p].job /\ r.todo = Definitions
    BY Marked DEF Mark
  <1>2. r.pc # "idle" => r.job \in Job /\ IsTodo(r.todo)
    BY <1>1, DefinitionsAreTodo DEF IInv, ProcIsAimed, Mark, At
  <1>3. RowsKept(0) /\ Len(notification') = Len(notification)
    BY MarkedRows
  <1>4. 0 \notin DOMAIN notification /\ Len(notification) \in Nat
    BY Types DEF IInv
  <1>5. RestIsTyped' /\ UNCHANGED <<queue, workerDeaths>>
    BY <1>3 DEF Mark, IInv, TypeOK, RestIsTyped
  <1> QED BY <1>1, <1>2, <1>3, <1>4, <1>5, RequestKeeps DEF Writing

LEMMA NotAddedKeeps == ASSUME IInv, NEW p \in Proc, NotAdded(p) PROVE IInv'
  <1>1. PICK r \in ProcRow(Len(notification)) :
           /\ proc' = [proc EXCEPT ![p] = r]
           /\ r.pc \in {"idle", "create"}
           /\ r.pc = "create" => r.job = proc[p].job /\ IsTodo(r.todo)
    BY ReminderDone DEF NotAdded, Next1, At
  <1>2. r.pc # "idle" => r.job \in Job /\ IsTodo(r.todo)
    BY <1>1 DEF IInv, ProcIsAimed, NotAdded, At
  <1>3. proc[p].note \in DOMAIN notification /\ "FAILED" \in NotificationStatus
    BY DEF IInv, ProcOwnsRow, HasRow, Writing, NotAdded, At, NotificationStatus
  <1>4. RowsKept(0) /\ Len(notification') = Len(notification)
    BY <1>3, StatusSet DEF NotAdded
  <1>5. 0 \notin DOMAIN notification /\ Len(notification) \in Nat
    BY Types DEF IInv
  <1>6. RestIsTyped' /\ UNCHANGED <<queue, workerDeaths>>
    BY <1>4 DEF NotAdded, IInv, TypeOK, RestIsTyped
  <1> QED BY <1>1, <1>2, <1>4, <1>5, <1>6, RequestKeeps DEF Writing

\* The kind of reminder that a request is about, and its time.
LEMMA ReminderAt ==
  ASSUME IInv, NEW p \in Proc, proc[p].pc \in {"create", "add", "notAdded"}
  PROVE  /\ proc[p].job \in Job /\ Head(proc[p].todo) \in Reminder
         /\ <<proc[p].job, Head(proc[p].todo)>> \in Key
         /\ Offset[Head(proc[p].todo)] \in Nat
         /\ proc[p].seen.start \in 0..MaxTime /\ proc[p].now \in 0..MaxTime
  <1>1. proc[p].job \in Job /\ Head(proc[p].todo) \in Reminder
    BY TodoGoesOn DEF IInv, ProcIsAimed
  <1>2. Offset[Head(proc[p].todo)] \in Nat \ {0}
    BY <1>1, ConstantsAssumption
  <1>3. proc[p].seen \in JobRow /\ proc[p].now \in 0..MaxTime
    BY Types DEF IInv, ProcRow
  <1>4. proc[p].seen.start \in 0..MaxTime
    <2>1. proc[p].seen.start \in Start \cup {0}
      BY <1>3 DEF JobRow
    <2>2. MaxTime \in Nat /\ Start \subseteq 0..MaxTime
      BY ConstantsAssumption
    <2>3. Start \cup {0} \subseteq 0..MaxTime
      BY <2>2
    <2> QED BY <2>1, <2>3
  <1> QED BY <1>1, <1>2, <1>3, <1>4 DEF Key

\* The record of a request that has written a row.
LEMMA RowWritten ==
  ASSUME IInv, NEW p \in Proc, NEW pc \in Pc,
         Next1(p, [proc[p] EXCEPT !.pc = pc, !.note = Len(notification) + 1])
  PROVE  \E s \in ProcRow(Len(notification) + 1) :
           /\ proc' = [proc EXCEPT ![p] = s]
           /\ s.pc = pc /\ s.note = Len(notification) + 1
           /\ s.job = proc[p].job /\ s.todo = proc[p].todo /\ s.seen = proc[p].seen
  <1>1. PICK rows \in Nat : rows = Len(notification)
    BY Types DEF IInv
  <1>2. PICK r \in ProcRow(rows) : r = proc[p]
    BY <1>1, Types DEF IInv
  <1> DEFINE s == [r EXCEPT !.pc = pc, !.note = rows + 1]
  <1>3. 0..rows \subseteq 0..(rows + 1) /\ rows + 1 \in 0..(rows + 1)
    OBVIOUS
  <1>4. r \in ProcRow(rows + 1)
    BY <1>3 DEF ProcRow
  <1>5. s \in ProcRow(rows + 1)
    BY <1>3, <1>4 DEF ProcRow
  <1>6. s.pc = pc /\ s.note = rows + 1 /\ s.job = r.job /\ s.todo = r.todo /\ s.seen = r.seen
    BY DEF ProcRow
  <1>7. proc' = [proc EXCEPT ![p] = s]
    BY <1>1, <1>2 DEF Next1
  <1> HIDE DEF s
  <1> QED BY <1>1, <1>2, <1>5, <1>6, <1>7

\* The row of a reminder, and what the request goes on with.
LEMMA ReminderCreated ==
  ASSUME IInv, NEW p \in Proc, CreateReminder(p)
  PROVE  \/ /\ UNCHANGED <<notification, sent>>
            /\ \E r \in ProcRow(Len(notification)) :
                 /\ proc' = [proc EXCEPT ![p] = r]
                 /\ r.pc \in {"idle", "create"}
                 /\ r.pc = "create" =>
                      /\ r.job = proc[p].job /\ r.seen = proc[p].seen
                      /\ r.todo = Tail(proc[p].todo) /\ IsTodo(r.todo)
         \/ LET kind == Head(proc[p].todo)
                at == proc[p].seen.start - Offset[kind]
            IN
            /\ at \in 0..MaxTime /\ NewRow(proc[p].job, kind, at)
            /\ \E r \in ProcRow(Len(notification) + 1) :
                 /\ proc' = [proc EXCEPT ![p] = r]
                 /\ r.pc = "add" /\ r.note = Len(notification) + 1
                 /\ r.job = proc[p].job /\ r.todo = proc[p].todo /\ r.seen = proc[p].seen
  <1> DEFINE kind == Head(proc[p].todo)
             at == proc[p].seen.start - Offset[kind]
  <1>1. Offset[kind] \in Nat /\ proc[p].seen.start \in 0..MaxTime /\ proc[p].now \in 0..MaxTime
    BY ReminderAt DEF CreateReminder, At
  <1>2. CASE at <= proc[p].now
    <2>1. Next1(p, NextReminder(p)) /\ UNCHANGED <<notification, sent>>
      BY <1>2 DEF CreateReminder
    <2> QED BY <2>1, ReminderDone DEF CreateReminder, At, Next1
  <1>3. CASE ~(at <= proc[p].now)
    <2>1. /\ NewRow(proc[p].job, kind, at)
          /\ Next1(p, [proc[p] EXCEPT !.pc = "add", !.note = Len(notification) + 1])
      BY <1>3 DEF CreateReminder
    <2>2. at \in 0..MaxTime
      BY <1>1, <1>3, ConstantsAssumption
    <2>3. Len(notification) \in Nat /\ proc[p] \in ProcRow(Len(notification)) /\ "add" \in Pc
      BY Types DEF IInv, Pc
    <2>4. \E r \in ProcRow(Len(notification) + 1) :
             /\ proc' = [proc EXCEPT ![p] = r]
             /\ r.pc = "add" /\ r.note = Len(notification) + 1
             /\ r.job = proc[p].job /\ r.todo = proc[p].todo /\ r.seen = proc[p].seen
      BY <2>1, <2>3, RowWritten
    <2> QED BY <2>1, <2>2, <2>4
  <1> QED BY <1>2, <1>3

LEMMA CreateReminderKeeps == ASSUME IInv, NEW p \in Proc, CreateReminder(p) PROVE IInv'
  <1> DEFINE kind == Head(proc[p].todo)
             at == proc[p].seen.start - Offset[kind]
  <1>a. proc[p].pc = "create" /\ UNCHANGED <<queue, workerDeaths>>
    BY DEF CreateReminder, At
  <1>b. /\ 0 \notin DOMAIN notification /\ Len(notification) \in Nat
        /\ DOMAIN notification = 1..Len(notification)
    BY Types DEF IInv
  <1>1. proc[p].job \in Job /\ kind \in Reminder /\ IsTodo(proc[p].todo)
    BY <1>a, ReminderAt DEF IInv, ProcIsAimed
  <1>2. ASSUME UNCHANGED <<notification, sent>>,
               NEW r \in ProcRow(Len(notification)),
               proc' = [proc EXCEPT ![p] = r],
               r.pc \in {"idle", "create"},
               r.pc = "create" => r.job = proc[p].job /\ IsTodo(r.todo)
        PROVE  IInv'
    BY <1>1, <1>2, PlainKeeps DEF CreateReminder, IInv, TypeOK, Writing
  <1>3. ASSUME at \in 0..MaxTime, NewRow(proc[p].job, kind, at),
               NEW r \in ProcRow(Len(notification) + 1),
               proc' = [proc EXCEPT ![p] = r],
               r.pc = "add", r.note = Len(notification) + 1,
               r.job = proc[p].job, r.todo = proc[p].todo
        PROVE  IInv'
    <2>1. /\ RowsKept(0) /\ Len(notification') = Len(notification) + 1
          /\ DOMAIN notification' = 1..(Len(notification) + 1)
          /\ notification'[Len(notification) + 1]
               = [job |-> proc[p].job, type |-> kind, at |-> at, status |-> "QUEUED"]
          /\ sent'[Len(notification) + 1] = 0
      BY <1>a, <1>1, <1>3, RowAdded
    <2>2. /\ r.note \in DOMAIN notification' /\ r.note \notin DOMAIN notification
          /\ notification'[r.note].job = r.job
          /\ notification'[r.note].type = Head(r.todo)
          /\ sent'[r.note] = 0
      BY <1>b, <1>3, <2>1
    <2>3. job' \in [Job -> JobRow] /\ ops' \in 0..MaxOps
      BY DEF CreateReminder, IInv, TypeOK
    <2>4. Len(notification') \in Nat /\ Len(notification') >= Len(notification)
      BY <1>b, <2>1
    <2>5. RestIsTyped'
      BY <2>3, <2>4, RestKept DEF CreateReminder
    <2>6. r \in ProcRow(Len(notification')) /\ r.job \in Job /\ IsTodo(r.todo) /\ 0 \in Nat
      BY <1>1, <1>3, <2>1
    <2> HIDE DEF kind, at
    <2> QED BY <1>a, <1>b, <1>3, <2>1, <2>2, <2>5, <2>6, RequestKeeps
  <1> QED BY <1>2, <1>3, ReminderCreated

\* The entry that a request adds, unless there is one.
NewEntry(p) ==
  [Gone EXCEPT !.pc = "delayed", !.note = proc[p].note, !.due = notification[proc[p].note].at]

LEMMA NewEntryRow ==
  ASSUME NEW p \in Proc, NEW rows \in Nat, proc[p].note \in 0..rows,
         notification[proc[p].note].at \in 0..MaxTime
  PROVE  /\ NewEntry(p) \in EntryRow(rows)
         /\ NewEntry(p).pc = "delayed" /\ NewEntry(p).note = proc[p].note
         /\ NewEntry(p).due = notification[proc[p].note].at
  <1>1. PICK g \in EntryRow(rows) : g = Gone
    BY GoneRow
  <1> DEFINE e == [g EXCEPT !.pc = "delayed", !.note = proc[p].note,
                            !.due = notification[proc[p].note].at]
  <1>2. /\ e \in EntryRow(rows) /\ e.pc = "delayed" /\ e.note = proc[p].note
        /\ e.due = notification[proc[p].note].at
    BY DEF EntryRow, EntryState
  <1>3. e = NewEntry(p)
    BY <1>1 DEF NewEntry
  <1> HIDE DEF e
  <1> QED BY <1>2, <1>3

LEMMA ReminderAdded ==
  ASSUME IInv, NEW p \in Proc, AddReminder(p)
  PROVE  LET k == <<proc[p].job, Head(proc[p].todo)>> IN
         /\ k \in Key /\ proc[p].note \in DOMAIN notification
         /\ notification[proc[p].note].job = k[1] /\ notification[proc[p].note].type = k[2]
         /\ NewEntry(p) \in EntryRow(Len(notification))
         /\ NewEntry(p).pc = "delayed" /\ NewEntry(p).note = proc[p].note
         /\ NewEntry(p).due = notification[proc[p].note].at
         /\ \E r \in ProcRow(Len(notification)) :
              /\ proc' = [proc EXCEPT ![p] = r]
              /\ \/ /\ queue' = IF Held(k) THEN queue ELSE [queue EXCEPT ![k] = NewEntry(p)]
                    /\ r.pc \in {"idle", "create"}
                    /\ r.pc = "create" =>
                         /\ r.job = proc[p].job /\ r.seen = proc[p].seen
                         /\ r.todo = Tail(proc[p].todo) /\ IsTodo(r.todo)
                 \/ /\ UNCHANGED queue
                    /\ r.pc = "notAdded" /\ r.note = proc[p].note
                    /\ r.job = proc[p].job /\ r.seen = proc[p].seen /\ r.todo = proc[p].todo
  <1> DEFINE k == <<proc[p].job, Head(proc[p].todo)>>
             n == proc[p].note
  <1>a. proc[p].pc = "add"
    BY DEF AddReminder, At
  <1>1. k \in Key /\ k[1] = proc[p].job /\ k[2] = Head(proc[p].todo)
    BY <1>a, ReminderAt
  <1>2. /\ n \in DOMAIN notification /\ notification[n].job = k[1]
        /\ notification[n].type = k[2]
    BY <1>a, <1>1 DEF IInv, ProcOwnsRow, HasRow, Writing
  <1>3. /\ NewEntry(p) \in EntryRow(Len(notification))
        /\ NewEntry(p).pc = "delayed" /\ NewEntry(p).note = proc[p].note
        /\ NewEntry(p).due = notification[proc[p].note].at
    <2>1. notification[n].at \in 0..MaxTime
      BY <1>2, Types DEF IInv, Notification
    <2>2. n \in 0..Len(notification)
      BY <1>2, Types DEF IInv
    <2> QED BY <2>1, <2>2, Types, NewEntryRow DEF IInv
  <1>4. proc[p] \in ProcRow(Len(notification))
    BY Types DEF IInv
  <1>5. CASE /\ queue' = IF Held(k) THEN queue
                         ELSE [queue EXCEPT ![k] = [Gone EXCEPT
                                 !.pc = "delayed", !.note = n, !.due = notification[n].at]]
             /\ Next1(p, NextReminder(p))
    <2>1. [Gone EXCEPT !.pc = "delayed", !.note = n, !.due = notification[n].at] = NewEntry(p)
      BY DEF NewEntry
    <2>2. queue' = IF Held(k) THEN queue ELSE [queue EXCEPT ![k] = NewEntry(p)]
      BY <1>5, <2>1
    <2>3. PICK r \in ProcRow(Len(notification)) :
            /\ r = NextReminder(p)
            /\ r.pc \in {"idle", "create"}
            /\ r.pc = "create" =>
                 /\ r.job = proc[p].job /\ r.seen = proc[p].seen
                 /\ r.todo = Tail(proc[p].todo) /\ IsTodo(r.todo)
      BY <1>a, ReminderDone
    <2>4. proc' = [proc EXCEPT ![p] = r]
      BY <1>5, <2>3 DEF Next1
    <2> HIDE DEF k, n
    <2> QED BY <1>1, <1>2, <1>3, <2>2, <2>3, <2>4 DEF k, n
  <1>6. CASE UNCHANGED queue /\ Next1(p, [proc[p] EXCEPT !.pc = "notAdded"])
    <2> DEFINE r == [proc[p] EXCEPT !.pc = "notAdded"]
    <2>1. /\ r \in ProcRow(Len(notification)) /\ r.pc = "notAdded" /\ r.note = proc[p].note
          /\ r.job = proc[p].job /\ r.seen = proc[p].seen /\ r.todo = proc[p].todo
      BY <1>4 DEF ProcRow, Pc
    <2>2. proc' = [proc EXCEPT ![p] = r]
      BY <1>6 DEF Next1
    <2> HIDE DEF r
    <2> QED BY <1>1, <1>2, <1>3, <1>6, <2>1, <2>2
  <1> QED BY <1>5, <1>6 DEF AddReminder

LEMMA AddReminderKeeps == ASSUME IInv, NEW p \in Proc, AddReminder(p) PROVE IInv'
  <1> DEFINE k == <<proc[p].job, Head(proc[p].todo)>>
             n == proc[p].note
  <1>a. /\ proc[p].pc = "add" /\ proc[p].job \in Job /\ IsTodo(proc[p].todo)
        /\ HasRow(p) /\ sent[n] = 0
    BY DEF AddReminder, At, IInv, ProcIsAimed, ProcIsCounted, HasRow, Writing
  <1>b. UNCHANGED <<job, notification, failing, sent, now, ops, died, overlapped, workerDeaths>>
    BY DEF AddReminder
  <1>c. RowsKept(0) /\ 0 \notin DOMAIN notification /\ Len(notification) \in Nat
    BY <1>b, RowsSame, Types DEF IInv
  <1>d. RestIsTyped'
    BY <1>b DEF RestIsTyped, IInv, TypeOK
  <1>1. /\ k \in Key /\ n \in DOMAIN notification
        /\ notification[n].job = k[1] /\ notification[n].type = k[2]
        /\ NewEntry(p) \in EntryRow(Len(notification))
        /\ NewEntry(p).pc = "delayed" /\ NewEntry(p).note = n
    BY ReminderAdded
  <1>2. PICK r \in ProcRow(Len(notification)) :
          /\ proc' = [proc EXCEPT ![p] = r]
          /\ \/ /\ queue' = IF Held(k) THEN queue ELSE [queue EXCEPT ![k] = NewEntry(p)]
                /\ r.pc \in {"idle", "create"}
                /\ r.pc = "create" => r.job = proc[p].job /\ IsTodo(r.todo)
             \/ /\ UNCHANGED queue
                /\ r.pc = "notAdded" /\ r.note = n
                /\ r.job = proc[p].job /\ r.todo = proc[p].todo
    BY ReminderAdded
  <1>3. r.pc # "idle" => r.job \in Job /\ IsTodo(r.todo)
    BY <1>a, <1>2
  <1>4. CASE UNCHANGED queue
    <2>1. r.pc \in Writing =>
            /\ r.note = n /\ r.job = proc[p].job /\ r.todo = proc[p].todo /\ r.pc = "notAdded"
      BY <1>2 DEF Writing
    <2>2. r.pc \in {"idle", "create", "notAdded"}
      BY <1>2
    <2>3. r.pc \in Writing =>
            /\ r.note \in DOMAIN notification' /\ notification'[r.note].job = r.job
            /\ notification'[r.note].type = Head(r.todo)
            /\ r.note \in DOMAIN notification => HasRow(p) /\ r.note = proc[p].note
      BY <1>a, <1>b, <1>1, <2>1
    <2>4. r \in ProcRow(Len(notification')) /\ proc' = [proc EXCEPT ![p] = r] /\ 0 \in Nat
      BY <1>b, <1>2
    <2> HIDE DEF k, n
    <2> QED BY <1>b, <1>c, <1>d, <1>3, <1>4, <2>2, <2>3, <2>4, RequestKeeps
  <1>5. CASE /\ ~Held(k) /\ queue' = [queue EXCEPT ![k] = NewEntry(p)]
             /\ r.pc \in {"idle", "create"}
    <2>1. /\ queue \in [Key -> EntryRow(Len(notification))]
          /\ proc \in [Proc -> ProcRow(Len(notification))]
      BY Types DEF IInv
    <2>2. /\ queue' \in [Key -> EntryRow(Len(notification))]
          /\ queue'[k] = NewEntry(p) /\ \A l \in Key \ {k} : queue'[l] = queue[l]
      BY <1>1, <1>5, <2>1
    <2>3. /\ proc' \in [Proc -> ProcRow(Len(notification))]
          /\ proc'[p] = r /\ \A q \in Proc \ {p} : proc'[q] = proc[q]
      BY <1>2, <2>1
    <2>4. NewEntry(p).pc = "delayed" /\ NewEntry(p).note = n
      BY <1>1
    <2>5. TypeOK'
      BY <1>b, <1>d, <2>2, <2>3 DEF IInv, TypeOK, RestIsTyped, Key, EntryRow, ProcRow
    <2> HIDE DEF k, n
    <2>6. ASSUME NEW q \in Proc PROVE (ProcIsAimed(q) /\ ProcOwnsRow(q) /\ ProcIsCounted(q))'
      <3>1. ProcIsAimed(q) /\ ProcOwnsRow(q) /\ ProcIsCounted(q) /\ ProcOwnsRow(p)
        BY DEF IInv
      <3>2. CASE q = p
        BY <1>3, <1>5, <2>3, <3>2 DEF ProcIsAimed, ProcOwnsRow, ProcIsCounted, HasRow, Writing
      <3>3. CASE q # p
        <4>1. ProcIsAimed(q)' /\ ProcIsCounted(q)'
          BY <1>b, <2>3, <3>1, <3>3 DEF ProcIsAimed, ProcIsCounted
        <4>2. HasRow(q) => proc[q].note # n
          BY <1>a, <3>1, <3>3 DEF ProcOwnsRow, n
        <4>3. ASSUME HasRow(q)', NEW x \in Proc, HasRow(x)', proc'[x].note = proc'[q].note
              PROVE  x = q
          BY <1>5, <2>3, <3>1, <3>3, <4>3 DEF ProcOwnsRow, HasRow, Writing
        <4>4. ASSUME HasRow(q)', NEW l \in Key, Held(l)' PROVE queue'[l].note # proc'[q].note
          BY <2>2, <2>3, <2>4, <3>1, <3>3, <4>2, <4>4 DEF ProcOwnsRow, HasRow, Held
        <4>5. HasRow(q)' => HasRow(q) /\ proc'[q] = proc[q]
          BY <2>3, <3>3 DEF HasRow
        <4> QED BY <1>b, <3>1, <4>1, <4>3, <4>4, <4>5 DEF ProcOwnsRow
      <3> QED BY <3>2, <3>3
    <2>7. ASSUME NEW l \in Key PROVE EntryOwnsRow(l)' /\ EntryIsCounted(l)'
      <3>1. EntryOwnsRow(l) /\ EntryIsCounted(l)
        BY DEF IInv
      <3>2. CASE l = k
        <4>1. sent[n] <= workerDeaths
          BY <1>a, ConstantsAssumption DEF IInv, TypeOK, n
        <4> QED BY <1>b, <1>1, <2>2, <2>4, <3>2, <4>1 DEF EntryOwnsRow, EntryIsCounted, Held
      <3>3. CASE l # k
        BY <1>b, <2>2, <3>1, <3>3 DEF EntryOwnsRow, EntryIsCounted, Held
      <3> QED BY <3>2, <3>3
    <2>8. \A i \in DOMAIN notification' : RowIsCounted(i)'
      BY <1>c DEF RowsKept
    <2> QED BY <2>5, <2>6, <2>7, <2>8 DEF IInv
  <1> QED BY <1>2, <1>4, <1>5

\* The provider accepts an e-mail.
LEMMA Emailed ==
  ASSUME IInv, NEW m \in DOMAIN notification, sent[m] <= workerDeaths,
         sent' = [sent EXCEPT ![m] = sent[m] + 1], UNCHANGED <<notification, workerDeaths>>
  PROVE  RowsKept(m) /\ sent'[m] > 0
  <1>1. /\ Len(notification) \in Nat /\ DOMAIN notification = 1..Len(notification)
        /\ DOMAIN sent = 1..Len(notification)
        /\ sent \in Seq(Nat) /\ Len(sent) = Len(notification)
        /\ \A n \in DOMAIN notification : sent[n] \in Nat /\ RowIsCounted(n)
        /\ notification \in Seq(Notification)
    BY Types DEF IInv, TypeOK
  <1>2. workerDeaths \in Nat
    BY ConstantsAssumption DEF IInv, TypeOK
  <1>3. sent[m] + 1 \in Nat /\ m \in 1..Len(sent)
    BY <1>1
  <1>4. sent' \in Seq(Nat) /\ Len(sent') = Len(sent)
    BY <1>1, <1>3, ExceptSeq
  <1>5. sent'[m] = sent[m] + 1 /\ \A n \in DOMAIN notification : n # m => sent'[n] = sent[n]
    BY <1>1
  <1>6. \A n \in DOMAIN notification' : RowIsCounted(n)'
    BY <1>1, <1>2, <1>5 DEF RowIsCounted
  <1>7. Len(notification) <= Len(notification') /\ sent'[m] > 0
    BY <1>1, <1>5
  <1> QED BY <1>1, <1>4, <1>5, <1>6, <1>7 DEF RowsKept

LEMMA ConfirmCreateKeeps == ASSUME IInv, NEW p \in Proc, ConfirmCreate(p) PROVE IInv'
  <1>a. proc[p].pc = "confirmCreate" /\ UNCHANGED <<queue, workerDeaths>>
    BY DEF ConfirmCreate, At
  <1>b. /\ 0 \notin DOMAIN notification /\ Len(notification) \in Nat
        /\ DOMAIN notification = 1..Len(notification) /\ proc[p].job \in Job
    BY <1>a, Types DEF IInv, ProcIsAimed
  <1>1. PICK r \in ProcRow(Len(notification) + 1) :
          /\ proc' = [proc EXCEPT ![p] = r]
          /\ r.pc = "confirmSend" /\ r.note = Len(notification) + 1
          /\ r.job = proc[p].job
    <2>1. Next1(p, [proc[p] EXCEPT !.pc = "confirmSend", !.note = Len(notification) + 1])
      BY DEF ConfirmCreate
    <2>2. "confirmSend" \in Pc
      BY DEF Pc
    <2>3. \E r \in ProcRow(Len(notification) + 1) :
             /\ proc' = [proc EXCEPT ![p] = r]
             /\ r.pc = "confirmSend" /\ r.note = Len(notification) + 1
             /\ r.job = proc[p].job /\ r.todo = proc[p].todo /\ r.seen = proc[p].seen
      BY <2>1, <2>2, RowWritten
    <2> QED BY <2>3
  <1>2. 0 \in 0..MaxTime
    BY ConstantsAssumption
  <1>3. /\ RowsKept(0) /\ Len(notification') = Len(notification) + 1
        /\ DOMAIN notification' = 1..(Len(notification) + 1)
        /\ notification'[Len(notification) + 1]
             = [job |-> proc[p].job, type |-> Confirmation, at |-> 0, status |-> "QUEUED"]
        /\ sent'[Len(notification) + 1] = 0
    BY <1>a, <1>b, <1>2, RowAdded DEF ConfirmCreate
  <1>4. /\ r.note \in DOMAIN notification' /\ r.note \notin DOMAIN notification
        /\ notification'[r.note].job = r.job /\ sent'[r.note] = 0
    BY <1>b, <1>1, <1>3
  <1>5. job' \in [Job -> JobRow] /\ ops' \in 0..MaxOps
    BY DEF ConfirmCreate, IInv, TypeOK
  <1>6. Len(notification') \in Nat /\ Len(notification') >= Len(notification)
    BY <1>b, <1>3
  <1>7. RestIsTyped'
    BY <1>5, <1>6, RestKept DEF ConfirmCreate
  <1>8. r \in ProcRow(Len(notification')) /\ r.job \in Job /\ 0 \in Nat
    BY <1>b, <1>1, <1>3
  <1> QED BY <1>a, <1>b, <1>1, <1>3, <1>4, <1>7, <1>8, RequestKeeps

LEMMA ConfirmSendKeeps == ASSUME IInv, NEW p \in Proc, ConfirmSend(p) PROVE IInv'
  <1> DEFINE m == proc[p].note
  <1>1. /\ proc[p].pc = "confirmSend" /\ HasRow(p) /\ proc[p].job \in Job
        /\ m \in DOMAIN notification /\ notification[m].job = proc[p].job /\ sent[m] = 0
        /\ proc[p] \in ProcRow(Len(notification))
    BY Types DEF ConfirmSend, At, IInv, ProcIsAimed, ProcOwnsRow, ProcIsCounted, HasRow, Writing
  <1>2. UNCHANGED <<job, notification, queue, failing, now, ops, died, overlapped, workerDeaths>>
    BY DEF ConfirmSend
  <1>3. PICK ok \in BOOLEAN :
          /\ sent' = IF ok THEN [sent EXCEPT ![m] = sent[m] + 1] ELSE sent
          /\ Next1(p, [proc[p] EXCEPT !.pc = "confirmUpdate", !.ok = ok])
    BY DEF ConfirmSend
  <1>4. RowsKept(m) /\ (ok => sent'[m] > 0)
    <2>1. CASE ok
      <3>1. sent[m] <= workerDeaths
        BY <1>1, ConstantsAssumption DEF IInv, TypeOK
      <3>2. sent' = [sent EXCEPT ![m] = sent[m] + 1]
        BY <1>3, <2>1
      <3> HIDE DEF m
      <3> QED BY <1>1, <1>2, <3>1, <3>2, Emailed
    <2>2. CASE ~ok
      BY <1>2, <1>3, <2>2, RowsSame
    <2> QED BY <2>1, <2>2
  <1> DEFINE r == [proc[p] EXCEPT !.pc = "confirmUpdate", !.ok = ok]
  <1>5. /\ r \in ProcRow(Len(notification)) /\ r.pc = "confirmUpdate" /\ r.ok = ok
        /\ r.job = proc[p].job /\ r.note = m
    BY <1>1 DEF ProcRow, Pc
  <1>6. proc' = [proc EXCEPT ![p] = r]
    BY <1>3 DEF Next1
  <1> HIDE DEF r
  <1>7. RestIsTyped'
    BY <1>2 DEF IInv, TypeOK, RestIsTyped
  <1>8. m \in Nat
    BY <1>1, Types DEF IInv
  <1>9. /\ r \in ProcRow(Len(notification')) /\ r.note \in DOMAIN notification'
        /\ notification'[r.note].job = r.job /\ r.job \in Job
        /\ r.pc = "confirmUpdate" /\ r.ok => sent'[r.note] > 0
    BY <1>1, <1>2, <1>4, <1>5
  <1> HIDE DEF m
  <1> QED BY <1>1, <1>2, <1>4, <1>5, <1>6, <1>7, <1>8, <1>9, RequestKeeps DEF m

LEMMA ConfirmUpdateKeeps == ASSUME IInv, NEW p \in Proc, ConfirmUpdate(p) PROVE IInv'
  <1> DEFINE m == proc[p].note
             status == IF proc[p].ok THEN "SENT" ELSE "FAILED"
  <1>1. /\ m \in DOMAIN notification /\ (status = "SENT" => sent[m] > 0)
        /\ status \in NotificationStatus
    BY DEF ConfirmUpdate, At, IInv, ProcOwnsRow, ProcIsCounted, HasRow, Writing,
           NotificationStatus
  <1>2. SetStatus(m, status) /\ UNCHANGED <<sent, workerDeaths, queue>>
    BY DEF ConfirmUpdate
  <1> HIDE DEF m, status
  <1>3. RowsKept(0) /\ Len(notification') = Len(notification)
    BY <1>1, <1>2, StatusSet
  <1>4. 0 \notin DOMAIN notification /\ Idle \in ProcRow(Len(notification)) /\ Idle.pc = "idle"
    <2>1. Len(notification) \in Nat /\ 0 \notin DOMAIN notification
      BY Types DEF IInv
    <2> QED BY <2>1, IdleRow DEF Idle
  <1>5. RestIsTyped'
    BY <1>3 DEF ConfirmUpdate, IInv, TypeOK, RestIsTyped
  <1>6. proc' = [proc EXCEPT ![p] = Idle]
    BY DEF ConfirmUpdate, Next1
  <1> QED BY <1>2, <1>3, <1>4, <1>5, <1>6, RequestKeeps DEF Writing

-----------------------------------------------------------------------------
(***************************************************************************)
(* The steps of the worker, and the others                                 *)
(***************************************************************************)
LEMMA EntryTypes ==
  ASSUME IInv, NEW k \in Key
  PROVE  /\ k \in DOMAIN queue /\ queue[k] \in EntryRow(Len(notification))
         /\ Held(k) => queue[k].note \in DOMAIN notification
         /\ EntryIsCounted(k) /\ workerDeaths \in Nat
  BY Types, ConstantsAssumption DEF IInv, TypeOK, EntryOwnsRow

\* A step of an entry that writes no row.
LEMMA AttemptKeeps ==
  ASSUME IInv, NEW k \in Key, NEW e \in EntryRow(Len(notification)), Held(k), Entry(k, e),
         UNCHANGED <<job, notification, proc, sent, now, ops, died, overlapped, workerDeaths>>,
         failing' \subseteq 1..Len(notification),
         e.pc # "gone" => e.note = queue[k].note,
         e.pc \in {"delayed", "read", "load", "send"} => sent[queue[k].note] <= workerDeaths,
         e.pc = "settle" => e.verdict \notin {"QUEUED", "SENT"}
  PROVE  IInv'
  <1>1. RowsKept(queue[k].note) /\ Len(notification') = Len(notification)
    BY RowsSame
  <1>2. RestIsTyped'
    BY DEF RestIsTyped, IInv, TypeOK
  <1> QED BY <1>1, <1>2, EntryKeeps DEF Entry

LEMMA TakeKeeps == ASSUME IInv, NEW k \in Key, Take(k) PROVE IInv'
  <1> DEFINE e == [queue[k] EXCEPT !.pc = "read"]
  <1>1. queue[k] \in EntryRow(Len(notification)) /\ EntryIsCounted(k) /\ queue[k].pc = "delayed"
    BY EntryTypes DEF Take
  <1>2. e \in EntryRow(Len(notification)) /\ e.pc = "read" /\ e.note = queue[k].note
    BY <1>1 DEF EntryRow, EntryState
  <1>3. Entry(k, e)
    BY DEF Take
  <1> HIDE DEF e
  <1> QED BY <1>1, <1>2, <1>3, AttemptKeeps DEF Take, Held, EntryIsCounted, IInv, TypeOK

LEMMA ReadNotificationKeeps == ASSUME IInv, NEW k \in Key, ReadNotification(k) PROVE IInv'
  <1>1. queue[k] \in EntryRow(Len(notification)) /\ EntryIsCounted(k) /\ queue[k].pc = "read"
    BY EntryTypes DEF ReadNotification
  <1>2. PICK e \in EntryRow(Len(notification)) :
          /\ Entry(k, e) /\ e.pc \in {"load", "gone"}
          /\ e.pc # "gone" => e.note = queue[k].note
    <2> DEFINE e == [queue[k] EXCEPT !.pc = "load"]
    <2>1. e \in EntryRow(Len(notification)) /\ e.pc = "load" /\ e.note = queue[k].note
      BY <1>1 DEF EntryRow, EntryState
    <2>2. Gone \in EntryRow(Len(notification)) /\ Gone.pc = "gone"
      BY GoneRow, Types DEF IInv, Gone
    <2>3. Entry(k, e) \/ Entry(k, Gone)
      BY DEF ReadNotification
    <2> HIDE DEF e
    <2> QED BY <2>1, <2>2, <2>3
  <1> QED BY <1>1, <1>2, AttemptKeeps DEF ReadNotification, Held, EntryIsCounted, IInv, TypeOK

LEMMA LoadJobKeeps == ASSUME IInv, NEW k \in Key, LoadJob(k) PROVE IInv'
  <1> DEFINE verdict == Verdict(job[k[1]])
             d == [queue[k] EXCEPT !.pc = "send"]
             e == [queue[k] EXCEPT !.pc = "settle", !.verdict = verdict]
  <1>1. queue[k] \in EntryRow(Len(notification)) /\ EntryIsCounted(k) /\ queue[k].pc = "load"
    BY EntryTypes DEF LoadJob
  <1>2. verdict \in NotificationStatus /\ verdict # "SENT"
    BY DEF Verdict, NotificationStatus
  <1>3. IF verdict = "QUEUED" THEN Entry(k, d) ELSE Entry(k, e)
    BY DEF LoadJob
  <1> HIDE DEF verdict
  <1>4. d \in EntryRow(Len(notification)) /\ d.pc = "send" /\ d.note = queue[k].note
    BY <1>1 DEF EntryRow, EntryState
  <1>5. /\ e \in EntryRow(Len(notification)) /\ e.pc = "settle" /\ e.note = queue[k].note
        /\ e.verdict = verdict
    BY <1>1, <1>2 DEF EntryRow, EntryState
  <1> HIDE DEF d, e
  <1> QED BY <1>1, <1>2, <1>3, <1>4, <1>5, AttemptKeeps
          DEF LoadJob, Held, EntryIsCounted, IInv, TypeOK

LEMMA SendKeeps == ASSUME IInv, NEW k \in Key, Send(k) PROVE IInv'
  <1> DEFINE m == queue[k].note
  <1>1. /\ queue[k] \in EntryRow(Len(notification)) /\ queue[k].pc = "send" /\ Held(k)
        /\ m \in DOMAIN notification /\ m \in 1..Len(notification)
        /\ sent[m] <= workerDeaths
        /\ failing \subseteq 1..Len(notification)
    BY EntryTypes, Types DEF Send, Held, EntryIsCounted, IInv, TypeOK
  <1>2. UNCHANGED <<job, notification, proc, now, ops, died, overlapped, workerDeaths>>
    BY DEF Send
  <1>3. CASE /\ sent' = [sent EXCEPT ![m] = sent[m] + 1]
             /\ Entry(k, [queue[k] EXCEPT !.pc = "settle", !.verdict = "SENT"])
             /\ UNCHANGED failing
    <2> DEFINE e == [queue[k] EXCEPT !.pc = "settle", !.verdict = "SENT"]
    <2>1. /\ e \in EntryRow(Len(notification)) /\ e.pc = "settle" /\ e.note = m
          /\ e.verdict = "SENT"
      BY <1>1 DEF EntryRow, EntryState, NotificationStatus
    <2>2. queue' = [queue EXCEPT ![k] = e]
      BY <1>3 DEF Entry
    <2> HIDE DEF e, m
    <2>3. RowsKept(m) /\ sent'[m] > 0
      BY <1>1, <1>2, <1>3, Emailed
    <2>4. RestIsTyped'
      BY <1>2, <1>3 DEF RestIsTyped, IInv, TypeOK
    <2> QED BY <1>1, <1>2, <2>1, <2>2, <2>3, <2>4, EntryKeeps DEF m
  <1>4. CASE /\ queue[k].attempts + 1 < MAX_ATTEMPTS
             /\ Entry(k, [queue[k] EXCEPT !.pc = "delayed", !.due = now, !.attempts = @ + 1])
             /\ UNCHANGED <<failing, sent>>
    <2> DEFINE e == [queue[k] EXCEPT !.pc = "delayed", !.due = now,
                                     !.attempts = queue[k].attempts + 1]
    <2>1. queue[k].attempts + 1 \in 0..MAX_ATTEMPTS /\ now \in 0..MaxTime
      <3>1. queue[k].attempts \in 0..MAX_ATTEMPTS
        BY <1>1 DEF EntryRow
      <3>2. MAX_ATTEMPTS \in Nat /\ now \in 0..MaxTime
        BY ConstantsAssumption DEF IInv, TypeOK
      <3> QED BY <1>4, <3>1, <3>2
    <2>2. e \in EntryRow(Len(notification)) /\ e.pc = "delayed" /\ e.note = m
      BY <1>1, <2>1 DEF EntryRow, EntryState
    <2>3. Entry(k, e)
      BY <1>4
    <2> HIDE DEF e
    <2> QED BY <1>1, <1>2, <1>4, <2>2, <2>3, AttemptKeeps
  <1>5. CASE /\ queue[k].attempts + 1 = MAX_ATTEMPTS
             /\ Entry(k, [queue[k] EXCEPT !.pc = "failed", !.attempts = @ + 1])
             /\ failing' = failing \cup {queue[k].note}
             /\ UNCHANGED sent
    <2> DEFINE e == [queue[k] EXCEPT !.pc = "failed", !.attempts = queue[k].attempts + 1]
    <2>1. queue[k].attempts + 1 \in 0..MAX_ATTEMPTS
      BY <1>1, <1>5, ConstantsAssumption DEF EntryRow
    <2>2. e \in EntryRow(Len(notification)) /\ e.pc = "failed" /\ e.note = m
      BY <1>1, <2>1 DEF EntryRow, EntryState
    <2>3. Entry(k, e)
      BY <1>5
    <2> HIDE DEF e
    <2>4. failing' \subseteq 1..Len(notification)
      BY <1>1, <1>5
    <2> QED BY <1>1, <1>2, <1>5, <2>2, <2>3, <2>4, AttemptKeeps
  <1> QED BY <1>3, <1>4, <1>5 DEF Send

LEMMA SettleKeeps == ASSUME IInv, NEW k \in Key, Settle(k) PROVE IInv'
  <1> DEFINE m == queue[k].note
             verdict == queue[k].verdict
  <1>1. /\ queue[k] \in EntryRow(Len(notification)) /\ queue[k].pc = "settle" /\ Held(k)
        /\ m \in DOMAIN notification /\ verdict = "SENT" => sent[m] > 0
    BY EntryTypes DEF Settle, Held, EntryIsCounted
  <1>2. m \in DOMAIN notification /\ verdict \in NotificationStatus
    BY <1>1, EntryTypes DEF EntryRow
  <1>3. UNCHANGED <<job, failing, proc, sent, now, ops, died, overlapped, workerDeaths>>
    BY DEF Settle
  <1>4. SetStatus(m, verdict)
    BY DEF Settle
  <1> HIDE DEF verdict
  <1>5. RowsKept(m) /\ Len(notification') = Len(notification)
    BY <1>1, <1>2, <1>3, <1>4, StatusSet
  <1>6. RestIsTyped'
    BY <1>3, <1>5 DEF RestIsTyped, IInv, TypeOK
  <1>7. Gone \in EntryRow(Len(notification)) /\ Gone.pc = "gone"
    <2>1. Len(notification) \in Nat
      BY Types DEF IInv
    <2> QED BY <2>1, GoneRow DEF Gone
  <1>8. queue' = [queue EXCEPT ![k] = Gone]
    BY DEF Settle, Entry
  <1> QED BY <1>1, <1>3, <1>5, <1>6, <1>7, <1>8, EntryKeeps

\* A step that leaves the entries and the requests alone.
LEMMA AsideKeeps ==
  ASSUME IInv, UNCHANGED <<queue, proc, workerDeaths>>, RowsKept(0),
         Len(notification') = Len(notification), RestIsTyped'
  PROVE  IInv'
  <1>1. TypeOK'
    BY DEF IInv, TypeOK, RestIsTyped, RowsKept
  <1>2. /\ DOMAIN notification' = DOMAIN notification /\ 0 \notin DOMAIN notification
        /\ \A n \in DOMAIN notification : /\ notification'[n].job = notification[n].job
                                          /\ notification'[n].type = notification[n].type
                                          /\ sent'[n] = sent[n]
    BY Types DEF IInv, RowsKept
  <1>3. ASSUME NEW p \in Proc PROVE (ProcIsAimed(p) /\ ProcOwnsRow(p) /\ ProcIsCounted(p))'
    <2>1. ProcIsAimed(p) /\ ProcOwnsRow(p) /\ ProcIsCounted(p)
      BY DEF IInv
    <2> QED BY <1>2, <2>1 DEF ProcIsAimed, ProcOwnsRow, ProcIsCounted, HasRow, Held, Writing
  <1>4. ASSUME NEW k \in Key PROVE EntryOwnsRow(k)' /\ EntryIsCounted(k)'
    <2>1. EntryOwnsRow(k) /\ EntryIsCounted(k)
      BY DEF IInv
    <2> QED BY <1>2, <2>1 DEF EntryOwnsRow, EntryIsCounted, Held
  <1> QED BY <1>1, <1>3, <1>4 DEF IInv, RowsKept

LEMMA GiveUpKeeps == ASSUME IInv, NEW n \in DOMAIN notification, GiveUp(n) PROVE IInv'
  <1>1. "FAILED" \in NotificationStatus /\ UNCHANGED <<sent, workerDeaths, queue, proc>>
    BY DEF NotificationStatus, GiveUp
  <1>2. RowsKept(0) /\ Len(notification') = Len(notification)
    BY <1>1, StatusSet DEF GiveUp
  <1>3. RestIsTyped'
    BY <1>2 DEF GiveUp, RestIsTyped, IInv, TypeOK
  <1> QED BY <1>1, <1>2, <1>3, AsideKeeps

LEMMA ClientEmailKeeps ==
  ASSUME IInv, NEW j \in Job, NEW email \in BOOLEAN, ClientEmail(j, email) PROVE IInv'
  <1>1. UNCHANGED <<notification, queue, failing, proc, sent, now, died, overlapped, workerDeaths>>
    BY DEF ClientEmail
  <1>2. RowsKept(0)
    BY <1>1, RowsSame
  <1>3. job' \in [Job -> JobRow]
    <2>1. job[j] \in JobRow
      BY DEF IInv, TypeOK
    <2>2. [job[j] EXCEPT !.email = email] \in JobRow
      BY <2>1 DEF JobRow
    <2> QED BY <2>2 DEF ClientEmail, IInv, TypeOK
  <1>4. ops' \in 0..MaxOps
    BY ConstantsAssumption DEF ClientEmail, IInv, TypeOK
  <1>5. RestIsTyped'
    BY <1>1, <1>3, <1>4 DEF RestIsTyped, IInv, TypeOK
  <1> QED BY <1>1, <1>2, <1>5, AsideKeeps

LEMMA TickKeeps == ASSUME IInv, Tick PROVE IInv'
  <1>1. UNCHANGED <<job, notification, queue, failing, proc, sent, ops, died, overlapped, workerDeaths>>
    BY DEF Tick
  <1>2. now' \in 0..MaxTime
    BY ConstantsAssumption DEF Tick, IInv, TypeOK
  <1>3. RowsKept(0) /\ RestIsTyped'
    BY <1>1, <1>2, RowsSame DEF RestIsTyped, IInv, TypeOK
  <1> QED BY <1>1, <1>3, AsideKeeps

\* The entries after a death of the worker.
LEMMA WorkerDied ==
  ASSUME IInv, WorkerDie, NEW k \in Key
  PROVE  /\ queue'[k] \in EntryRow(Len(notification))
         /\ queue'[k].note = queue[k].note
         /\ \/ ~Active(k) /\ queue'[k] = queue[k]
            \/ Active(k) /\ queue'[k].pc = "failed"
            \/ Active(k) /\ queue'[k].pc = "delayed" /\ queue'[k].stalls = 1
               /\ queue'[k].attempts = queue[k].attempts
  <1>1. queue[k] \in EntryRow(Len(notification)) /\ now \in 0..MaxTime /\ k \in DOMAIN queue
    BY EntryTypes DEF IInv, TypeOK
  <1>2. CASE ~Active(k)
    BY <1>1, <1>2 DEF WorkerDie
  <1>3. CASE Active(k) /\ queue[k].stalls = 0
    <2> DEFINE e == [queue[k] EXCEPT !.pc = "delayed", !.due = now, !.stalls = 1,
                                     !.verdict = "QUEUED"]
    <2>a. 1 \in 0..1 /\ "delayed" \in EntryState /\ "QUEUED" \in NotificationStatus
      BY DEF EntryState, NotificationStatus
    <2>1. /\ e \in EntryRow(Len(notification)) /\ e.note = queue[k].note
          /\ e.pc = "delayed" /\ e.stalls = 1 /\ e.attempts = queue[k].attempts
      BY <1>1, <2>a DEF EntryRow
    <2>2. queue'[k] = e
      BY <1>1, <1>3 DEF WorkerDie
    <2> HIDE DEF e
    <2> QED BY <1>3, <2>1, <2>2
  <1>4. CASE Active(k) /\ queue[k].stalls # 0
    <2> DEFINE e == [queue[k] EXCEPT !.pc = "failed", !.verdict = "QUEUED"]
    <2>1. e \in EntryRow(Len(notification)) /\ e.note = queue[k].note /\ e.pc = "failed"
      BY <1>1 DEF EntryRow, EntryState, NotificationStatus
    <2>2. queue'[k] = e
      BY <1>1, <1>4 DEF WorkerDie
    <2> HIDE DEF e
    <2> QED BY <1>4, <2>1, <2>2
  <1> QED BY <1>2, <1>3, <1>4

LEMMA WorkerDieKeeps == ASSUME IInv, WorkerDie PROVE IInv'
  <1>1. UNCHANGED <<job, notification, proc, sent, now, ops, died, overlapped>>
    BY DEF WorkerDie
  <1>2. /\ workerDeaths \in Nat /\ workerDeaths' = workerDeaths + 1
        /\ workerDeaths' \in 0..MaxWorkerDeaths /\ workerDeaths' >= workerDeaths
    <2>1. workerDeaths \in 0..MaxWorkerDeaths /\ MaxWorkerDeaths \in Nat
      BY ConstantsAssumption DEF IInv, TypeOK
    <2>2. workerDeaths < MaxWorkerDeaths /\ workerDeaths' = workerDeaths + 1
      BY DEF WorkerDie
    <2> QED BY <2>1, <2>2
  <1>3. RestIsTyped'
    <2>1. failing' = {}
      BY DEF WorkerDie
    <2> QED BY <1>1, <1>2, <2>1 DEF RestIsTyped, IInv, TypeOK
  <1>4. queue' \in [Key -> EntryRow(Len(notification))]
    <2>1. DOMAIN queue = Key
      BY Types DEF IInv
    <2>2. queue' = [k \in Key |-> queue'[k]]
      BY <2>1 DEF WorkerDie
    <2> QED BY <2>2, WorkerDied
  <1>5. ASSUME NEW k \in Key
        PROVE  /\ Held(k)' => Held(k) /\ queue'[k].note = queue[k].note
               /\ EntryIsCounted(k)'
    <2>1. /\ EntryIsCounted(k)
          /\ Held(k) => /\ queue[k].note \in DOMAIN notification
                        /\ sent[queue[k].note] \in Nat
                        /\ sent[queue[k].note] <= 1 + workerDeaths
      BY Types, EntryTypes DEF IInv, RowIsCounted
    <2>2. CASE ~Active(k) /\ queue'[k] = queue[k]
      BY <1>1, <1>2, <2>1, <2>2 DEF EntryIsCounted, Held, Active
    <2>3. CASE Active(k) /\ queue'[k].pc \in {"failed", "delayed"} /\ queue'[k].note = queue[k].note
      BY <1>1, <1>2, <2>1, <2>3 DEF EntryIsCounted, Held, Active
    <2> QED BY <2>2, <2>3, WorkerDied
  <1>6. /\ proc' \in [Proc -> ProcRow(Len(notification))]
        /\ \A p \in Proc : /\ ProcIsAimed(p)'
                           /\ proc'[p].pc \in Writing => proc'[p] = proc[p]
    BY <1>1, Types DEF IInv, ProcIsAimed
  <1> QED BY <1>1, <1>2, <1>3, <1>4, <1>5, <1>6, QueueKeeps

LEMMA InitEstablishes == ASSUME Init PROVE IInv
  <1>1. /\ Len(notification) = 0 /\ notification \in Seq(Notification) /\ sent \in Seq(Nat)
        /\ Len(sent) = 0 /\ DOMAIN notification = {}
    BY EmptySeq DEF Init
  <1>2. Gone \in EntryRow(0) /\ Gone.pc = "gone" /\ Idle \in ProcRow(0) /\ Idle.pc = "idle"
    BY GoneRow, IdleRow DEF Gone, Idle
  <1>3. Absent \in JobRow
    BY DEF Absent, JobRow, JobStatus
  <1>4. /\ queue \in [Key -> EntryRow(Len(notification))]
        /\ proc \in [Proc -> ProcRow(Len(notification))]
        /\ job \in [Job -> JobRow]
    BY <1>1, <1>2, <1>3 DEF Init, Key
  <1>5. TypeOK
    BY <1>1, <1>4, ConstantsAssumption DEF Init, TypeOK, Key, EntryRow, ProcRow
  <1>6. \A p \in Proc : proc[p].pc = "idle"
    BY <1>2 DEF Init
  <1>7. \A k \in Key : queue[k].pc = "gone"
    BY <1>2 DEF Init, Key
  <1> QED BY <1>1, <1>5, <1>6, <1>7
          DEF IInv, ProcIsAimed, ProcOwnsRow, ProcIsCounted, EntryOwnsRow, EntryIsCounted,
              HasRow, Held, Writing

LEMMA NextKeeps == ASSUME IInv, [Next]_vars PROVE IInv'
  <1>1. CASE UNCHANGED vars
    <2>1. UNCHANGED <<queue, proc, workerDeaths, notification, sent>>
      BY <1>1 DEF vars
    <2>2. RowsKept(0) /\ RestIsTyped'
      BY <1>1, RowsSame DEF vars, RestIsTyped, IInv, TypeOK
    <2> QED BY <2>1, <2>2, AsideKeeps
  <1>2. ASSUME NEW p \in Proc, Request(p) PROVE IInv'
    BY <1>2, FindKeeps, RemoveKeeps, MarkKeeps, CreateReminderKeeps, AddReminderKeeps,
       NotAddedKeeps, ConfirmCreateKeeps, ConfirmSendKeeps, ConfirmUpdateKeeps DEF Request
  <1>3. ASSUME NEW k \in DOMAIN queue, Worker(k) PROVE IInv'
    <2>1. k \in Key
      BY Types DEF IInv
    <2> QED BY <1>3, <2>1, TakeKeeps, ReadNotificationKeeps, LoadJobKeeps, SendKeeps, SettleKeeps
            DEF Worker
  <1>4. CASE Next
    BY <1>2, <1>3, <1>4, DieKeeps, ChangesKeep, ConfirmKeeps, ClientEmailKeeps, GiveUpKeeps,
       WorkerDieKeeps, TickKeeps DEF Next
  <1> QED BY <1>1, <1>4

LEMMA Invariance == Spec => []IInv
  BY InitEstablishes, NextKeeps, PTL DEF Spec

\* A row, an entry of the queue and a request that is under way are always of the shape
\* that the code gives them; an entry and a request name rows that exist.
THEOREM TypeCorrect == Spec => []TypeOK
  <1>1. IInv => TypeOK
    BY DEF IInv
  <1> QED BY <1>1, Invariance, PTL

\* However many requests replace the reminders of a job while the worker sends them, a
\* row is e-mailed at most once more than the worker has died: a row is in one entry of
\* the queue at most, an entry that is tried again has failed to send, and one that is
\* handed to another worker is what a death pays for.
THEOREM SentOnceCorrect == Spec => []SentOnce
  <1>1. IInv => SentOnce
    BY Types DEF IInv, RowIsCounted, SentOnce
  <1> QED BY <1>1, Invariance, PTL

\* A set of rows that is not empty has a latest one.
LEMMA LatestIsOne ==
  ASSUME NEW rows, rows \subseteq DOMAIN notification, rows # {},
         Len(notification) \in Nat, DOMAIN notification = 1..Len(notification)
  PROVE  Latest(rows) \in rows
  <1> DEFINE len == Len(notification)
             left == {len - n : n \in rows}
  <1>1. left \subseteq Nat /\ left # {}
    OBVIOUS
  <1> HIDE DEF left
  <1>2. PICK least \in left : \A m \in left : <<m, least>> \notin OpToRel(<, Nat)
    BY <1>1, WFMin, NatLessThanWellFounded, Zenon
  <1>3. \A m \in left : m \in Nat /\ least \in Nat /\ ~(m < least)
    BY <1>1, <1>2 DEF OpToRel
  <1>4. PICK n \in rows : least = len - n
    BY DEF left
  <1>5. \A m \in rows : m <= n
    <2> SUFFICES ASSUME NEW m \in rows PROVE m <= n
      OBVIOUS
    <2>1. len - m \in left
      BY DEF left
    <2>2. ~(len - m < len - n)
      BY <1>3, <1>4, <2>1
    <2>3. m \in Int /\ n \in Int /\ len \in Int
      OBVIOUS
    <2> QED BY <2>2, <2>3
  <1> QED BY <1>4, <1>5 DEF Latest

\* The staff are told that a reminder or a confirmation was sent only if it was: the
\* worker and the request write SENT after the provider took the e-mail, and the row that
\* a summary goes by is one of the job's and of the kind it is about.
THEOREM ShownCorrect == Spec => []ShownWasSent
  <1>1. ASSUME IInv PROVE ShownWasSent
    <2>a. /\ Len(notification) \in Nat /\ DOMAIN notification = 1..Len(notification)
          /\ \A n \in DOMAIN notification : notification[n].status = "SENT" => sent[n] > 0
      BY <1>1, Types DEF IInv, RowIsCounted
    <2> SUFFICES ASSUME NEW j \in Job
                 PROVE  /\ \A type \in Reminder :
                             ReminderSummary(j, type) = "SENT" =>
                               \E n \in Rows(j, {type}) : sent[n] > 0
                        /\ ConfirmationSummary(j) = "SENT" =>
                             \E n \in Rows(j, {Confirmation}) : sent[n] > 0
                        /\ \A n \in Communications(j) : sent[n] > 0
      BY DEF ShownWasSent
    <2>1. ASSUME NEW type \in Reminder, ReminderSummary(j, type) = "SENT"
          PROVE  \E n \in Rows(j, {type}) : sent[n] > 0
      <3> DEFINE rows == Rows(j, {type})
      <3>1. rows \subseteq DOMAIN notification
        BY DEF Rows
      <3> HIDE DEF rows
      <3>2. rows # {} /\ ReminderStatus(notification[Latest(rows)].status) = "SENT"
        BY <2>1 DEF ReminderSummary, rows
      <3>3. Latest(rows) \in rows /\ notification[Latest(rows)].status = "SENT"
        BY <2>a, <3>1, <3>2, LatestIsOne DEF ReminderStatus
      <3> QED BY <2>a, <3>1, <3>3 DEF rows
    <2>2. ASSUME ConfirmationSummary(j) = "SENT"
          PROVE  \E n \in Rows(j, {Confirmation}) : sent[n] > 0
      <3> DEFINE rows == Rows(j, {Confirmation})
      <3>1. rows \subseteq DOMAIN notification
        BY DEF Rows
      <3> HIDE DEF rows
      <3>2. rows # {} /\ notification[Latest(rows)].status = "SENT"
        BY <2>2 DEF ConfirmationSummary, rows
      <3>3. Latest(rows) \in rows
        BY <2>a, <3>1, <3>2, LatestIsOne
      <3> QED BY <2>a, <3>1, <3>2, <3>3 DEF rows
    <2>3. \A n \in Communications(j) : sent[n] > 0
      BY <2>a DEF Communications, Rows
    <2> QED BY <2>1, <2>2, <2>3
  <1> QED BY <1>1, Invariance, PTL

-----------------------------------------------------------------------------
(***************************************************************************)
(* Requests served one at a time                                           *)
(***************************************************************************)

\* An entry goes only when its row has been decided, and is tried again when it has
\* failed or its worker has died.
EntryGoesOn(k) ==
  /\ Held(k)' => Held(k) /\ queue'[k].note = queue[k].note
  /\ Held(k) /\ ~Held(k)' => notification'[queue[k].note].status # "QUEUED"
  /\ queue'[k].pc \in Current =>
       /\ queue[k].pc \in Current
       /\ \/ /\ queue'[k].due = queue[k].due /\ queue'[k].attempts = queue[k].attempts
             /\ queue'[k].stalls = queue[k].stalls
          \/ queue'[k].attempts + queue'[k].stalls > 0

\* A step of the worker, or of no request: it decides rows and starts nothing.
LEMMA WorkOne ==
  ASSUME OneInv, IInv', UNCHANGED <<proc, died, overlapped>>,
         \A j \in Job : job'[j].status = job[j].status /\ job'[j].start = job[j].start,
         DOMAIN notification' = DOMAIN notification,
         \A n \in DOMAIN notification :
           /\ notification'[n].job = notification[n].job
           /\ notification'[n].type = notification[n].type
           /\ notification'[n].at = notification[n].at
           /\ notification'[n].status = "QUEUED" => notification[n].status = "QUEUED",
         \A k \in Key : EntryGoesOn(k)
  PROVE  OneInv'
  <1>1. ASSUME NEW p \in Proc PROVE WayIsClear(p)' /\ ProcIsCurrent(p)'
    <2>1. /\ WayIsClear(p) /\ ProcIsCurrent(p) /\ ProcIsAimed(p) /\ ProcOwnsRow(p)
      BY DEF OneInv, IInv
    <2>2. \A k \in Key : Held(k)' => Held(k)
      BY DEF EntryGoesOn
    <2>3. WayIsClear(p)'
      <3>1. \A kind \in Reminder : proc[p].job \in Job => <<proc[p].job, kind>> \in Key
        BY DEF Key
      <3>2. proc[p].pc \in {"create", "add", "notAdded"} =>
              \A i \in DOMAIN proc[p].todo : proc[p].todo[i] \in Reminder
        BY <2>1 DEF ProcIsAimed, IsTodo
      <3> QED BY <2>1, <2>2, <3>1, <3>2 DEF WayIsClear, ProcIsAimed
    <2>4. ProcIsCurrent(p)'
      BY <2>1 DEF ProcIsCurrent, ProcIsAimed, ProcOwnsRow, HasRow, Writing
    <2> QED BY <2>3, <2>4
  <1>2. ASSUME NEW k \in Key PROVE EntryIsCurrent(k)'
    <2>1. EntryIsCurrent(k) /\ EntryOwnsRow(k) /\ EntryGoesOn(k) /\ k[1] \in Job
      BY DEF OneInv, IInv, Key
    <2> SUFFICES ASSUME queue'[k].pc \in Current,
                        notification'[queue'[k].note].status = "QUEUED", k[1] \notin died'
                 PROVE  \/ /\ job'[k[1]].status = "SCHEDULED"
                           /\ \/ queue'[k].due = job'[k[1]].start - Offset[k[2]]
                              \/ queue'[k].attempts + queue'[k].stalls > 0
                        \/ \E p \in Proc : proc'[p].job = k[1] /\ proc'[p].pc \in {"find", "remove", "mark"}
      BY DEF EntryIsCurrent
    <2>2. Held(k)'
      BY DEF Current, Held
    <2>3. /\ Held(k) /\ queue'[k].note = queue[k].note /\ queue[k].pc \in Current
          /\ notification[queue[k].note].status = "QUEUED" /\ k[1] \notin died
      BY <2>1, <2>2 DEF EntryOwnsRow, EntryGoesOn
    <2>4. \/ /\ job[k[1]].status = "SCHEDULED"
             /\ \/ queue[k].due = job[k[1]].start - Offset[k[2]]
                \/ queue[k].attempts + queue[k].stalls > 0
          \/ \E p \in Proc : proc[p].job = k[1] /\ proc[p].pc \in {"find", "remove", "mark"}
      BY <2>1, <2>3 DEF EntryIsCurrent
    <2>5. \/ /\ queue'[k].due = queue[k].due /\ queue'[k].attempts = queue[k].attempts
             /\ queue'[k].stalls = queue[k].stalls
          \/ queue'[k].attempts + queue'[k].stalls > 0
      BY <2>1 DEF EntryGoesOn
    <2> QED BY <2>1, <2>4, <2>5
  <1>3. ASSUME NEW n \in DOMAIN notification PROVE RowIsMinded(n)'
    <2> SUFFICES ASSUME QueuedReminder(n)', notification'[n].job \notin died' \cup overlapped'
                 PROVE  RowIsMinded(n)'
      BY DEF RowIsMinded
    <2>1. PICK l \in Key : l = KeyOf(n)
      BY Types DEF KeyOf, Key, OneInv, IInv, Notification, QueuedReminder
    <2>2. KeyOf(n)' = l
      BY <2>1 DEF KeyOf
    <2> SUFFICES \/ Held(l)' /\ queue'[l].note = n
                 \/ \E p \in Proc : Minds(p, n)'
      BY <2>2 DEF RowIsMinded, Held
    <2>3. QueuedReminder(n) /\ notification[n].job \notin died \cup overlapped
      BY DEF QueuedReminder
    <2>4. CASE \E p \in Proc : Minds(p, n)
      BY <2>4 DEF Minds
    <2>5. CASE Held(l) /\ queue[l].note = n
      BY <2>5 DEF EntryGoesOn, QueuedReminder, Held
    <2> QED BY <2>1, <2>3, <2>4, <2>5 DEF OneInv, RowIsMinded
  <1> QED BY <1>1, <1>2, <1>3 DEF OneInv

LEMMA EntriesStay == ASSUME UNCHANGED queue, NEW k \in Key PROVE EntryGoesOn(k)
  BY DEF EntryGoesOn, Held

LEMMA OneEntryGoesOn ==
  ASSUME OneInv, NEW k \in Key, NEW e, Entry(k, e), queue[k].pc \in Current,
         e.pc # "gone" => e.note = queue[k].note,
         e.pc = "gone" => notification'[queue[k].note].status # "QUEUED",
         e.pc \in Current =>
           \/ e.due = queue[k].due /\ e.attempts = queue[k].attempts /\ e.stalls = queue[k].stalls
           \/ e.attempts + e.stalls > 0
  PROVE  \A l \in Key : EntryGoesOn(l)
  <1>1. queue'[k] = e /\ \A l \in Key \ {k} : queue'[l] = queue[l]
    BY Types DEF Entry, OneInv, IInv
  <1>2. ASSUME NEW l \in Key PROVE EntryGoesOn(l)
    <2>1. CASE l = k
      BY <1>1, <2>1 DEF EntryGoesOn, Held, Current
    <2>2. CASE l # k
      BY <1>1, <2>2 DEF EntryGoesOn, Held
    <2> QED BY <2>1, <2>2
  <1> QED BY <1>2

\* An attempt that writes no row.
LEMMA AttemptOne ==
  ASSUME OneInv, IInv', NEW k \in Key, NEW e, Entry(k, e), queue[k].pc \in Current,
         UNCHANGED <<job, notification, proc, died, overlapped>>,
         e.pc # "gone" => e.note = queue[k].note,
         e.pc = "gone" => notification[queue[k].note].status # "QUEUED",
         e.pc \in Current =>
           \/ e.due = queue[k].due /\ e.attempts = queue[k].attempts /\ e.stalls = queue[k].stalls
           \/ e.attempts + e.stalls > 0
  PROVE  OneInv'
  <1>1. \A l \in Key : EntryGoesOn(l)
    BY OneEntryGoesOn
  <1> QED BY <1>1, WorkOne

LEMMA TakeOne == ASSUME OneInv, NEW k \in Key, Take(k) PROVE OneInv'
  <1> DEFINE e == [queue[k] EXCEPT !.pc = "read"]
  <1>1. queue[k] \in EntryRow(Len(notification)) /\ queue[k].pc \in Current
    BY EntryTypes DEF Take, Current, OneInv
  <1>2. /\ e.pc = "read" /\ e.note = queue[k].note /\ e.due = queue[k].due
        /\ e.attempts = queue[k].attempts /\ e.stalls = queue[k].stalls
    BY <1>1 DEF EntryRow
  <1>3. Entry(k, e) /\ UNCHANGED <<job, notification, proc, died, overlapped>> /\ IInv'
    BY TakeKeeps DEF Take, OneInv
  <1> HIDE DEF e
  <1> QED BY <1>1, <1>2, <1>3, AttemptOne

LEMMA ReadNotificationOne == ASSUME OneInv, NEW k \in Key, ReadNotification(k) PROVE OneInv'
  <1> DEFINE e == [queue[k] EXCEPT !.pc = "load"]
  <1>1. queue[k] \in EntryRow(Len(notification)) /\ queue[k].pc \in Current
    BY EntryTypes DEF ReadNotification, Current, OneInv
  <1>2. /\ e.pc = "load" /\ e.note = queue[k].note /\ e.due = queue[k].due
        /\ e.attempts = queue[k].attempts /\ e.stalls = queue[k].stalls
    BY <1>1 DEF EntryRow
  <1>3. /\ IF notification[queue[k].note].status = "QUEUED" THEN Entry(k, e) ELSE Entry(k, Gone)
        /\ UNCHANGED <<job, notification, proc, died, overlapped>> /\ IInv'
    BY ReadNotificationKeeps DEF ReadNotification, OneInv
  <1>4. Gone.pc = "gone"
    BY DEF Gone
  <1> HIDE DEF e
  <1>5. CASE notification[queue[k].note].status = "QUEUED"
    BY <1>1, <1>2, <1>3, <1>5, AttemptOne
  <1>6. CASE notification[queue[k].note].status # "QUEUED"
    BY <1>1, <1>3, <1>4, <1>6, AttemptOne DEF Current
  <1> QED BY <1>5, <1>6

LEMMA LoadJobOne == ASSUME OneInv, NEW k \in Key, LoadJob(k) PROVE OneInv'
  <1> DEFINE verdict == Verdict(job[k[1]])
             d == [queue[k] EXCEPT !.pc = "send"]
             e == [queue[k] EXCEPT !.pc = "settle", !.verdict = verdict]
  <1>1. queue[k] \in EntryRow(Len(notification)) /\ queue[k].pc \in Current
    BY EntryTypes DEF LoadJob, Current, OneInv
  <1>2. /\ IF verdict = "QUEUED" THEN Entry(k, d) ELSE Entry(k, e)
        /\ UNCHANGED <<job, notification, proc, died, overlapped>> /\ IInv'
    BY LoadJobKeeps DEF LoadJob, OneInv
  <1> HIDE DEF verdict
  <1>3. /\ d.pc = "send" /\ d.note = queue[k].note /\ d.due = queue[k].due
        /\ d.attempts = queue[k].attempts /\ d.stalls = queue[k].stalls
    BY <1>1 DEF EntryRow
  <1>4. /\ e.pc = "settle" /\ e.note = queue[k].note /\ e.due = queue[k].due
        /\ e.attempts = queue[k].attempts /\ e.stalls = queue[k].stalls
    BY <1>1 DEF EntryRow
  <1> HIDE DEF d, e
  <1>5. CASE verdict = "QUEUED"
    BY <1>1, <1>2, <1>3, <1>5, AttemptOne
  <1>6. CASE verdict # "QUEUED"
    BY <1>1, <1>2, <1>4, <1>6, AttemptOne
  <1> QED BY <1>5, <1>6

LEMMA SendOne == ASSUME OneInv, NEW k \in Key, Send(k) PROVE OneInv'
  <1>1. queue[k] \in EntryRow(Len(notification)) /\ queue[k].pc \in Current
    BY EntryTypes DEF Send, Current, OneInv
  <1>2. UNCHANGED <<job, notification, proc, died, overlapped>> /\ IInv'
    BY SendKeeps DEF Send, OneInv
  <1>3. CASE Entry(k, [queue[k] EXCEPT !.pc = "settle", !.verdict = "SENT"])
    <2> DEFINE e == [queue[k] EXCEPT !.pc = "settle", !.verdict = "SENT"]
    <2>1. /\ e.pc = "settle" /\ e.note = queue[k].note /\ e.due = queue[k].due
          /\ e.attempts = queue[k].attempts /\ e.stalls = queue[k].stalls
      BY <1>1 DEF EntryRow
    <2>2. Entry(k, e)
      BY <1>3
    <2> HIDE DEF e
    <2> QED BY <1>1, <1>2, <2>1, <2>2, AttemptOne
  <1>4. CASE Entry(k, [queue[k] EXCEPT !.pc = "delayed", !.due = now, !.attempts = @ + 1])
    <2> DEFINE e == [queue[k] EXCEPT !.pc = "delayed", !.due = now,
                                     !.attempts = queue[k].attempts + 1]
    <2>1. queue[k].attempts \in Nat /\ queue[k].stalls \in Nat
      BY <1>1, ConstantsAssumption DEF EntryRow
    <2>2. /\ e.pc = "delayed" /\ e.note = queue[k].note
          /\ e.attempts = queue[k].attempts + 1 /\ e.stalls = queue[k].stalls
      BY <1>1 DEF EntryRow
    <2>3. Entry(k, e)
      BY <1>4
    <2> HIDE DEF e
    <2>4. e.attempts + e.stalls > 0
      BY <2>1, <2>2
    <2> QED BY <1>1, <1>2, <2>2, <2>3, <2>4, AttemptOne
  <1>5. CASE Entry(k, [queue[k] EXCEPT !.pc = "failed", !.attempts = @ + 1])
    <2> DEFINE e == [queue[k] EXCEPT !.pc = "failed", !.attempts = queue[k].attempts + 1]
    <2>1. e.pc = "failed" /\ e.note = queue[k].note
      BY <1>1 DEF EntryRow
    <2>2. Entry(k, e)
      BY <1>5
    <2> HIDE DEF e
    <2> QED BY <1>1, <1>2, <2>1, <2>2, AttemptOne DEF Current
  <1> QED BY <1>3, <1>4, <1>5 DEF Send

LEMMA SettleOne == ASSUME OneInv, NEW k \in Key, Settle(k) PROVE OneInv'
  <1> DEFINE m == queue[k].note
             verdict == queue[k].verdict
  <1>1. /\ queue[k] \in EntryRow(Len(notification)) /\ queue[k].pc \in Current
        /\ m \in DOMAIN notification /\ verdict \in NotificationStatus
        /\ verdict # "QUEUED" /\ (verdict = "SENT" => sent[m] > 0)
    BY EntryTypes DEF Settle, Current, Held, EntryIsCounted, EntryRow, OneInv
  <1>2. /\ UNCHANGED <<job, proc, sent, died, overlapped, workerDeaths>>
        /\ Entry(k, Gone) /\ SetStatus(m, verdict) /\ IInv'
    BY SettleKeeps DEF Settle, OneInv
  <1> HIDE DEF m, verdict
  <1>3. /\ RowsKept(m) /\ DOMAIN notification' = DOMAIN notification
        /\ \A i \in DOMAIN notification :
              /\ notification'[i].at = notification[i].at
              /\ notification'[i].status = IF i = m THEN verdict ELSE notification[i].status
    BY <1>1, <1>2, StatusSet DEF OneInv
  <1>4. Gone.pc = "gone" /\ notification'[m].status # "QUEUED"
    BY <1>1, <1>3 DEF Gone
  <1>5. \A l \in Key : EntryGoesOn(l)
    BY <1>1, <1>2, <1>4, OneEntryGoesOn DEF m, Current
  <1>6. \A n \in DOMAIN notification :
           /\ notification'[n].job = notification[n].job
           /\ notification'[n].type = notification[n].type
           /\ notification'[n].at = notification[n].at
           /\ notification'[n].status = "QUEUED" => notification[n].status = "QUEUED"
    BY <1>1, <1>3 DEF RowsKept
  <1> QED BY <1>2, <1>3, <1>5, <1>6, WorkOne

LEMMA GiveUpOne == ASSUME OneInv, NEW n \in DOMAIN notification, GiveUp(n) PROVE OneInv'
  <1>1. /\ "FAILED" \in NotificationStatus /\ IInv' /\ SetStatus(n, "FAILED")
        /\ UNCHANGED <<job, queue, proc, sent, died, overlapped, workerDeaths>>
    BY GiveUpKeeps DEF NotificationStatus, GiveUp, OneInv
  <1>2. /\ RowsKept(0) /\ DOMAIN notification' = DOMAIN notification
        /\ \A i \in DOMAIN notification :
              /\ notification'[i].at = notification[i].at
              /\ notification'[i].status = IF i = n THEN "FAILED" ELSE notification[i].status
    BY <1>1, StatusSet DEF OneInv
  <1>3. \A i \in DOMAIN notification :
           /\ notification'[i].job = notification[i].job
           /\ notification'[i].type = notification[i].type
           /\ notification'[i].at = notification[i].at
           /\ notification'[i].status = "QUEUED" => notification[i].status = "QUEUED"
    BY <1>2 DEF RowsKept
  <1> QED BY <1>1, <1>2, <1>3, EntriesStay, WorkOne

LEMMA WorkerDieOne == ASSUME OneInv, WorkerDie PROVE OneInv'
  <1>1. UNCHANGED <<job, notification, proc, died, overlapped>> /\ IInv'
    BY WorkerDieKeeps DEF WorkerDie, OneInv
  <1>2. ASSUME NEW k \in Key PROVE EntryGoesOn(k)
    <2>1. queue[k].attempts \in Nat /\ queue[k].note = queue'[k].note
      <3>1. queue[k].attempts \in 0..MAX_ATTEMPTS
        BY EntryTypes DEF EntryRow, OneInv
      <3> QED BY <3>1, WorkerDied DEF OneInv
    <2>2. CASE ~Active(k) /\ queue'[k] = queue[k]
      BY <2>2 DEF EntryGoesOn, Held
    <2>3. CASE Active(k) /\ queue'[k].pc = "failed"
      BY <2>1, <2>3 DEF EntryGoesOn, Held, Active, Current
    <2>4. CASE /\ Active(k) /\ queue'[k].pc = "delayed" /\ queue'[k].stalls = 1
               /\ queue'[k].attempts = queue[k].attempts
      <3>1. queue'[k].attempts + queue'[k].stalls > 0
        BY <2>1, <2>4
      <3> QED BY <2>1, <2>4, <3>1 DEF EntryGoesOn, Held, Active, Current
    <2> QED BY <2>2, <2>3, <2>4, WorkerDied DEF OneInv
  <1> QED BY <1>1, <1>2, WorkOne

LEMMA ClientEmailOne ==
  ASSUME OneInv, NEW j \in Job, NEW email \in BOOLEAN, ClientEmail(j, email) PROVE OneInv'
  <1>1. UNCHANGED <<notification, queue, proc, died, overlapped>> /\ IInv'
    BY ClientEmailKeeps DEF ClientEmail, OneInv
  <1>2. ASSUME NEW i \in Job
        PROVE  job'[i].status = job[i].status /\ job'[i].start = job[i].start
    BY DEF ClientEmail, OneInv, IInv, TypeOK, JobRow
  <1> QED BY <1>1, <1>2, EntriesStay, WorkOne

LEMMA TickOne == ASSUME OneInv, Tick PROVE OneInv'
  <1>1. UNCHANGED <<job, notification, queue, proc, died, overlapped>> /\ IInv'
    BY TickKeeps DEF Tick, OneInv
  <1> QED BY <1>1, EntriesStay, WorkOne

\* What is known of an entry and of a row while the one request does not mind them.
LEMMA Unminded ==
  ASSUME OneAtATime, OneInv, NEW p \in Proc
  PROVE  /\ \A k \in Key :
              /\ queue[k].pc \in Current /\ notification[queue[k].note].status = "QUEUED"
              /\ k[1] \notin died
              /\ ~(proc[p].job = k[1] /\ proc[p].pc \in {"find", "remove", "mark"})
              => /\ job[k[1]].status = "SCHEDULED"
                 /\ \/ queue[k].due = job[k[1]].start - Offset[k[2]]
                    \/ queue[k].attempts + queue[k].stalls > 0
         /\ \A n \in DOMAIN notification :
              /\ QueuedReminder(n) /\ notification[n].job \notin died \cup overlapped
              /\ ~Minds(p, n)
              => Held(KeyOf(n)) /\ queue[KeyOf(n)].note = n
  <1>1. \A q \in Proc : q = p
    BY DEF OneAtATime
  <1>2. \A k \in Key : EntryIsCurrent(k)
    BY DEF OneInv
  <1>3. \A n \in DOMAIN notification : RowIsMinded(n)
    BY DEF OneInv
  <1>4. ASSUME NEW k \in Key,
               queue[k].pc \in Current, notification[queue[k].note].status = "QUEUED",
               k[1] \notin died,
               ~(proc[p].job = k[1] /\ proc[p].pc \in {"find", "remove", "mark"})
        PROVE  /\ job[k[1]].status = "SCHEDULED"
               /\ \/ queue[k].due = job[k[1]].start - Offset[k[2]]
                  \/ queue[k].attempts + queue[k].stalls > 0
    BY <1>1, <1>2, <1>4 DEF EntryIsCurrent
  <1>5. ASSUME NEW n \in DOMAIN notification, QueuedReminder(n),
               notification[n].job \notin died \cup overlapped, ~Minds(p, n)
        PROVE  Held(KeyOf(n)) /\ queue[KeyOf(n)].note = n
    BY <1>1, <1>3, <1>5 DEF RowIsMinded
  <1> QED BY <1>4, <1>5

\* A step of the one request that leaves the queue, the rows and the jobs alone, and
\* after which it minds what it minded.
LEMMA AsideOne ==
  ASSUME OneAtATime, OneInv, IInv', NEW p \in Proc, NEW r, proc' = [proc EXCEPT ![p] = r],
         UNCHANGED <<job, notification, queue, overlapped>>, died \subseteq died',
         WayIsClear(p)', ProcIsCurrent(p)',
         proc[p].pc # "idle" /\ proc[p].job \notin died' =>
           /\ proc[p].pc \in {"find", "remove", "mark"} =>
                r.job = proc[p].job /\ r.pc \in {"find", "remove", "mark"}
           /\ proc[p].pc = "mark" => r.pc = "mark"
           /\ proc[p].pc \in {"add", "notAdded"} /\ proc[p].job \notin overlapped =>
                /\ r.job = proc[p].job
                /\ r.pc = "mark" \/ (r.pc \in {"add", "notAdded"} /\ r.note = proc[p].note)
  PROVE  OneInv'
  <1>1. proc'[p] = r /\ \A q \in Proc : q = p
    BY Types DEF OneAtATime, OneInv, IInv
  <1>2. ASSUME NEW k \in Key PROVE EntryIsCurrent(k)'
    <2> SUFFICES ASSUME queue[k].pc \in Current, notification[queue[k].note].status = "QUEUED",
                        k[1] \notin died',
                        ~(r.job = k[1] /\ r.pc \in {"find", "remove", "mark"})
                 PROVE  /\ job[k[1]].status = "SCHEDULED"
                        /\ \/ queue[k].due = job[k[1]].start - Offset[k[2]]
                           \/ queue[k].attempts + queue[k].stalls > 0
      BY <1>1 DEF EntryIsCurrent
    <2>1. ~(proc[p].job = k[1] /\ proc[p].pc \in {"find", "remove", "mark"})
      OBVIOUS
    <2> QED BY <2>1, Unminded
  <1>3. ASSUME NEW n \in DOMAIN notification PROVE RowIsMinded(n)'
    <2> SUFFICES ASSUME QueuedReminder(n), notification[n].job \notin died' \cup overlapped,
                        ~Minds(p, n)'
                 PROVE  Held(KeyOf(n)) /\ queue[KeyOf(n)].note = n
      BY DEF RowIsMinded, QueuedReminder, Held, KeyOf
    <2>1. ~Minds(p, n)
      BY <1>1 DEF Minds
    <2> QED BY <2>1, Unminded
  <1>4. \A q \in Proc : WayIsClear(q)' /\ ProcIsCurrent(q)'
    BY <1>1
  <1> QED BY <1>2, <1>3, <1>4 DEF OneInv

LEMMA FindOne == ASSUME OneAtATime, OneInv, NEW p \in Proc, Find(p) PROVE OneInv'
  <1> DEFINE r == [proc[p] EXCEPT !.pc = "remove", !.seen = job[proc[p].job]]
  <1>1. /\ proc[p] \in ProcRow(Len(notification)) /\ proc[p].pc = "find"
        /\ proc' = [proc EXCEPT ![p] = r] /\ IInv'
        /\ UNCHANGED <<job, notification, queue, died, overlapped>>
    BY Types, FindKeeps DEF OneInv, IInv, Find, At, Next1
  <1>2. r.pc = "remove" /\ r.job = proc[p].job /\ r.seen = job[proc[p].job]
    BY <1>1 DEF ProcRow
  <1> HIDE DEF r
  <1>3. proc'[p] = r
    BY <1>1, Types DEF OneInv, IInv
  <1>4. WayIsClear(p)' /\ ProcIsCurrent(p)'
    BY <1>1, <1>2, <1>3 DEF WayIsClear, ProcIsCurrent
  <1> QED BY <1>1, <1>2, <1>4, AsideOne

LEMMA DieOne == ASSUME OneAtATime, OneInv, NEW p \in Proc, Die(p) PROVE OneInv'
  <1>1. /\ proc' = [proc EXCEPT ![p] = Idle] /\ IInv' /\ died' = died \cup {proc[p].job}
        /\ UNCHANGED <<job, notification, queue, overlapped>>
    BY DieKeeps DEF OneInv, Die, Next1
  <1>2. proc'[p].pc = "idle"
    BY <1>1, Types DEF OneInv, IInv, Idle
  <1>3. WayIsClear(p)' /\ ProcIsCurrent(p)'
    BY <1>2 DEF WayIsClear, ProcIsCurrent
  <1> QED BY <1>1, <1>3, AsideOne

LEMMA ConfirmOne ==
  ASSUME OneAtATime, OneInv, NEW p \in Proc, NEW j \in Job, Confirm(p, j) PROVE OneInv'
  <1>0. Len(notification) \in Nat
    BY Types DEF OneInv, IInv
  <1>1. PICK r \in ProcRow(Len(notification)) :
          /\ r = [Idle EXCEPT !.pc = "confirmCreate", !.job = j]
          /\ r.pc = "confirmCreate" /\ r.job = j
    BY <1>0, ConfirmStarts
  <1>2. /\ proc' = [proc EXCEPT ![p] = r] /\ proc[p].pc = "idle" /\ IInv'
        /\ UNCHANGED <<job, notification, queue, died, overlapped>>
    BY <1>1, ConfirmKeeps DEF Confirm, At, Next1, OneInv
  <1>3. proc'[p].pc = "confirmCreate"
    BY <1>1, <1>2, Types DEF OneInv, IInv
  <1>4. WayIsClear(p)' /\ ProcIsCurrent(p)'
    BY <1>3 DEF WayIsClear, ProcIsCurrent
  <1> QED BY <1>2, <1>4, AsideOne

LEMMA ConfirmSendOne == ASSUME OneAtATime, OneInv, NEW p \in Proc, ConfirmSend(p) PROVE OneInv'
  <1>1. PICK ok \in BOOLEAN : Next1(p, [proc[p] EXCEPT !.pc = "confirmUpdate", !.ok = ok])
    BY DEF ConfirmSend
  <1> DEFINE r == [proc[p] EXCEPT !.pc = "confirmUpdate", !.ok = ok]
  <1>2. /\ proc[p] \in ProcRow(Len(notification)) /\ proc[p].pc = "confirmSend"
        /\ proc' = [proc EXCEPT ![p] = r] /\ IInv'
        /\ UNCHANGED <<job, notification, queue, died, overlapped>>
    BY <1>1, Types, ConfirmSendKeeps DEF OneInv, IInv, ConfirmSend, At, Next1
  <1>3. r.pc = "confirmUpdate"
    BY <1>2 DEF ProcRow
  <1> HIDE DEF r
  <1>4. proc'[p] = r
    BY <1>2, Types DEF OneInv, IInv
  <1>5. WayIsClear(p)' /\ ProcIsCurrent(p)'
    BY <1>3, <1>4 DEF WayIsClear, ProcIsCurrent
  <1> QED BY <1>2, <1>5, AsideOne

LEMMA CommitOne ==
  ASSUME OneAtATime, OneInv, IInv', NEW p \in Proc, NEW j \in Job, NEW row \in JobRow,
         NEW pc \in {"idle", "find", "remove"}, NEW schedule \in BOOLEAN,
         pc = "idle" => job[j].status = "none",
         pc = "remove" => ~schedule,
         Commit(p, j, row, pc, schedule)
  PROVE  OneInv'
  <1> DEFINE r == Started(pc, j, schedule)
  <1>1. r.pc = pc /\ r.job = j /\ r.schedule = schedule
    BY RequestStarts, Types DEF OneInv, IInv, Pc
  <1>2. /\ proc' = [proc EXCEPT ![p] = r] /\ proc[p].pc = "idle"
        /\ job' = [job EXCEPT ![j] = row]
        /\ UNCHANGED <<notification, queue, died, overlapped>>
    BY DEF Commit, At, Next1, Started
  <1> HIDE DEF r
  <1>3. proc'[p] = r /\ \A q \in Proc : q = p
    BY <1>2, Types DEF OneAtATime, OneInv, IInv
  <1>4. \A q \in Proc : WayIsClear(q)' /\ ProcIsCurrent(q)'
    BY <1>1, <1>3 DEF WayIsClear, ProcIsCurrent
  <1>5. ASSUME NEW k \in Key PROVE EntryIsCurrent(k)'
    <2> SUFFICES ASSUME queue[k].pc \in Current, notification[queue[k].note].status = "QUEUED",
                        k[1] \notin died,
                        ~(r.job = k[1] /\ r.pc \in {"find", "remove", "mark"})
                 PROVE  /\ job'[k[1]].status = "SCHEDULED"
                        /\ \/ queue[k].due = job'[k[1]].start - Offset[k[2]]
                           \/ queue[k].attempts + queue[k].stalls > 0
      BY <1>2, <1>3 DEF EntryIsCurrent
    <2>1. /\ job[k[1]].status = "SCHEDULED"
          /\ \/ queue[k].due = job[k[1]].start - Offset[k[2]]
             \/ queue[k].attempts + queue[k].stalls > 0
      BY <1>2, Unminded
    <2>2. k[1] # j
      BY <1>1, <2>1
    <2>3. job'[k[1]] = job[k[1]]
      BY <1>2, <2>2 DEF OneInv, IInv, TypeOK, Key
    <2> QED BY <2>1, <2>3
  <1>6. ASSUME NEW n \in DOMAIN notification PROVE RowIsMinded(n)'
    <2> SUFFICES ASSUME QueuedReminder(n), notification[n].job \notin died \cup overlapped
                 PROVE  Held(KeyOf(n)) /\ queue[KeyOf(n)].note = n
      BY <1>2 DEF RowIsMinded, QueuedReminder, Held, KeyOf
    <2>1. ~Minds(p, n)
      BY <1>2 DEF Minds
    <2> QED BY <2>1, Unminded
  <1> QED BY <1>2, <1>4, <1>5, <1>6 DEF OneInv

LEMMA ChangesOne ==
  ASSUME OneAtATime, OneInv, NEW p \in Proc, NEW j \in Job,
         \/ Complete(p, j) \/ Cancel(p, j) \/ Reopen(p, j) \/ Delete(p, j)
         \/ \E status \in EditStatus : Edit(p, j, status)
         \/ \E s \in Start :
              \/ Draft(p, j, s)
              \/ \E b \in BOOLEAN : Create(p, j, s, b) \/ Review(p, j, s, b)
  PROVE  OneInv'
  <1>0. IInv'
    BY ChangesKeep DEF OneInv
  <1>1. job[j] \in JobRow
    BY DEF OneInv, IInv, TypeOK
  <1>2. ASSUME NEW status \in JobStatus
        PROVE  [job[j] EXCEPT !.status = status] \in JobRow
    BY <1>1 DEF JobRow
  <1>3. [job[j] EXCEPT !.deleted = TRUE] \in JobRow
    BY <1>1 DEF JobRow
  <1>5. ASSUME NEW s \in Start, NEW status \in JobStatus, NEW b \in BOOLEAN
        PROVE  [status |-> status, start |-> s, email |-> b, deleted |-> FALSE] \in JobRow
    BY DEF JobRow
  <1>6. CASE Complete(p, j)
    BY <1>0, <1>2, <1>6, CommitOne DEF Complete, JobStatus
  <1>7. CASE Cancel(p, j)
    BY <1>0, <1>2, <1>7, CommitOne DEF Cancel, JobStatus
  <1>8. CASE Reopen(p, j)
    BY <1>0, <1>2, <1>8, CommitOne DEF Reopen, JobStatus
  <1>9. CASE Delete(p, j)
    BY <1>0, <1>3, <1>9, CommitOne DEF Delete
  <1>10. ASSUME NEW status \in EditStatus, Edit(p, j, status) PROVE OneInv'
    BY <1>0, <1>2, <1>10, CommitOne, ConstantsAssumption DEF Edit
  <1>11. ASSUME NEW s \in Start, Draft(p, j, s) PROVE OneInv'
    BY <1>0, <1>5, <1>11, CommitOne DEF Draft, JobStatus
  <1>12. ASSUME NEW s \in Start, NEW b \in BOOLEAN, Create(p, j, s, b) PROVE OneInv'
    BY <1>0, <1>5, <1>12, CommitOne DEF Create, JobStatus
  <1>13. ASSUME NEW s \in Start, NEW b \in BOOLEAN, Review(p, j, s, b) PROVE OneInv'
    <2>1. PICK row : row = [job[j] EXCEPT !.start = s,
                                          !.status = IF b THEN "SCHEDULED" ELSE @]
      OBVIOUS
    <2>2. row \in JobRow
      BY <1>1, <2>1 DEF JobRow, JobStatus
    <2> QED BY <1>0, <1>13, <2>1, <2>2, CommitOne DEF Review
  <1> QED BY <1>6, <1>7, <1>8, <1>9, <1>10, <1>11, <1>12, <1>13

\* A step of the one request that leaves the queue and the jobs alone, decides rows, and
\* writes none but what it then minds.
LEMMA RowsOne ==
  ASSUME OneAtATime, OneInv, IInv', NEW p \in Proc, NEW r, proc' = [proc EXCEPT ![p] = r],
         UNCHANGED <<job, queue, died, overlapped>>, proc[p].pc \notin {"find", "remove"},
         \A n \in DOMAIN notification :
           /\ n \in DOMAIN notification'
           /\ notification'[n].job = notification[n].job
           /\ notification'[n].type = notification[n].type
           /\ notification'[n].status = "QUEUED" =>
                notification[n].status = "QUEUED" /\ ~(QueuedReminder(n) /\ Minds(p, n)),
         \A n \in DOMAIN notification' :
           n \notin DOMAIN notification /\ QueuedReminder(n)' => Minds(p, n)',
         WayIsClear(p)', ProcIsCurrent(p)'
  PROVE  OneInv'
  <1>1. proc'[p] = r /\ \A q \in Proc : q = p
    BY Types DEF OneAtATime, OneInv, IInv
  <1>2. ASSUME NEW k \in Key PROVE EntryIsCurrent(k)'
    <2> SUFFICES ASSUME queue[k].pc \in Current, notification'[queue[k].note].status = "QUEUED",
                        k[1] \notin died
                 PROVE  /\ job[k[1]].status = "SCHEDULED"
                        /\ \/ queue[k].due = job[k[1]].start - Offset[k[2]]
                           \/ queue[k].attempts + queue[k].stalls > 0
      BY DEF EntryIsCurrent
    <2> DEFINE m == queue[k].note
    <2>1. /\ m \in DOMAIN notification /\ notification[m].job = k[1]
          /\ notification[m].type \in Reminder
      BY DEF OneInv, IInv, EntryOwnsRow, Held, Current, Key
    <2>2. notification[m].status = "QUEUED" /\ ~Minds(p, m)
      BY <2>1 DEF QueuedReminder
    <2>3. ~(proc[p].job = k[1] /\ proc[p].pc \in {"find", "remove", "mark"})
      BY <2>1, <2>2 DEF Minds
    <2> QED BY <2>2, <2>3, Unminded
  <1>3. ASSUME NEW n \in DOMAIN notification' PROVE RowIsMinded(n)'
    <2> SUFFICES ASSUME QueuedReminder(n)', notification'[n].job \notin died \cup overlapped
                 PROVE  RowIsMinded(n)'
      BY DEF RowIsMinded
    <2>1. CASE n \in DOMAIN notification
      <3>1. /\ QueuedReminder(n) /\ ~Minds(p, n)
            /\ notification[n].job \notin died \cup overlapped
        BY <2>1 DEF QueuedReminder
      <3>2. Held(KeyOf(n)) /\ queue[KeyOf(n)].note = n
        BY <2>1, <3>1, Unminded
      <3> QED BY <2>1, <3>2 DEF RowIsMinded, KeyOf, Held
    <2>2. CASE n \notin DOMAIN notification
      BY <2>2 DEF RowIsMinded
    <2> QED BY <2>1, <2>2
  <1>4. \A q \in Proc : WayIsClear(q)' /\ ProcIsCurrent(q)'
    BY <1>1
  <1> QED BY <1>2, <1>3, <1>4 DEF OneInv

\* The entry that is to e-mail a row of a reminder.
LEMMA KeyOfRow ==
  ASSUME TypeOK, NEW n \in DOMAIN notification, QueuedReminder(n)
  PROVE  KeyOf(n) \in Key /\ KeyOf(n)[1] = notification[n].job
  <1>1. notification[n].job \in Job /\ notification[n].type \in Reminder
    BY Types DEF Notification, QueuedReminder
  <1> QED BY <1>1 DEF KeyOf, Key

LEMMA RemoveOne == ASSUME OneAtATime, OneInv, NEW p \in Proc, Remove(p) PROVE OneInv'
  <1>1. PICK r \in ProcRow(Len(notification)) :
           /\ proc' = [proc EXCEPT ![p] = r]
           /\ r.pc = "mark" /\ r.job = proc[p].job /\ r.job \in Job
           /\ r.schedule = proc[p].schedule /\ r.seen = proc[p].seen
           /\ queue' \in [Key -> EntryRow(Len(notification))]
           /\ \A k \in Key : \/ queue'[k] = queue[k] /\ (k[1] = r.job => Active(k))
                             \/ queue'[k] = Gone /\ k[1] = r.job
           /\ r.job \notin overlapped' => \A k \in Key : k[1] = r.job => queue'[k] = Gone
           /\ overlapped \subseteq overlapped'
    BY Removed DEF OneInv
  <1>2. /\ proc'[p] = r /\ \A q \in Proc : q = p
        /\ proc[p].pc = "remove" /\ IInv' /\ UNCHANGED <<job, notification, died>>
    BY <1>1, Types, RemoveKeeps DEF OneAtATime, OneInv, IInv, Remove, At
  <1>3. WayIsClear(p)'
    <2> SUFFICES ASSUME r.job \notin overlapped', NEW kind \in Reminder
                 PROVE  ~Held(<<r.job, kind>>)'
      BY <1>1, <1>2 DEF WayIsClear
    <2>1. PICK k \in Key : k = <<r.job, kind>> /\ k[1] = r.job
      BY <1>1 DEF Key
    <2>2. queue'[k] = Gone
      BY <1>1, <2>1
    <2> QED BY <2>1, <2>2 DEF Held, Gone
  <1>4. ProcIsCurrent(p)'
    <2>1. ProcIsCurrent(p)
      BY DEF OneInv
    <2> QED BY <1>1, <1>2, <2>1 DEF ProcIsCurrent
  <1>5. ASSUME NEW k \in Key PROVE EntryIsCurrent(k)'
    <2>1. CASE k[1] = r.job
      BY <1>1, <1>2, <2>1 DEF EntryIsCurrent
    <2>2. CASE k[1] # r.job
      <3>1. queue'[k] = queue[k]
        BY <1>1, <2>2
      <3> QED BY <1>1, <1>2, <2>2, <3>1, Unminded DEF EntryIsCurrent
    <2> QED BY <2>1, <2>2
  <1>6. ASSUME NEW n \in DOMAIN notification PROVE RowIsMinded(n)'
    <2> SUFFICES ASSUME QueuedReminder(n), notification[n].job \notin died \cup overlapped'
                 PROVE  RowIsMinded(n)'
      BY <1>2 DEF RowIsMinded, QueuedReminder
    <2>1. CASE notification[n].job = r.job
      <3>1. Minds(p, n)'
        BY <1>1, <1>2, <2>1 DEF Minds
      <3> QED BY <3>1 DEF RowIsMinded
    <2>2. CASE notification[n].job # r.job
      <3>1. PICK k \in Key : k = KeyOf(n) /\ k[1] = notification[n].job
        BY KeyOfRow DEF OneInv, IInv
      <3>2. Held(k) /\ queue[k].note = n
        BY <1>1, <1>2, <2>2, <3>1, Unminded DEF Minds
      <3>3. queue'[k] = queue[k] /\ KeyOf(n)' = k
        BY <1>1, <1>2, <2>2, <3>1 DEF KeyOf
      <3> QED BY <3>2, <3>3 DEF RowIsMinded, Held
    <2> QED BY <2>1, <2>2
  <1>7. \A q \in Proc : WayIsClear(q)' /\ ProcIsCurrent(q)'
    BY <1>2, <1>3, <1>4
  <1> QED BY <1>2, <1>5, <1>6, <1>7 DEF OneInv

LEMMA MarkOne == ASSUME OneAtATime, OneInv, NEW p \in Proc, Mark(p) PROVE OneInv'
  <1>1. PICK r \in ProcRow(Len(notification)) :
           /\ proc' = [proc EXCEPT ![p] = r]
           /\ r.pc \in {"idle", "create"}
           /\ r.pc = "create" =>
                /\ r.job = proc[p].job /\ r.seen = proc[p].seen /\ r.todo = Definitions
                /\ proc[p].schedule /\ proc[p].seen.status = "SCHEDULED"
    BY Marked DEF Mark, OneInv
  <1>2. /\ proc'[p] = r /\ proc[p].pc = "mark" /\ IInv'
        /\ UNCHANGED <<job, queue, died, overlapped>>
    BY <1>1, Types, MarkKeeps DEF OneInv, IInv, Mark, At
  <1>3. /\ RowsKept(0) /\ DOMAIN notification' = DOMAIN notification
        /\ \A n \in DOMAIN notification :
              notification'[n].status =
                IF notification[n].job = proc[p].job /\ QueuedReminder(n)
                THEN "CANCELED" ELSE notification[n].status
    BY MarkedRows DEF OneInv
  <1>4. WayIsClear(p) /\ ProcIsCurrent(p)
    BY DEF OneInv
  <1>5. WayIsClear(p)'
    <2>1. \A i \in DOMAIN Definitions : Definitions[i] \in Reminder
      BY DEF Reminder
    <2> QED BY <1>1, <1>2, <1>4, <2>1 DEF WayIsClear, Held
  <1>6. ProcIsCurrent(p)'
    BY <1>1, <1>2, <1>4 DEF ProcIsCurrent
  <1>7. \A n \in DOMAIN notification :
          /\ n \in DOMAIN notification'
          /\ notification'[n].job = notification[n].job
          /\ notification'[n].type = notification[n].type
          /\ notification'[n].status = "QUEUED" =>
               notification[n].status = "QUEUED" /\ ~(QueuedReminder(n) /\ Minds(p, n))
    BY <1>3 DEF RowsKept, Minds
  <1> QED BY <1>1, <1>2, <1>3, <1>5, <1>6, <1>7, RowsOne

\* With a kind of reminder dealt with, the way of the ones that are left is clear.
LEMMA DoneOne ==
  ASSUME OneInv, NEW p \in Proc, proc[p].pc \in {"create", "add", "notAdded"},
         NEW r, proc'[p] = r, UNCHANGED <<job, queue, overlapped>>,
         r.pc \in {"idle", "create"},
         r.pc = "create" =>
           r.job = proc[p].job /\ r.seen = proc[p].seen /\ r.todo = Tail(proc[p].todo)
  PROVE  WayIsClear(p)' /\ ProcIsCurrent(p)'
  <1>1. WayIsClear(p) /\ ProcIsCurrent(p) /\ IsTodo(proc[p].todo)
    BY DEF OneInv, IInv, ProcIsAimed
  <1>2. \A i \in DOMAIN Tail(proc[p].todo) : /\ i + 1 \in DOMAIN proc[p].todo
                                             /\ Tail(proc[p].todo)[i] = proc[p].todo[i + 1]
    BY <1>1, TodoGoesOn
  <1>3. WayIsClear(p)'
    <2> SUFFICES ASSUME r.pc = "create", r.job \notin overlapped,
                        NEW i \in DOMAIN Tail(proc[p].todo)
                 PROVE  ~Held(<<r.job, Tail(proc[p].todo)[i]>>)
      BY DEF WayIsClear, Held
    <2>1. ~Held(<<proc[p].job, proc[p].todo[i + 1]>>)
      BY <1>1, <1>2 DEF WayIsClear
    <2> QED BY <1>2, <2>1
  <1>4. ProcIsCurrent(p)'
    BY <1>1 DEF ProcIsCurrent
  <1> QED BY <1>3, <1>4

\* The way of a request that goes on with the same kinds stays clear.
LEMMA SameOne ==
  ASSUME OneInv, NEW p \in Proc, proc[p].pc \in {"create", "add"},
         NEW r, proc'[p] = r, UNCHANGED <<queue, overlapped>>, r.pc \in {"add", "notAdded"},
         r.job = proc[p].job, r.todo = proc[p].todo
  PROVE  WayIsClear(p)'
  <1> SUFFICES ASSUME r.job \notin overlapped, NEW i \in DOMAIN r.todo
               PROVE  queue[<<r.job, r.todo[i]>>].pc = "gone"
    BY DEF WayIsClear, Held
  <1>1. WayIsClear(p)
    BY DEF OneInv
  <1> QED BY <1>1 DEF WayIsClear, Held

LEMMA NotAddedOne == ASSUME OneAtATime, OneInv, NEW p \in Proc, NotAdded(p) PROVE OneInv'
  <1> DEFINE m == proc[p].note
  <1>1. PICK r \in ProcRow(Len(notification)) :
           /\ proc' = [proc EXCEPT ![p] = r]
           /\ r.pc \in {"idle", "create"}
           /\ r.pc = "create" =>
                /\ r.job = proc[p].job /\ r.seen = proc[p].seen
                /\ r.todo = Tail(proc[p].todo)
    BY ReminderDone DEF NotAdded, Next1, At, OneInv
  <1>2. /\ proc'[p] = r /\ proc[p].pc = "notAdded" /\ IInv'
        /\ UNCHANGED <<job, queue, died, overlapped, sent, workerDeaths>>
        /\ SetStatus(m, "FAILED") /\ "FAILED" \in NotificationStatus
        /\ m \in DOMAIN notification
    BY <1>1, Types, NotAddedKeeps
       DEF OneInv, IInv, NotAdded, At, NotificationStatus, ProcOwnsRow, HasRow, Writing
  <1>3. /\ RowsKept(0) /\ DOMAIN notification' = DOMAIN notification
        /\ \A n \in DOMAIN notification :
             notification'[n].status = IF n = m THEN "FAILED" ELSE notification[n].status
    BY <1>2, StatusSet DEF OneInv
  <1>4. WayIsClear(p)' /\ ProcIsCurrent(p)'
    BY <1>1, <1>2, DoneOne
  <1>5. \A n \in DOMAIN notification :
          /\ n \in DOMAIN notification'
          /\ notification'[n].job = notification[n].job
          /\ notification'[n].type = notification[n].type
          /\ notification'[n].status = "QUEUED" =>
               notification[n].status = "QUEUED" /\ ~(QueuedReminder(n) /\ Minds(p, n))
    BY <1>2, <1>3 DEF RowsKept, Minds
  <1> QED BY <1>1, <1>2, <1>3, <1>4, <1>5, RowsOne

LEMMA ConfirmUpdateOne ==
  ASSUME OneAtATime, OneInv, NEW p \in Proc, ConfirmUpdate(p) PROVE OneInv'
  <1> DEFINE m == proc[p].note
             status == IF proc[p].ok THEN "SENT" ELSE "FAILED"
  <1>1. /\ m \in DOMAIN notification /\ (status = "SENT" => sent[m] > 0)
        /\ status \in NotificationStatus /\ status # "QUEUED" /\ proc[p].pc = "confirmUpdate"
    BY DEF ConfirmUpdate, At, OneInv, IInv, ProcOwnsRow, ProcIsCounted, HasRow, Writing,
           NotificationStatus
  <1>2. /\ SetStatus(m, status) /\ UNCHANGED <<sent, workerDeaths, job, queue, died, overlapped>>
        /\ proc' = [proc EXCEPT ![p] = Idle] /\ IInv'
    BY ConfirmUpdateKeeps DEF ConfirmUpdate, Next1, OneInv
  <1>3. proc'[p].pc = "idle"
    BY <1>2, Types DEF OneInv, IInv, Idle
  <1> HIDE DEF m, status
  <1>4. /\ RowsKept(0) /\ DOMAIN notification' = DOMAIN notification
        /\ \A n \in DOMAIN notification :
             notification'[n].status = IF n = m THEN status ELSE notification[n].status
    BY <1>1, <1>2, StatusSet DEF OneInv
  <1>5. WayIsClear(p)' /\ ProcIsCurrent(p)'
    BY <1>3 DEF WayIsClear, ProcIsCurrent
  <1>6. \A n \in DOMAIN notification :
          /\ n \in DOMAIN notification'
          /\ notification'[n].job = notification[n].job
          /\ notification'[n].type = notification[n].type
          /\ notification'[n].status = "QUEUED" =>
               notification[n].status = "QUEUED" /\ ~(QueuedReminder(n) /\ Minds(p, n))
    BY <1>1, <1>4 DEF RowsKept, Minds
  <1> QED BY <1>1, <1>2, <1>4, <1>5, <1>6, RowsOne

LEMMA ConfirmCreateOne ==
  ASSUME OneAtATime, OneInv, NEW p \in Proc, ConfirmCreate(p) PROVE OneInv'
  <1>1. /\ proc[p].pc = "confirmCreate" /\ IInv' /\ proc[p].job \in Job
        /\ UNCHANGED <<job, queue, died, overlapped, workerDeaths>>
        /\ NewRow(proc[p].job, Confirmation, 0)
    BY ConfirmCreateKeeps DEF ConfirmCreate, At, OneInv, IInv, ProcIsAimed
  <1>t. /\ Len(notification) \in Nat /\ DOMAIN notification = 1..Len(notification)
        /\ 0 \in 0..MaxTime
    BY Types, ConstantsAssumption DEF OneInv, IInv
  <1>2. PICK r \in ProcRow(Len(notification) + 1) :
          proc' = [proc EXCEPT ![p] = r] /\ r.pc = "confirmSend"
    <2>1. Next1(p, [proc[p] EXCEPT !.pc = "confirmSend", !.note = Len(notification) + 1])
      BY DEF ConfirmCreate
    <2>2. "confirmSend" \in Pc
      BY DEF Pc
    <2> QED BY <2>1, <2>2, RowWritten DEF OneInv
  <1>3. /\ RowsKept(0) /\ DOMAIN notification' = 1..(Len(notification) + 1)
        /\ \A n \in DOMAIN notification : notification'[n] = notification[n]
        /\ notification'[Len(notification) + 1]
             = [job |-> proc[p].job, type |-> Confirmation, at |-> 0, status |-> "QUEUED"]
    BY <1>t, <1>1, RowAdded DEF OneInv
  <1>4. proc'[p] = r
    BY <1>2, Types DEF OneInv, IInv
  <1>5. WayIsClear(p)' /\ ProcIsCurrent(p)'
    BY <1>2, <1>4 DEF WayIsClear, ProcIsCurrent
  <1>6. \A n \in DOMAIN notification :
          /\ n \in DOMAIN notification' /\ notification'[n] = notification[n]
          /\ notification'[n].status = "QUEUED" =>
               notification[n].status = "QUEUED" /\ ~(QueuedReminder(n) /\ Minds(p, n))
    BY <1>t, <1>1, <1>3 DEF Minds
  <1>7. ASSUME NEW n \in DOMAIN notification', n \notin DOMAIN notification
        PROVE  ~QueuedReminder(n)'
    <2>1. n = Len(notification) + 1
      BY <1>t, <1>1, <1>3, <1>7
    <2> QED BY <1>3, <2>1, ConstantsAssumption DEF QueuedReminder
  <1> QED BY <1>1, <1>2, <1>5, <1>6, <1>7, RowsOne

LEMMA CreateReminderOne ==
  ASSUME OneAtATime, OneInv, NEW p \in Proc, CreateReminder(p) PROVE OneInv'
  <1> DEFINE kind == Head(proc[p].todo)
             at == proc[p].seen.start - Offset[kind]
             m == Len(notification) + 1
  <1>1. /\ proc[p].pc = "create" /\ IInv'
        /\ UNCHANGED <<job, queue, died, overlapped, workerDeaths>>
        /\ Len(notification) \in Nat /\ DOMAIN notification = 1..Len(notification)
    BY Types, CreateReminderKeeps DEF CreateReminder, At, OneInv, IInv
  <1>2. proc[p].job \in Job /\ kind \in Reminder
    BY <1>1, ReminderAt DEF OneInv
  <1>3. WayIsClear(p) /\ ProcIsCurrent(p)
    BY DEF OneInv
  <1>4. ASSUME UNCHANGED <<notification, sent>>,
               NEW r \in ProcRow(Len(notification)), proc' = [proc EXCEPT ![p] = r],
               r.pc \in {"idle", "create"},
               r.pc = "create" =>
                 r.job = proc[p].job /\ r.seen = proc[p].seen /\ r.todo = Tail(proc[p].todo)
        PROVE  OneInv'
    <2>1. proc'[p] = r
      BY <1>4, Types DEF OneInv, IInv
    <2>2. WayIsClear(p)' /\ ProcIsCurrent(p)'
      BY <1>1, <1>4, <2>1, DoneOne
    <2> QED BY <1>1, <1>4, <2>2, AsideOne
  <1>5. ASSUME at \in 0..MaxTime, NewRow(proc[p].job, kind, at),
               NEW r \in ProcRow(m), proc' = [proc EXCEPT ![p] = r],
               r.pc = "add", r.note = m,
               r.job = proc[p].job, r.todo = proc[p].todo, r.seen = proc[p].seen
        PROVE  OneInv'
    <2>1. /\ RowsKept(0) /\ DOMAIN notification' = 1..m
          /\ \A n \in DOMAIN notification : notification'[n] = notification[n]
          /\ notification'[m]
               = [job |-> proc[p].job, type |-> kind, at |-> at, status |-> "QUEUED"]
      BY <1>1, <1>2, <1>5, RowAdded DEF OneInv
    <2>2. proc'[p] = r
      BY <1>5, Types DEF OneInv, IInv
    <2>3. WayIsClear(p)'
      BY <1>1, <1>5, <2>2, SameOne
    <2>4. ProcIsCurrent(p)'
      <3>1. notification'[r.note].at = r.seen.start - Offset[Head(r.todo)]
        BY <1>5, <2>1
      <3> HIDE DEF at, kind, m
      <3> QED BY <1>1, <1>3, <1>5, <2>2, <3>1 DEF ProcIsCurrent
    <2>5. \A n \in DOMAIN notification :
            /\ n \in DOMAIN notification' /\ notification'[n] = notification[n]
            /\ notification'[n].status = "QUEUED" =>
                 notification[n].status = "QUEUED" /\ ~(QueuedReminder(n) /\ Minds(p, n))
      BY <1>1, <2>1 DEF Minds
    <2>6. ASSUME NEW n \in DOMAIN notification', n \notin DOMAIN notification
          PROVE  Minds(p, n)'
      <3>1. n = m
        BY <1>1, <2>1, <2>6
      <3> QED BY <1>5, <2>1, <2>2, <3>1 DEF Minds
    <2> QED BY <1>1, <1>5, <2>3, <2>4, <2>5, <2>6, RowsOne
  <1> QED BY <1>4, <1>5, ReminderCreated DEF OneInv

LEMMA AddReminderOne ==
  ASSUME OneAtATime, OneInv, NEW p \in Proc, AddReminder(p) PROVE OneInv'
  <1> DEFINE k == <<proc[p].job, Head(proc[p].todo)>>
             n == proc[p].note
  <1>1. /\ proc[p].pc = "add" /\ IInv' /\ IsTodo(proc[p].todo) /\ WayIsClear(p)
        /\ ProcIsCurrent(p)
        /\ UNCHANGED <<job, notification, died, overlapped>>
    BY AddReminderKeeps DEF AddReminder, At, OneInv, IInv, ProcIsAimed
  <1>2. /\ k \in Key /\ n \in DOMAIN notification
        /\ notification[n].job = k[1] /\ notification[n].type = k[2]
        /\ NewEntry(p).pc = "delayed" /\ NewEntry(p).note = n
        /\ NewEntry(p).due = notification[n].at
    BY ReminderAdded DEF OneInv
  <1>3. k[1] = proc[p].job /\ k[2] = Head(proc[p].todo)
    OBVIOUS
  <1>4. PICK r \in ProcRow(Len(notification)) :
          /\ proc' = [proc EXCEPT ![p] = r]
          /\ \/ /\ queue' = IF Held(k) THEN queue ELSE [queue EXCEPT ![k] = NewEntry(p)]
                /\ r.pc \in {"idle", "create"}
                /\ r.pc = "create" =>
                     /\ r.job = proc[p].job /\ r.seen = proc[p].seen
                     /\ r.todo = Tail(proc[p].todo)
             \/ /\ UNCHANGED queue
                /\ r.pc = "notAdded" /\ r.note = n
                /\ r.job = proc[p].job /\ r.seen = proc[p].seen /\ r.todo = proc[p].todo
    BY ReminderAdded DEF OneInv
  <1>5. proc'[p] = r /\ \A q \in Proc : q = p
    BY <1>4, Types DEF OneAtATime, OneInv, IInv
  <1> HIDE DEF k, n
  <1>6. CASE UNCHANGED queue /\ r.pc = "notAdded"
    <2>1. WayIsClear(p)'
      BY <1>1, <1>4, <1>5, <1>6, SameOne
    <2>2. ProcIsCurrent(p)'
      BY <1>1, <1>4, <1>5, <1>6 DEF ProcIsCurrent
    <2> QED BY <1>1, <1>4, <1>6, <2>1, <2>2, AsideOne DEF n
  <1>7. CASE UNCHANGED queue /\ Held(k) /\ r.pc \in {"idle", "create"}
    <2>1. WayIsClear(p)' /\ ProcIsCurrent(p)'
      BY <1>1, <1>4, <1>5, <1>7, DoneOne
    <2>2. proc[p].job \in overlapped
      <3>1. 1 \in DOMAIN proc[p].todo /\ Head(proc[p].todo) = proc[p].todo[1]
        BY <1>1, TodoGoesOn
      <3> QED BY <1>1, <1>7, <3>1 DEF WayIsClear, k
    <2> QED BY <1>1, <1>4, <1>7, <2>1, <2>2, AsideOne
  <1>8. CASE ~Held(k) /\ queue' = [queue EXCEPT ![k] = NewEntry(p)] /\ r.pc \in {"idle", "create"}
    <2>1. queue'[k] = NewEntry(p) /\ \A l \in Key \ {k} : queue'[l] = queue[l]
      BY <1>2, <1>8, Types DEF OneInv, IInv
    <2>2. WayIsClear(p)'
      <3> SUFFICES ASSUME r.pc = "create", r.job \notin overlapped,
                          NEW i \in DOMAIN Tail(proc[p].todo)
                   PROVE  queue'[<<r.job, Tail(proc[p].todo)[i]>>].pc = "gone"
        <4>1. r.pc = "create" => r.job = proc[p].job /\ r.todo = Tail(proc[p].todo)
          BY <1>4, <1>8
        <4>2. overlapped' = overlapped /\ proc'[p] = r /\ r.pc \in {"idle", "create"}
          BY <1>1, <1>5, <1>8
        <4> QED BY <4>1, <4>2 DEF WayIsClear, Held
      <3>1. /\ i + 1 \in DOMAIN proc[p].todo
            /\ Tail(proc[p].todo)[i] = proc[p].todo[i + 1]
            /\ Tail(proc[p].todo)[i] # Head(proc[p].todo)
        BY <1>1, TodoGoesOn
      <3>2. PICK l \in Key : l = <<proc[p].job, proc[p].todo[i + 1]>> /\ l # k
        <4>1. proc[p].job \in Job
          BY <1>1, ReminderAt DEF OneInv
        <4>2. proc[p].todo[i + 1] \in Reminder
          BY <1>1, <3>1 DEF IsTodo
        <4>3. <<proc[p].job, proc[p].todo[i + 1]>> \in Key
          BY <4>1, <4>2 DEF Key
        <4>4. <<proc[p].job, proc[p].todo[i + 1]>> # k
          BY <3>1 DEF k
        <4> QED BY <4>3, <4>4
      <3>3. r.job = proc[p].job
        BY <1>4, <1>8
      <3>4. ~Held(l)
        BY <1>1, <3>1, <3>2, <3>3 DEF WayIsClear
      <3> QED BY <2>1, <3>1, <3>2, <3>3, <3>4 DEF Held
    <2>3. ProcIsCurrent(p)'
      BY <1>1, <1>4, <1>5, <1>8 DEF ProcIsCurrent
    <2>4. ASSUME NEW l \in Key PROVE EntryIsCurrent(l)'
      <3>1. CASE l = k
        <4>1. /\ job[k[1]].status = "SCHEDULED"
              /\ queue'[k].due = job[k[1]].start - Offset[k[2]]
          BY <1>1, <1>2, <1>3, <2>1 DEF ProcIsCurrent, n
        <4> QED BY <1>1, <3>1, <4>1 DEF EntryIsCurrent
      <3>2. CASE l # k
        <4>1. queue'[l] = queue[l]
          BY <2>1, <3>2
        <4> QED BY <1>1, <4>1, Unminded DEF EntryIsCurrent
      <3> QED BY <3>1, <3>2
    <2>5. ASSUME NEW i \in DOMAIN notification PROVE RowIsMinded(i)'
      <3> SUFFICES ASSUME QueuedReminder(i), notification[i].job \notin died \cup overlapped
                   PROVE  RowIsMinded(i)'
        BY <1>1 DEF RowIsMinded, QueuedReminder
      <3>1. KeyOf(i)' = KeyOf(i)
        BY <1>1 DEF KeyOf
      <3>2. CASE i = n
        <4>1. KeyOf(i) = k
          BY <1>2, <1>3, <3>2 DEF KeyOf, k
        <4> QED BY <1>2, <2>1, <3>1, <3>2, <4>1 DEF RowIsMinded, Held
      <3>3. CASE i # n
        <4>1. Held(KeyOf(i)) /\ queue[KeyOf(i)].note = i
          BY <1>1, <3>3, Unminded DEF Minds, n
        <4>2. KeyOf(i) \in Key \ {k}
          BY <1>8, <4>1, KeyOfRow DEF OneInv, IInv
        <4> QED BY <2>1, <3>1, <4>1, <4>2 DEF RowIsMinded, Held
      <3> QED BY <3>2, <3>3
    <2>6. \A q \in Proc : WayIsClear(q)' /\ ProcIsCurrent(q)'
      BY <1>5, <2>2, <2>3
    <2> QED BY <1>1, <2>4, <2>5, <2>6 DEF OneInv
  <1> QED BY <1>4, <1>6, <1>7, <1>8

LEMMA InitOne == ASSUME Init PROVE OneInv
  <1>1. IInv
    BY InitEstablishes
  <1>2. Idle.pc = "idle" /\ Gone.pc = "gone"
    BY DEF Idle, Gone
  <1>3. (\A p \in Proc : proc[p].pc = "idle") /\ (\A k \in Key : queue[k].pc = "gone")
    BY <1>2 DEF Init, Key
  <1>4. DOMAIN notification = {}
    BY EmptySeq DEF Init
  <1>5. \A p \in Proc : WayIsClear(p) /\ ProcIsCurrent(p)
    BY <1>3 DEF WayIsClear, ProcIsCurrent
  <1>6. \A k \in Key : EntryIsCurrent(k)
    BY <1>3 DEF EntryIsCurrent, Current
  <1> QED BY <1>1, <1>4, <1>5, <1>6 DEF OneInv

LEMMA NextOne == ASSUME OneAtATime, OneInv, [Next]_vars PROVE OneInv'
  <1>1. CASE UNCHANGED vars
    <2>1. IInv' /\ UNCHANGED <<job, notification, queue, proc, died, overlapped>>
      BY <1>1, NextKeeps DEF OneInv, vars
    <2> QED BY <2>1, EntriesStay, WorkOne
  <1>2. ASSUME NEW p \in Proc, Request(p) PROVE OneInv'
    BY <1>2, FindOne, RemoveOne, MarkOne, CreateReminderOne, AddReminderOne,
       NotAddedOne, ConfirmCreateOne, ConfirmSendOne, ConfirmUpdateOne DEF Request
  <1>3. ASSUME NEW k \in DOMAIN queue, Worker(k) PROVE OneInv'
    <2>1. k \in Key
      BY Types DEF OneInv, IInv
    <2> QED BY <1>3, <2>1, TakeOne, ReadNotificationOne, LoadJobOne, SendOne, SettleOne
            DEF Worker
  <1>4. CASE Next
    BY <1>2, <1>3, <1>4, DieOne, ChangesOne, ConfirmOne, ClientEmailOne, GiveUpOne,
       WorkerDieOne, TickOne DEF Next
  <1> QED BY <1>1, <1>4

LEMMA OneInvariance == OneAtATime => (Spec => []OneInv)
  <1> SUFFICES ASSUME OneAtATime PROVE Spec => []OneInv
    OBVIOUS
  <1>1. Init => OneInv
    BY InitOne
  <1>2. OneInv /\ [Next]_vars => OneInv'
    BY NextOne
  <1> QED BY <1>1, <1>2, PTL DEF Spec

\* When requests are served one at a time, every reminder that staff are shown as
\* scheduled has an entry in the queue that will send it, unless a request of its job
\* died or its reminders were taken off during an attempt: a row is queued by the
\* request that wrote it or marked by the one that replaces it, and neither finds an
\* entry in its way.
THEOREM QueuedCorrect == OneAtATime => (Spec => []ScheduledIsQueued)
  <1>1. ASSUME OneInv PROVE ScheduledIsQueued
    <2> SUFFICES ASSUME \A p \in Proc : At(p, "idle"), NEW n \in DOMAIN notification,
                        QueuedReminder(n), notification[n].job \notin died \cup overlapped
                 PROVE  Held(KeyOf(n)) /\ queue[KeyOf(n)].note = n
      BY DEF ScheduledIsQueued, QueuedReminder, KeyOf
    <2>1. \A p \in Proc : ~Minds(p, n)
      BY DEF Minds, At
    <2> QED BY <1>1, <2>1 DEF OneInv, RowIsMinded
  <1> QED BY <1>1, OneInvariance, PTL

\* When requests are served one at a time, a reminder that waits in the queue is for a
\* scheduled job and, until it has been tried, at the time that the job has now, through
\* moves, cancellations, reopening and attempts that overlap them: an entry that a
\* request could not take off is of a row it cancels.
THEOREM FollowCorrect == OneAtATime => (Spec => []RemindersFollowTheJob)
  <1>1. ASSUME OneInv PROVE RemindersFollowTheJob
    <2> SUFFICES ASSUME \A p \in Proc : At(p, "idle"), NEW k \in DOMAIN queue,
                        queue[k].pc = "delayed", notification[queue[k].note].status = "QUEUED",
                        k[1] \notin died
                 PROVE  /\ job[k[1]].status = "SCHEDULED"
                        /\ \/ queue[k].due = job[k[1]].start - Offset[k[2]]
                           \/ queue[k].attempts + queue[k].stalls > 0
      BY DEF RemindersFollowTheJob
    <2>1. k \in Key
      BY <1>1, Types DEF OneInv, IInv
    <2>2. ~ \E p \in Proc : proc[p].job = k[1] /\ proc[p].pc \in {"find", "remove", "mark"}
      BY DEF At
    <2> QED BY <1>1, <2>1, <2>2 DEF OneInv, EntryIsCurrent, Current
  <1> QED BY <1>1, OneInvariance, PTL
=============================================================================
