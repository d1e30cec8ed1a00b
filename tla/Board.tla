-------------------------------- MODULE Board --------------------------------
(***************************************************************************)
(* What one browser tab shows of the server's rows: the React Query cache   *)
(* behind the schedule board and the job drawer, its loads, and the         *)
(* mutations that write it before, or when, the server answers              *)
(* (useScheduleInteractions.ts, jobs.queries.ts, tasks.queries.ts).         *)
(*                                                                          *)
(* A query is a list of a day or the details of one job.  A load is sent,   *)
(* served from the database, and arrives; a mutation is sent, committed or  *)
(* refused, and its answer handled.  Everything may come in between: other  *)
(* users' changes, a second drag, a page change.  React Query and the       *)
(* network are external.                                                    *)
(***************************************************************************)
EXTENDS Naturals

CONSTANTS
  List, Item, ListOf, \* the day's lists, its jobs and tasks, and the list each is in
  Job,                \* the items with details of their own
  Mutation,           \* the user's mutations
  Time,               \* times an item can be moved to
  View,               \* pages: the queries each mounts; {} is a page with none of these
  BoardLimits         \* bounds: the pages that are opened, the kinds each mutation can be, the
                      \* statuses that other users set, how many changes others make, and how
                      \* many refusals, lost answers and failed loads there are

Query == List \cup Job
Covers(q) == IF q \in Job THEN {q} ELSE {i \in Item : ListOf[i] = q}

Status == {"SCHEDULED", "DONE", "CANCELED", "GONE"}
Field == {"at", "status", "comments"}
\* The columns told apart.  A comment is known by its mutation; "temp" before it has an id.
Row == [at : Time, status : Status, comments : SUBSET (Mutation \X {"saved", "temp"})]
Kind == {"drag", "complete", "comment", "cancel", "reopen", "edit", "delete",
         "editTask", "deleteTask"}
Statuses == [cancel |-> "CANCELED", reopen |-> "SCHEDULED", complete |-> "DONE", delete |-> "GONE",
             deleteTask |-> "GONE"]

NoData == [none |-> TRUE]

BoardAssumption ==
  /\ ListOf \in [Item -> List] /\ Job \subseteq Item /\ List \cap Job = {}
  /\ Item # {} /\ "none" \notin Item /\ Time # {} /\ NoData \notin Mutation
  /\ View \subseteq SUBSET (List \cup Job) /\ {} \in View
  /\ BoardLimits \subseteq [views : SUBSET View, kinds : [Mutation -> SUBSET Kind],
                            statuses : SUBSET Status, others : Nat, faults : Nat]

VARIABLES
  row,     \* the server's rows
  cache,   \* query -> its data, or NoData
  load,    \* query -> the load in progress
  view,    \* the page open
  mut,     \* mutation -> its progress, what it asked and the caches it saw
  saving,  \* savingItemId, as a set of at most one item
  since,   \* what a query may show of a field: its values since this tab's last write of it
  torn,    \* queries that a known race has left behind
  others, faults,
  boardLimit  \* the bounds of this behaviour

boardVars == <<row, cache, load, view, mut, saving, since, torn, others, faults,
              boardLimit>>

Idle == [stage |-> "idle", data |-> NoData, missed |-> {}]
Sent == [stage |-> "sent", data |-> NoData, missed |-> {}]
Unused == [stage |-> "unused", kind |-> "comment", item |-> CHOOSE i \in Item : TRUE,
           input |-> NoData, snap |-> [q \in Query |-> NoData], over |-> {}, behind |-> {},
           old |-> {}, answer |-> NoData]

BoardTypeOK ==
  /\ row \in [Item -> Row] /\ view \in View /\ torn \subseteq Query
  /\ \A q \in Query :
       /\ cache[q] = NoData \/ cache[q] \in [Covers(q) -> Row]
       /\ load[q].stage \in {"idle", "sent", "served"}
       /\ load[q].stage = "served" <=> load[q].data # NoData
       /\ load[q].missed \subseteq Mutation
       /\ cache[q] = NoData /\ q \in view => load[q].stage # "idle"
  /\ \A m \in Mutation :
       /\ mut[m].stage \in {"unused", "sent", "committed", "refused", "over"}
       /\ mut[m].kind \in Kind /\ mut[m].item \in Item
       /\ mut[m].over \subseteq Item /\ mut[m].behind \subseteq Query /\ mut[m].old \subseteq Query
  /\ saving \subseteq Item
  /\ others \in Nat /\ faults \in Nat /\ boardLimit \in BoardLimits

Data(q) == [i \in Covers(q) |-> row[i]]

\* A page that has been loaded.
BoardInit ==
  /\ boardLimit \in BoardLimits
  /\ row = [i \in Item |-> [at |-> CHOOSE t \in Time : TRUE, status |-> "SCHEDULED", comments |-> {}]]
  /\ cache = [q \in Query |-> Data(q)]
  /\ load = [q \in Query |-> Idle] /\ view \in boardLimit.views
  /\ mut = [m \in Mutation |-> Unused] /\ saving = {}
  /\ since = [q \in Query |-> [i \in Covers(q) |-> [f \in Field |-> {row[i][f]}]]]
  /\ torn = {} /\ others = 0 /\ faults = 0

Fault == faults < boardLimit.faults /\ faults' = faults + 1

-----------------------------------------------------------------------------
\* Loads.  A query is loaded again whenever a page mounts it (its data is stale at once);
\* a load already in progress is joined.
Navigate(v) ==
  /\ v # view
  /\ view' = v
  /\ load' = [q \in Query |-> IF q \in v \ view /\ load[q].stage = "idle" THEN Sent ELSE load[q]]
  /\ UNCHANGED <<row, cache, mut, saving, since, torn, others, faults>>

\* The mutations that write what a query shows.
Affects(m) == {ListOf[mut[m].item]} \cup ({mut[m].item} \cap Job)
InFlight(q) == {m \in Mutation : q \in Affects(m) /\ mut[m].stage \in {"sent", "committed", "refused"}}

\* The handler of the list or of the details reads the rows.  "missed" is history: this
\* tab's commits since.
Serve(q) ==
  /\ load[q].stage = "sent"
  /\ load' = [load EXCEPT ![q] = [stage |-> "served", data |-> Data(q), missed |-> {}]]
  /\ UNCHANGED <<row, cache, view, mut, saving, since, torn, others, faults>>

\* The answer replaces the data.  It mends what was torn unless it is itself behind.
Arrive(q) ==
  /\ load[q].stage = "served"
  /\ cache' = [cache EXCEPT ![q] = load[q].data]
  /\ load' = [load EXCEPT ![q] = Idle]
  /\ mut' = [m \in Mutation |-> IF m \in InFlight(q) /\ (mut[m].stage = "sent" \/ m \in load[q].missed)
                                THEN [mut[m] EXCEPT !.behind = @ \cup {q}] ELSE mut[m]]
  /\ torn' = IF load[q].missed = {} THEN torn \ {q} ELSE torn
  /\ UNCHANGED <<row, view, saving, since, others, faults>>

\* Both attempts fail: the board goes on showing the old list.  (A page of details says that
\* it has failed, and shows nothing.)
LoadFails(q) ==
  /\ q \in List /\ load[q].stage = "sent" /\ Fault
  /\ load' = [load EXCEPT ![q] = Idle]
  /\ torn' = torn \cup {q}
  /\ UNCHANGED <<row, cache, view, mut, saving, since, others>>

-----------------------------------------------------------------------------
\* Mutations, as the user starts them.
Shown(q, i) == q \in view /\ cache[q] # NoData /\ cache[q][i].status # "GONE"
OnPage(i) == Shown(i, i) /\ ListOf[i] \notin view
InDrawer(i) == Shown(i, i) /\ ListOf[i] \in view
Overlapping(m) == {n \in Mutation \ {m} : mut[n].stage \in {"sent", "committed", "refused"}}

\* m starts.  History: "over" are the items of the mutations it overlaps with, "old" the
\* queries whose snapshot is behind, or of a list that is not on the page, or is taken
\* before a load in progress arrives, and
\* "behind" those loaded on top of what m wrote by a load that did not see its commit.
Started(m, k, i, input, snap) ==
  [n \in Mutation |->
     CASE n = m -> [stage |-> "sent", kind |-> k, item |-> i, input |-> input, snap |-> snap,
                    over |-> {mut[o].item : o \in Overlapping(m)},
                    behind |-> {}, old |-> torn \cup {q \in List : q \notin view \/ load[q].stage # "idle"},
                    answer |-> NoData]
       [] n \in Overlapping(m) -> [mut[n] EXCEPT !.over = @ \cup {i}]
       [] OTHER -> mut[n]]

NoSnapshot == [q \in Query |-> NoData]

\* commitDrag: both lists are kept for the rollback, the item's list is written at once.  No
\* load is cancelled.  A canceled job is not on the board, a card being saved is disabled.
Drag(m, i, t) ==
  LET l == ListOf[i] IN
  /\ mut[m].stage = "unused" /\ "drag" \in boardLimit.kinds[m]
  /\ Shown(l, i) /\ cache[l][i].status # "CANCELED" /\ cache[l][i].at # t
  /\ i \notin saving
  /\ mut' = Started(m, "drag", i, t, [q \in Query |-> IF q \in List THEN cache[q] ELSE NoData])
  /\ cache' = [cache EXCEPT ![l][i].at = t]
  /\ saving' = {i}
  /\ UNCHANGED <<row, load, view, since, torn, others, faults>>

\* onMutate of useCompleteJob and useCreateJobComment: the load of the details is cancelled
\* (its answer is dropped), the details are kept and written.
Optimistic(m, k, i, data) ==
  /\ mut[m].stage = "unused" /\ k \in boardLimit.kinds[m]
  /\ mut' = Started(m, k, i, NoData, [NoSnapshot EXCEPT ![i] = cache[i]])
  /\ cache' = [cache EXCEPT ![i][i] = data]
  /\ load' = [load EXCEPT ![i] = Idle]
  /\ UNCHANGED <<row, view, saving, since, torn, others, faults>>

Complete(m, i) ==
  /\ OnPage(i) /\ cache[i][i].status = "SCHEDULED"
  /\ Optimistic(m, "complete", i, [cache[i][i] EXCEPT !.status = "DONE"])
\* A form that is mounted again has forgotten that a comment is pending.
Comment(m, i) ==
  /\ OnPage(i)
  /\ Optimistic(m, "comment", i, [cache[i][i] EXCEPT !.comments = @ \cup {<<m, "temp">>}])

\* The others write nothing before the answer.  The form of an edit sends the status that
\* its box and the details shown make.
Plain(m, k, i, input) ==
  /\ mut[m].stage = "unused" /\ k \in boardLimit.kinds[m]
  /\ mut' = Started(m, k, i, input, NoSnapshot)
  /\ UNCHANGED <<row, cache, load, view, saving, since, torn, others, faults>>

Cancel(m, i) == OnPage(i) /\ cache[i][i].status # "CANCELED" /\ Plain(m, "cancel", i, NoData)
Reopen(m, i) == OnPage(i) /\ cache[i][i].status # "SCHEDULED" /\ Plain(m, "reopen", i, NoData)
Delete(m, i) == OnPage(i) /\ Plain(m, "delete", i, NoData)
Edit(m, i) ==
  /\ InDrawer(i)
  /\ \E completed \in BOOLEAN :
       LET shown == cache[i][i].status
           status == CASE completed -> "DONE"
                       [] ~completed /\ shown = "DONE" -> "SCHEDULED"
                       [] OTHER -> shown
       IN Plain(m, "edit", i, status)

\* The modal of a task, opened from its card.
EditTask(m, i, t) == Shown(ListOf[i], i) /\ Plain(m, "editTask", i, t)
DeleteTask(m, i) == Shown(ListOf[i], i) /\ Plain(m, "deleteTask", i, NoData)

-----------------------------------------------------------------------------
\* The server.
Written(m) ==
  LET i == mut[m].item IN
  CASE mut[m].kind \in {"drag", "editTask"} -> [row[i] EXCEPT !.at = mut[m].input]
    [] mut[m].kind = "comment" -> [row[i] EXCEPT !.comments = @ \cup {<<m, "saved">>}]
    [] mut[m].kind = "edit" -> [row[i] EXCEPT !.status = mut[m].input]
    [] OTHER -> [row[i] EXCEPT !.status = Statuses[mut[m].kind]]

\* What the tab will have shown, once the mutation is answered: a move and a change of
\* status show in the list, and what answers with details shows all of them.
Promised(m, q) ==
  IF mut[m].kind \in {"drag", "editTask"} THEN IF q \in List THEN {"at"} ELSE {}
  ELSE IF q \in Job THEN Field
  ELSE IF mut[m].kind = "comment" THEN {} ELSE {"status"}

\* History: a commit of this tab (m) starts "since" anew where it is promised, any
\* change of a row adds to it.
Since(i, r, m) ==
  [q \in Query |-> [j \in Covers(q) |->
     IF j # i THEN since[q][j]
     ELSE [f \in Field |-> IF m # NoData /\ f \in Promised(m, q) THEN {r[f]}
                           ELSE since[q][j][f] \cup {r[f]}]]]

\* The transaction commits; it reads the details it answers with before it does.
Commit(m) ==
  LET i == mut[m].item IN
  /\ mut[m].stage = "sent" /\ row[i].status # "GONE"
  /\ row' = [row EXCEPT ![i] = Written(m)]
  /\ mut' = [mut EXCEPT ![m].stage = "committed", ![m].answer = Written(m)]
  /\ since' = Since(i, Written(m), m)
  /\ load' = [q \in Query |-> IF q \in Affects(m) /\ load[q].stage = "served"
                              THEN [load[q] EXCEPT !.missed = @ \cup {m}] ELSE load[q]]
  /\ UNCHANGED <<cache, view, saving, torn, others, faults>>

\* An error before anything is written; a job that is gone is not found.
Refuse(m) ==
  /\ mut[m].stage = "sent"
  /\ IF row[mut[m].item].status = "GONE" THEN UNCHANGED faults ELSE Fault
  /\ mut' = [mut EXCEPT ![m].stage = "refused"]
  /\ UNCHANGED <<row, cache, load, view, saving, since, torn, others>>

\* Another user moves, completes, cancels, reopens or deletes.
OtherChange(i) ==
  /\ others < boardLimit.others /\ others' = others + 1
  /\ row[i].status # "GONE"
  /\ \E r \in {[row[i] EXCEPT !.at = t] : t \in Time}
                \cup {[row[i] EXCEPT !.status = s] : s \in boardLimit.statuses} :
       /\ r # row[i]
       /\ row' = [row EXCEPT ![i] = r]
       /\ since' = Since(i, r, NoData)
  /\ UNCHANGED <<cache, load, view, mut, saving, torn, faults>>

-----------------------------------------------------------------------------
\* Answers.
Over(m) == [mut EXCEPT ![m] = [Unused EXCEPT !.stage = "over"]]

\* onSuccess and mutateAsync's end: savingItemId is reset whatever it was set to.
Freed(m) == IF mut[m].kind = "drag" THEN {} ELSE saving

\* invalidateQueries: a mounted list is loaded again; a first load is joined instead.
Invalidated(ls, ld) ==
  [q \in Query |-> IF q \in ls \cap view /\ (cache[q] # NoData \/ ld[q].stage = "idle")
                   THEN Sent ELSE ld[q]]

\* The details are set from the answer, or removed with the job (and its page left).
Answered(m) ==
  LET i == mut[m].item IN
  CASE mut[m].kind \in {"drag", "editTask", "deleteTask"} -> cache
    [] mut[m].kind = "delete" -> [cache EXCEPT ![i] = NoData]
    [] OTHER -> [cache EXCEPT ![i] = [j \in {i} |-> mut[m].answer]]

\* Of the queries m shows in, those that m leaves behind when it is answered: a load that
\* did not see it is still to arrive, has arrived on top of what a move wrote, or another
\* mutation of the same item has been answered in between.
LeftBehind(m, ld) ==
  {q \in Affects(m) : \/ m \in ld[q].missed
                      \/ mut[m].kind = "drag" /\ q \in mut[m].behind
                      \/ mut[m].item \in mut[m].over}

Succeed(m) ==
  LET i == mut[m].item
      reloads == mut[m].kind \notin {"drag", "comment"}
      kept == IF mut[m].kind = "delete" THEN [load EXCEPT ![i] = Idle] ELSE load
      next == IF reloads THEN Invalidated({ListOf[i]}, kept) ELSE kept
  IN
  /\ mut[m].stage = "committed"
  /\ cache' = Answered(m)
  /\ load' = next
  /\ view' = IF mut[m].kind = "delete" THEN {} ELSE view
  /\ mut' = Over(m) /\ saving' = Freed(m)
  /\ torn' = torn \cup LeftBehind(m, next)
  /\ UNCHANGED <<row, since, others, faults>>

\* Mistaken: what was written optimistically stays.
RolledBackNot(m) == cache

\* onError and the catch of commitDrag: every snapshot is written back.
RolledBack(m) == [q \in Query |-> IF mut[m].snap[q] # NoData THEN mut[m].snap[q] ELSE cache[q]]

\* A refusal, or the answer of a commit that is lost.  What it may leave behind: queries
\* written back to before another mutation or a load, and everything when it did commit.
Restored(m) == {q \in Query : mut[m].snap[q] # NoData}
Fail(m) ==
  /\ \/ mut[m].stage = "refused" /\ UNCHANGED faults
     \/ mut[m].stage = "committed" /\ Fault
  /\ cache' = RolledBack(m)
  /\ mut' = Over(m) /\ saving' = Freed(m)
  /\ torn' = torn \cup {q \in Restored(m) : \/ q \in mut[m].old
                                            \/ mut[m].over \cap Covers(q) # {}}
                  \cup (IF mut[m].stage = "committed" THEN Affects(m) ELSE {})
  /\ UNCHANGED <<row, load, view, since, others>>

-----------------------------------------------------------------------------
BoardStep ==
  \/ \E v \in boardLimit.views : Navigate(v)
  \/ \E q \in Query : Serve(q) \/ Arrive(q) \/ LoadFails(q)
  \/ \E m \in Mutation, i \in Item, t \in Time : Drag(m, i, t)
  \/ \E m \in Mutation, i \in Job :
       Complete(m, i) \/ Comment(m, i) \/ Cancel(m, i) \/ Reopen(m, i) \/ Edit(m, i) \/ Delete(m, i)
  \/ \E m \in Mutation, i \in Item \ Job : (\E t \in Time : EditTask(m, i, t)) \/ DeleteTask(m, i)
  \/ \E m \in Mutation : Commit(m) \/ Refuse(m) \/ Succeed(m) \/ Fail(m)
  \/ \E i \in Item : OtherChange(i)

BoardNext == BoardStep /\ UNCHANGED boardLimit

BoardSpec == BoardInit /\ [][BoardNext]_boardVars

-----------------------------------------------------------------------------
Quiet == /\ \A q \in Query : load[q].stage = "idle"
         /\ \A m \in Mutation : mut[m].stage \in {"unused", "over"}

\* Once nothing is under way, a page shows what its own mutations made or something newer,
\* never a state of before them and never a value that was only shown in advance, unless
\* one of the races named above has left the query behind (the snapshots and rollbacks of
\* useScheduleInteractions.ts and jobs.queries.ts).
ReadYourWrites ==
  Quiet => \A q \in view \ torn : cache[q] # NoData =>
             \A i \in Covers(q), f \in Field : cache[q][i][f] \in since[q][i][f]
=============================================================================
