--------------------------- MODULE ScheduleProofs ---------------------------
(***************************************************************************)
(* Proofs about the schedule of the web client: what its lists and jobs    *)
(* show while mutations and loads are under way (Board), and where a card  *)
(* is drawn that was dragged over a change of the clock (Grid).            *)
(***************************************************************************)
EXTENDS Board, Grid, TLAPS

-----------------------------------------------------------------------------
(***************************************************************************)
(* Board: what is shown is good, but for what a mutation under way still   *)
(* owes it. Each answer pays what its mutation owed, by a load or by a     *)
(* write of its own; a refusal puts back what was good when it was kept,   *)
(* unless another mutation has been at the same item since.                *)
(***************************************************************************)

\* What a query may hold, and what a load and a mutation are made of.
SomeData == {NoData} \cup UNION {[S -> Row] : S \in SUBSET Item}
BoardLoad == [stage : {"idle", "sent", "served"}, data : SomeData, missed : SUBSET Mutation]
BoardMut == [stage : {"unused", "sent", "committed", "refused", "over"}, kind : Kind, item : Item,
             input : {NoData} \cup Time \cup Status, snap : [Query -> SomeData],
             over : SUBSET Item, behind : SUBSET Query, old : SUBSET Query, answer : {NoData} \cup Row]
DataOf(q) == {NoData} \cup [Covers(q) -> Row]

\* Under way; and nobody else has been working on its item meanwhile.
Flying(m) == mut[m].stage \in {"sent", "committed", "refused"}
Alone(m) == mut[m].item \notin mut[m].over

\* What a mutation under way is about, and the caches it has kept.
IsFlying(r) ==
  /\ r.kind \in {"drag", "editTask"} => r.input \in Time
  /\ r.kind = "edit" => r.input \in Status
  /\ r.kind \in {"complete", "comment", "cancel", "reopen", "edit", "delete"} => r.item \in Job
  /\ r.kind \in {"editTask", "deleteTask"} => r.item \notin Job
  /\ \A q \in Query : r.snap[q] \in DataOf(q)
  /\ r.kind = "drag" => \A q \in List : r.snap[q] # NoData
  /\ r.kind \in {"complete", "comment"} => r.snap[r.item] # NoData
  /\ r.stage = "committed" => r.answer \in Row

BoardTyped ==
  /\ row \in [Item -> Row] /\ view \in View /\ torn \subseteq Query
  /\ cache \in [Query -> SomeData] /\ \A q \in Query : cache[q] \in DataOf(q)
  /\ \A q \in List : cache[q] # NoData
  /\ load \in [Query -> BoardLoad]
  /\ \A q \in Query : IF load[q].stage = "served" THEN load[q].data \in [Covers(q) -> Row]
                                                  ELSE load[q].data = NoData
  /\ \A q \in view : cache[q] = NoData => load[q].stage # "idle"
  /\ mut \in [Mutation -> BoardMut] /\ \A m \in Mutation : Flying(m) => IsFlying(mut[m])
  /\ saving \subseteq Item /\ others \in Nat /\ faults \in Nat /\ boardLimit \in BoardLimits

\* A value that a query may show when all is quiet.
Good(q, i, f, v) == v \in since[q][i][f]

\* A value in q is not good yet because of m, which is still to be answered: it shows what m
\* has written in advance, or m has been committed and is to show.
Ahead(k, q, f) ==
  \/ k = "drag" /\ q \in List /\ f = "at"
  \/ k = "complete" /\ q \in Job /\ f = "status"
  \/ k = "comment" /\ q \in Job /\ f = "comments"
Advance(m, q, f) == Ahead(mut[m].kind, q, f)
Excuses(m, q, i, f) ==
  /\ mut[m].item = i
  /\ \/ mut[m].stage \in {"sent", "refused"} /\ Advance(m, q, f)
     \/ mut[m].stage = "committed" /\ f \in Promised(m, q)

\* The server's rows are always good to show; what a load has been served is, unless it has
\* missed a commit that is to come; and a load that has not missed it has seen it.
RowsAreGood == \A q \in Query : \A i \in Covers(q), f \in Field : Good(q, i, f, row[i][f])
LoadsAreGood ==
  \A q \in Query : load[q].stage = "served" /\ (q \notin torn \/ load[q].missed = {}) =>
    \A i \in Covers(q), f \in Field :
      \/ Good(q, i, f, load[q].data[i][f])
      \/ \E m \in load[q].missed : mut[m].stage = "committed" /\ mut[m].item = i /\ f \in Promised(m, q)
LoadsSeeCommits ==
  \A m \in Mutation : mut[m].stage = "committed" /\ Alone(m) =>
    \A q \in Affects(m) : load[q].stage = "served" /\ m \notin load[q].missed =>
      \A f \in Field : Good(q, mut[m].item, f, load[q].data[mut[m].item][f])
\* What is kept in the cache is good, but for what its mutations still owe it.
InSight(q) == q \in Job \/ (q \in view /\ load[q].stage = "idle")
CachesAreGood ==
  \A q \in Query \ torn : InSight(q) /\ cache[q] # NoData =>
    \A i \in Covers(q), f \in Field :
      Good(q, i, f, cache[q][i][f]) \/ \E m \in Mutation : Excuses(m, q, i, f)
\* What a refusal would put back is good, and so is what an answer brings.
SnapshotsAreGood ==
  \A m \in Mutation : Flying(m) => \A q \in Query \ mut[m].old :
    mut[m].snap[q] # NoData /\ mut[m].over \cap Covers(q) = {}
      /\ (mut[m].stage = "committed" => q \notin Affects(m))
    => \A i \in Covers(q), f \in Field : Good(q, i, f, mut[m].snap[q][i][f])
AnswersAreGood ==
  \A m \in Mutation :
    mut[m].stage = "committed" /\ mut[m].item \in Job /\ mut[m].kind # "drag" /\ Alone(m) =>
      \A f \in Field : Good(mut[m].item, mut[m].item, f, mut[m].answer[f])
\* A card that was dragged stays where it was dropped until its drag has been answered.
DragsAreShown ==
  \A m \in Mutation : LET i == mut[m].item IN
    mut[m].kind = "drag" /\ Alone(m) /\ ListOf[i] \notin torn \cup mut[m].behind =>
      /\ mut[m].stage = "sent" => cache[ListOf[i]][i].at = mut[m].input
      /\ mut[m].stage = "committed" => Good(ListOf[i], i, "at", cache[ListOf[i]][i].at)
\* Two mutations under way know of each other's items.
OverlapsAreKnown ==
  \A m, n \in Mutation : m # n /\ Flying(m) /\ Flying(n) => mut[n].item \in mut[m].over

BoardInv ==
  /\ BoardTyped /\ RowsAreGood /\ LoadsAreGood /\ LoadsSeeCommits /\ CachesAreGood
  /\ SnapshotsAreGood /\ AnswersAreGood /\ DragsAreShown /\ OverlapsAreKnown

-----------------------------------------------------------------------------
\* What the queries cover, and what the records are.
LEMMA BoardQueries ==
  ASSUME BoardAssumption
  PROVE  /\ \A q \in Query : /\ Covers(q) \in SUBSET Item /\ NoData \notin [Covers(q) -> Row]
                             /\ [Covers(q) -> Row] \subseteq SomeData /\ DataOf(q) \subseteq SomeData
         /\ \A q \in Job : q \in Query /\ q \in Item /\ q \notin List /\ Covers(q) = {q}
         /\ \A q \in List : q \in Query /\ q \notin Job /\ \A i \in Item : i \in Covers(q) <=> ListOf[i] = q
         /\ \A i \in Item : ListOf[i] \in List /\ i \in Covers(ListOf[i])
<1>1. \A q \in Query : Covers(q) \in SUBSET Item
  BY DEF BoardAssumption, Covers, Query
<1>2. ASSUME NEW q \in Query PROVE NoData \notin [Covers(q) -> Row]
  <2> SUFFICES ASSUME NoData \in [Covers(q) -> Row] PROVE FALSE
    OBVIOUS
  <2>1. DOMAIN NoData = {"none"}
    BY DEF NoData
  <2>2. "none" \in Covers(q)
    BY <2>1
  <2> QED BY <1>1, <2>2 DEF BoardAssumption
<1>3. ASSUME NEW q \in Query PROVE [Covers(q) -> Row] \subseteq SomeData
  BY <1>1 DEF SomeData
<1>4. \A q \in Job : q \in Query /\ q \in Item /\ q \notin List /\ Covers(q) = {q}
  BY DEF BoardAssumption, Covers, Query
<1>5. \A q \in List : q \in Query /\ q \notin Job /\ \A i \in Item : i \in Covers(q) <=> ListOf[i] = q
  BY DEF BoardAssumption, Covers, Query
<1>6. \A i \in Item : ListOf[i] \in List
  BY DEF BoardAssumption
<1> QED BY <1>1, <1>2, <1>3, <1>4, <1>5, <1>6 DEF DataOf, SomeData

LEMMA BoardAffects ==
  ASSUME BoardAssumption, BoardInv, NEW m \in Mutation
  PROVE  /\ mut[m] \in BoardMut /\ mut[m].item \in Item /\ Affects(m) \subseteq Query
         /\ \A q \in Query : q \in Affects(m) <=> mut[m].item \in Covers(q)
<1>1. mut[m] \in BoardMut /\ mut[m].item \in Item
  BY DEF BoardInv, BoardTyped, BoardMut
<1> QED BY <1>1, BoardQueries DEF Affects, Query

LEMMA BoardRecords ==
  ASSUME BoardAssumption
  PROVE  /\ Idle \in BoardLoad /\ Idle.stage = "idle" /\ Idle.data = NoData /\ Idle.missed = {}
         /\ Sent \in BoardLoad /\ Sent.stage = "sent" /\ Sent.data = NoData /\ Sent.missed = {}
         /\ Unused \in BoardMut /\ Unused.stage = "unused"
<1>1. NoData \in SomeData
  BY DEF SomeData
<1>2. Idle \in BoardLoad /\ Idle.stage = "idle" /\ Idle.data = NoData /\ Idle.missed = {}
  BY <1>1 DEF Idle, BoardLoad
<1>3. Sent \in BoardLoad /\ Sent.stage = "sent" /\ Sent.data = NoData /\ Sent.missed = {}
  BY <1>1 DEF Sent, BoardLoad
<1>4. [q \in Query |-> NoData] \in [Query -> SomeData]
  BY <1>1
<1>5. (CHOOSE i \in Item : TRUE) \in Item
  BY DEF BoardAssumption
<1>6. Unused \in BoardMut /\ Unused.stage = "unused"
  BY <1>4, <1>5 DEF Unused, BoardMut, Kind
<1> QED BY <1>2, <1>3, <1>6

LEMMA BoardStarts == BoardAssumption /\ BoardInit => BoardInv
<1> SUFFICES ASSUME BoardAssumption, BoardInit PROVE BoardInv
  OBVIOUS
<1> DEFINE first == [at |-> CHOOSE t \in Time : TRUE, status |-> "SCHEDULED", comments |-> {}]
<1>1. first \in Row
  BY DEF BoardAssumption, Row, Status
<1> HIDE DEF first
<1>2. /\ row = [i \in Item |-> first] /\ cache = [q \in Query |-> Data(q)]
      /\ load = [q \in Query |-> Idle] /\ view \in View /\ boardLimit \in BoardLimits
      /\ mut = [m \in Mutation |-> Unused] /\ saving = {}
      /\ since = [q \in Query |-> [i \in Covers(q) |-> [f \in Field |-> {row[i][f]}]]]
      /\ torn = {} /\ others = 0 /\ faults = 0
  BY DEF BoardInit, first, BoardAssumption
<1>0. \A i \in Item : row[i] = first
  BY <1>2
<1>3. ASSUME NEW q \in Query
      PROVE  /\ cache[q] \in [Covers(q) -> Row] /\ cache[q] # NoData
             /\ \A i \in Covers(q) : cache[q][i] = first /\ row[i] = first
  <2>1. cache[q] = [i \in Covers(q) |-> row[i]]
    BY <1>2 DEF Data
  <2>2. \A i \in Covers(q) : row[i] = first
    BY <1>0, BoardQueries
  <2>3. cache[q] \in [Covers(q) -> Row]
    BY <1>1, <2>1, <2>2
  <2> QED BY <2>1, <2>2, <2>3, BoardQueries
<1>4. \A m \in Mutation : mut[m].stage = "unused" /\ mut[m] = Unused
  BY <1>2, BoardRecords
<1>5. BoardTyped
  <2>1. cache \in [Query -> SomeData] /\ \A q \in Query : cache[q] \in DataOf(q)
    BY <1>2, <1>3, BoardQueries DEF DataOf
  <2>2. row \in [Item -> Row] /\ load \in [Query -> BoardLoad] /\ mut \in [Mutation -> BoardMut]
    BY <1>1, <1>2, BoardRecords
  <2>3. \A q \in Query : load[q].stage = "idle" /\ load[q].data = NoData
    BY <1>2, BoardRecords
  <2>4. \A q \in Query : cache[q] # NoData
    BY <1>3
  <2>5. view \subseteq Query
    BY <1>2 DEF BoardAssumption, Query
  <2> QED BY <1>2, <1>4, <2>1, <2>2, <2>3, <2>4, <2>5, BoardQueries DEF BoardTyped, Flying
<1>6. \A q \in Query : \A i \in Covers(q), f \in Field : Good(q, i, f, first[f])
  BY <1>2, <1>3 DEF Good
<1>7. RowsAreGood /\ CachesAreGood
  BY <1>3, <1>6 DEF RowsAreGood, CachesAreGood
<1>8. LoadsAreGood /\ LoadsSeeCommits
  BY <1>2, <1>4, BoardRecords DEF LoadsAreGood, LoadsSeeCommits
<1>9. SnapshotsAreGood /\ AnswersAreGood /\ OverlapsAreKnown
  BY <1>4 DEF SnapshotsAreGood, AnswersAreGood, OverlapsAreKnown, Flying
<1>10. DragsAreShown
  BY <1>4 DEF DragsAreShown
<1> QED BY <1>5, <1>7, <1>8, <1>9, <1>10 DEF BoardInv

-----------------------------------------------------------------------------
\* Loads.

LEMMA NavigateKeeps ==
  ASSUME BoardAssumption, BoardInv, NEW v \in boardLimit.views, Navigate(v), UNCHANGED boardLimit
  PROVE  BoardInv'
<1>1. /\ view' = v /\ UNCHANGED <<row, cache, mut, saving, since, torn, others, faults, boardLimit>>
      /\ load' = [q \in Query |-> IF q \in v \ view /\ load[q].stage = "idle" THEN Sent ELSE load[q]]
  BY DEF Navigate
<1>2. BoardTyped
  BY DEF BoardInv
<1>3. v \in View
  BY <1>2 DEF BoardTyped, BoardAssumption
<1>4. \A q \in Query : /\ load'[q].stage = "served" => load'[q] = load[q]
                       /\ load'[q].stage = "idle" => q \notin v \ view /\ load[q].stage = "idle"
  BY <1>1, BoardRecords
<1>5. BoardTyped'
  <2>1. load' \in [Query -> BoardLoad]
    BY <1>1, <1>2, BoardRecords DEF BoardTyped
  <2>2. \A q \in Query : IF load'[q].stage = "served" THEN load'[q].data \in [Covers(q) -> Row]
                                                     ELSE load'[q].data = NoData
    BY <1>1, <1>2, BoardRecords DEF BoardTyped
  <2>3. \A q \in v : cache[q] = NoData => load'[q].stage # "idle"
    BY <1>2, <1>3, <1>4 DEF BoardTyped, BoardAssumption, Query
  <2> QED BY <1>1, <1>2, <1>3, <2>1, <2>2, <2>3 DEF BoardTyped, Flying
<1>6. RowsAreGood' /\ LoadsAreGood'
  BY <1>1, <1>4 DEF BoardInv, RowsAreGood, LoadsAreGood, Good, Promised
<1>7. LoadsSeeCommits'
  <2> SUFFICES ASSUME NEW m \in Mutation, mut[m].stage = "committed", Alone(m),
                      NEW q \in Affects(m), load'[q].stage = "served", m \notin load'[q].missed
               PROVE  \A f \in Field : Good(q, mut[m].item, f, load'[q].data[mut[m].item][f])
    BY <1>1 DEF LoadsSeeCommits, Good, Affects, Alone
  <2> QED BY <1>4, BoardAffects DEF BoardInv, LoadsSeeCommits
<1>8. CachesAreGood'
  <2>1. \A q \in Query : InSight(q)' => InSight(q)
    BY <1>1, <1>4 DEF InSight
  <2> QED BY <1>1, <2>1 DEF BoardInv, CachesAreGood, Good, Excuses, Advance, Promised
<1>9. SnapshotsAreGood' /\ AnswersAreGood' /\ DragsAreShown' /\ OverlapsAreKnown'
  BY <1>1 DEF BoardInv, SnapshotsAreGood, AnswersAreGood, DragsAreShown, OverlapsAreKnown, Good,
              Alone, Flying, Affects
<1> QED BY <1>5, <1>6, <1>7, <1>8, <1>9 DEF BoardInv

LEMMA ServeKeeps ==
  ASSUME BoardAssumption, BoardInv, NEW p \in Query, Serve(p), UNCHANGED boardLimit
  PROVE  BoardInv'
<1> DEFINE new == [stage |-> "served", data |-> Data(p), missed |-> {}]
<1>1. /\ UNCHANGED <<row, cache, mut, view, saving, since, torn, others, faults, boardLimit>>
      /\ load' = [load EXCEPT ![p] = new] /\ load[p].stage = "sent"
  BY DEF Serve
<1>2. BoardTyped
  BY DEF BoardInv
<1>3. Data(p) \in [Covers(p) -> Row] /\ \A i \in Covers(p) : Data(p)[i] = row[i]
  BY <1>2, BoardQueries DEF BoardTyped, Data
<1>4. /\ new \in BoardLoad /\ new.stage = "served" /\ new.missed = {} /\ new.data \in [Covers(p) -> Row]
      /\ \A i \in Covers(p) : new.data[i] = row[i]
  BY <1>3, BoardQueries DEF BoardLoad
<1> HIDE DEF new
<1>5. load'[p] = new /\ \A q \in Query \ {p} : load'[q] = load[q]
  BY <1>1, <1>2 DEF BoardTyped
<1>6. BoardTyped'
  <2>1. load' \in [Query -> BoardLoad]
    BY <1>1, <1>2, <1>4 DEF BoardTyped
  <2>2. \A q \in Query : IF load'[q].stage = "served" THEN load'[q].data \in [Covers(q) -> Row]
                                                     ELSE load'[q].data = NoData
    BY <1>5, <1>4, <1>2 DEF BoardTyped
  <2>3. \A q \in view : cache[q] = NoData => load'[q].stage # "idle"
    BY <1>2, <1>4, <1>5 DEF BoardTyped, BoardAssumption, Query
  <2> QED BY <1>1, <1>2, <2>1, <2>2, <2>3 DEF BoardTyped, Flying
<1>7. RowsAreGood'
  BY <1>1 DEF BoardInv, RowsAreGood, Good
<1>8. LoadsAreGood'
  <2> SUFFICES ASSUME NEW q \in Query, load'[q].stage = "served", q \notin torn \/ load'[q].missed = {},
                      NEW i \in Covers(q), NEW f \in Field
               PROVE  \/ Good(q, i, f, load'[q].data[i][f])
                      \/ \E m \in load'[q].missed : /\ mut[m].stage = "committed" /\ mut[m].item = i
                                                    /\ f \in Promised(m, q)
    BY <1>1 DEF LoadsAreGood, Good, Promised
  <2>1. CASE q = p
    BY <2>1, <1>4, <1>5 DEF BoardInv, RowsAreGood
  <2>2. CASE q # p
    BY <2>2, <1>5 DEF BoardInv, LoadsAreGood
  <2> QED BY <2>1, <2>2
<1>9. LoadsSeeCommits'
  <2> SUFFICES ASSUME NEW m \in Mutation, mut[m].stage = "committed", Alone(m),
                      NEW q \in Affects(m), load'[q].stage = "served", m \notin load'[q].missed
               PROVE  \A f \in Field : Good(q, mut[m].item, f, load'[q].data[mut[m].item][f])
    BY <1>1 DEF LoadsSeeCommits, Good, Affects, Alone
  <2>1. q \in Query /\ mut[m].item \in Covers(q)
    BY BoardAffects
  <2>2. CASE q = p
    BY <2>1, <2>2, <1>4, <1>5 DEF BoardInv, RowsAreGood
  <2>3. CASE q # p
    BY <2>1, <2>3, <1>5 DEF BoardInv, LoadsSeeCommits
  <2> QED BY <2>2, <2>3
<1>10. CachesAreGood'
  <2>1. \A q \in Query : InSight(q)' => InSight(q)
    BY <1>1, <1>4, <1>5 DEF InSight
  <2> QED BY <1>1, <2>1 DEF BoardInv, CachesAreGood, Good, Excuses, Advance, Promised
<1>11. SnapshotsAreGood' /\ AnswersAreGood' /\ DragsAreShown' /\ OverlapsAreKnown'
  BY <1>1 DEF BoardInv, SnapshotsAreGood, AnswersAreGood, DragsAreShown, OverlapsAreKnown, Good,
              Alone, Flying, Affects
<1> QED BY <1>6, <1>7, <1>8, <1>9, <1>10, <1>11 DEF BoardInv

LEMMA LoadFailsKeeps ==
  ASSUME BoardAssumption, BoardInv, NEW p \in Query, LoadFails(p), UNCHANGED boardLimit
  PROVE  BoardInv'
<1>1. /\ UNCHANGED <<row, cache, mut, view, saving, since, others, boardLimit>>
      /\ load' = [load EXCEPT ![p] = Idle] /\ torn' = torn \cup {p} /\ p \in List
      /\ faults' = faults + 1
  BY DEF LoadFails, Fault
<1>2. BoardTyped
  BY DEF BoardInv
<1>3. load'[p] = Idle /\ \A q \in Query \ {p} : load'[q] = load[q]
  BY <1>1, <1>2 DEF BoardTyped
<1>4. BoardTyped'
  <2>1. load' \in [Query -> BoardLoad]
    BY <1>1, <1>2, BoardRecords DEF BoardTyped
  <2>2. \A q \in Query : IF load'[q].stage = "served" THEN load'[q].data \in [Covers(q) -> Row]
                                                     ELSE load'[q].data = NoData
    BY <1>3, <1>2, BoardRecords DEF BoardTyped
  <2>3. \A q \in view : cache[q] = NoData => load'[q].stage # "idle"
    BY <1>1, <1>2, <1>3 DEF BoardTyped, BoardAssumption, Query
  <2>4. faults' \in Nat /\ torn' \subseteq Query
    BY <1>1, <1>2 DEF BoardTyped
  <2> QED BY <1>1, <1>2, <2>1, <2>2, <2>3, <2>4 DEF BoardTyped, Flying
<1>5. \A q \in Query : load'[q].stage = "served" => load'[q] = load[q]
  BY <1>3, BoardRecords
<1>6. RowsAreGood' /\ LoadsAreGood'
  BY <1>1, <1>5 DEF BoardInv, RowsAreGood, LoadsAreGood, Good, Promised
<1>7. LoadsSeeCommits'
  <2> SUFFICES ASSUME NEW m \in Mutation, mut[m].stage = "committed", Alone(m),
                      NEW q \in Affects(m), load'[q].stage = "served", m \notin load'[q].missed
               PROVE  \A f \in Field : Good(q, mut[m].item, f, load'[q].data[mut[m].item][f])
    BY <1>1 DEF LoadsSeeCommits, Good, Affects, Alone
  <2> QED BY <1>5, BoardAffects DEF BoardInv, LoadsSeeCommits
<1>8. CachesAreGood'
  <2>1. \A q \in Query \ torn' : q \notin torn /\ (InSight(q)' => InSight(q))
    BY <1>1, <1>3 DEF InSight
  <2> QED BY <1>1, <2>1 DEF BoardInv, CachesAreGood, Good, Excuses, Advance, Promised
<1>9. SnapshotsAreGood' /\ AnswersAreGood' /\ DragsAreShown' /\ OverlapsAreKnown'
  BY <1>1 DEF BoardInv, SnapshotsAreGood, AnswersAreGood, DragsAreShown, OverlapsAreKnown, Good,
              Alone, Flying, Affects
<1> QED BY <1>4, <1>6, <1>7, <1>8, <1>9 DEF BoardInv

\* What a mutation is about stays what it was, whatever else is noted of it.
SameMutation(m) ==
  /\ mut'[m].stage = mut[m].stage /\ mut'[m].kind = mut[m].kind /\ mut'[m].item = mut[m].item
  /\ mut'[m].input = mut[m].input /\ mut'[m].snap = mut[m].snap /\ mut'[m].answer = mut[m].answer
  /\ mut'[m].old = mut[m].old

LEMMA SameIsSame ==
  ASSUME NEW m \in Mutation, SameMutation(m)
  PROVE  /\ Flying(m)' <=> Flying(m)
         /\ Affects(m)' = Affects(m)
         /\ IsFlying(mut[m]) => IsFlying(mut'[m])
         /\ \A q \in Query : Promised(m, q)' = Promised(m, q)
         /\ \A q \in Query, i \in Item, f \in Field : Excuses(m, q, i, f)' <=> Excuses(m, q, i, f)
<1>1. /\ mut'[m].stage = mut[m].stage /\ mut'[m].kind = mut[m].kind /\ mut'[m].item = mut[m].item
      /\ mut'[m].input = mut[m].input /\ mut'[m].snap = mut[m].snap /\ mut'[m].answer = mut[m].answer
  BY DEF SameMutation
<1>2. \A q \in Query : Promised(m, q)' = Promised(m, q)
  BY <1>1 DEF Promised
<1>3. \A q \in Query, f \in Field : Advance(m, q, f)' <=> Advance(m, q, f)
  BY <1>1 DEF Advance
<1>4. IsFlying(mut[m]) => IsFlying(mut'[m])
  BY <1>1 DEF IsFlying
<1>5. Affects(m)' = Affects(m) /\ (Flying(m)' <=> Flying(m))
  BY <1>1 DEF Affects, Flying
<1> QED BY <1>1, <1>2, <1>3, <1>4, <1>5 DEF Excuses

LEMMA ArriveKeeps ==
  ASSUME BoardAssumption, BoardInv, NEW p \in Query, Arrive(p), UNCHANGED boardLimit
  PROVE  BoardInv'
<1>1. /\ UNCHANGED <<row, view, saving, since, others, faults, boardLimit>>
      /\ load[p].stage = "served"
      /\ load' = [load EXCEPT ![p] = Idle] /\ cache' = [cache EXCEPT ![p] = load[p].data]
      /\ torn' = IF load[p].missed = {} THEN torn \ {p} ELSE torn
      /\ mut' = [m \in Mutation |-> IF m \in InFlight(p) /\ (mut[m].stage = "sent" \/ m \in load[p].missed)
                                    THEN [mut[m] EXCEPT !.behind = @ \cup {p}] ELSE mut[m]]
  BY DEF Arrive
<1>2. BoardTyped
  BY DEF BoardInv
<1>3. /\ load'[p] = Idle /\ cache'[p] = load[p].data /\ load[p].data \in [Covers(p) -> Row]
      /\ \A q \in Query \ {p} : load'[q] = load[q] /\ cache'[q] = cache[q]
  BY <1>1, <1>2 DEF BoardTyped
<1>4. ASSUME NEW m \in Mutation
      PROVE  /\ mut'[m] \in BoardMut /\ SameMutation(m) /\ mut'[m].over = mut[m].over
             /\ mut[m].behind \subseteq mut'[m].behind
             /\ mut'[m].behind = mut[m].behind =>
                  ~(m \in InFlight(p) /\ (mut[m].stage = "sent" \/ m \in load[p].missed)) \/ p \in mut[m].behind
  <2>1. mut[m] \in BoardMut
    BY <1>2 DEF BoardTyped
  <2>2. CASE m \in InFlight(p) /\ (mut[m].stage = "sent" \/ m \in load[p].missed)
    <3>1. mut'[m] = [mut[m] EXCEPT !.behind = @ \cup {p}]
      BY <1>1, <2>2
    <3>2. mut[m].behind \cup {p} \in SUBSET Query
      BY <2>1 DEF BoardMut
    <3>3. mut'[m].behind = mut[m].behind \cup {p}
      BY <3>1, <2>1 DEF BoardMut
    <3> QED BY <2>1, <3>1, <3>2, <3>3 DEF BoardMut, SameMutation
  <2>3. CASE ~(m \in InFlight(p) /\ (mut[m].stage = "sent" \/ m \in load[p].missed))
    BY <1>1, <2>1, <2>3 DEF SameMutation
  <2> QED BY <2>2, <2>3
<1>5. \A m \in Mutation : m \in InFlight(p) /\ (mut[m].stage = "sent" \/ m \in load[p].missed)
                            => p \in mut'[m].behind
  BY <1>1, <1>2 DEF BoardTyped, BoardMut
<1>6. \A m \in Mutation : /\ SameMutation(m) /\ (Alone(m)' <=> Alone(m))
                          /\ Flying(m)' <=> Flying(m)
                          /\ Affects(m)' = Affects(m)
                          /\ IsFlying(mut[m]) => IsFlying(mut'[m])
                          /\ \A q \in Query : Promised(m, q)' = Promised(m, q)
                          /\ \A q \in Query, i \in Item, f \in Field : Excuses(m, q, i, f)' <=> Excuses(m, q, i, f)
  BY <1>4, SameIsSame DEF Alone, SameMutation
<1>7. BoardTyped'
  <2>1. load' \in [Query -> BoardLoad]
    BY <1>1, <1>2, BoardRecords DEF BoardTyped
  <2>2. \A q \in Query : IF load'[q].stage = "served" THEN load'[q].data \in [Covers(q) -> Row]
                                                     ELSE load'[q].data = NoData
    BY <1>3, <1>2, BoardRecords DEF BoardTyped
  <2>3. cache' \in [Query -> SomeData] /\ \A q \in Query : cache'[q] \in DataOf(q)
    BY <1>1, <1>2, <1>3, BoardQueries DEF BoardTyped, DataOf
  <2>4. cache'[p] # NoData
    BY <1>3, BoardQueries
  <2>5. \A q \in view : cache'[q] = NoData => load'[q].stage # "idle"
    BY <1>2, <1>3, <2>4 DEF BoardTyped, BoardAssumption, Query
  <2>6. mut' \in [Mutation -> BoardMut] /\ \A m \in Mutation : Flying(m)' => IsFlying(mut'[m])
    BY <1>1, <1>2, <1>4, <1>6 DEF BoardTyped
  <2>7. torn' \subseteq Query /\ \A q \in List : cache'[q] # NoData
    BY <1>1, <1>2, <1>3, <2>4, BoardQueries DEF BoardTyped
  <2> QED BY <1>1, <1>2, <2>1, <2>2, <2>3, <2>5, <2>6, <2>7 DEF BoardTyped, Flying
<1>8. RowsAreGood'
  BY <1>1 DEF BoardInv, RowsAreGood, Good
<1>9. LoadsAreGood'
  <2> SUFFICES ASSUME NEW q \in Query, load'[q].stage = "served", q \notin torn' \/ load'[q].missed = {},
                      NEW i \in Covers(q), NEW f \in Field
               PROVE  \/ Good(q, i, f, load'[q].data[i][f])
                      \/ \E m \in load'[q].missed : /\ mut'[m].stage = "committed" /\ mut'[m].item = i
                                                    /\ f \in Promised(m, q)'
    BY <1>1 DEF LoadsAreGood, Good
  <2>1. q # p /\ load'[q] = load[q] /\ (q \notin torn \/ load[q].missed = {})
    BY <1>1, <1>3, BoardRecords
  <2>2. load[q].missed \subseteq Mutation
    BY <1>2 DEF BoardTyped, BoardLoad
  <2> QED BY <2>1, <2>2, <1>6 DEF BoardInv, LoadsAreGood, SameMutation
<1>10. LoadsSeeCommits'
  <2> SUFFICES ASSUME NEW m \in Mutation, mut'[m].stage = "committed", Alone(m)',
                      NEW q \in Affects(m)', load'[q].stage = "served", m \notin load'[q].missed
               PROVE  \A f \in Field : Good(q, mut'[m].item, f, load'[q].data[mut'[m].item][f])
    BY <1>1 DEF LoadsSeeCommits, Good
  <2>1. q \in Query
    BY <1>6, BoardAffects
  <2>2. q # p /\ load'[q] = load[q]
    BY <2>1, <1>3, BoardRecords
  <2> QED BY <2>2, <1>6 DEF BoardInv, LoadsSeeCommits, SameMutation
<1>11. CachesAreGood'
  <2> SUFFICES ASSUME NEW q \in Query \ torn', InSight(q)', cache'[q] # NoData, NEW i \in Covers(q), NEW f \in Field
               PROVE  Good(q, i, f, cache'[q][i][f]) \/ \E m \in Mutation : Excuses(m, q, i, f)'
    BY <1>1 DEF CachesAreGood, Good
  <2>0. i \in Item
    BY BoardQueries
  <2>1. CASE q # p
    <3>1. q \notin torn /\ InSight(q) /\ cache'[q] = cache[q]
      BY <1>1, <1>3, <2>1 DEF InSight
    <3> QED BY <2>0, <3>1, <1>6 DEF BoardInv, CachesAreGood
  <2>2. CASE q = p
    <3>1. cache'[q] = load[q].data /\ load[q].stage = "served"
      BY <1>1, <1>3, <2>2
    <3>2. q \notin torn \/ load[q].missed = {}
      BY <1>1, <2>2
    <3>3. \/ Good(q, i, f, load[q].data[i][f])
          \/ \E m \in load[q].missed : mut[m].stage = "committed" /\ mut[m].item = i /\ f \in Promised(m, q)
      BY <3>1, <3>2 DEF BoardInv, LoadsAreGood
    <3>4. load[q].missed \subseteq Mutation
      BY <1>2 DEF BoardTyped, BoardLoad
    <3>5. ASSUME NEW m \in load[q].missed, mut[m].stage = "committed", mut[m].item = i, f \in Promised(m, q)
          PROVE  m \in Mutation /\ Excuses(m, q, i, f)'
      <4>1. m \in Mutation /\ Excuses(m, q, i, f)
        BY <3>4, <3>5 DEF Excuses
      <4> QED BY <4>1, <2>0, <1>6
    <3> QED BY <3>1, <3>3, <3>5
  <2> QED BY <2>1, <2>2
<1>12. SnapshotsAreGood'
  <2> SUFFICES ASSUME NEW m \in Mutation, Flying(m)', NEW q \in Query \ mut'[m].old,
                      mut'[m].snap[q] # NoData, mut'[m].over \cap Covers(q) = {},
                      mut'[m].stage = "committed" => q \notin Affects(m)',
                      NEW i \in Covers(q), NEW f \in Field
               PROVE  Good(q, i, f, mut'[m].snap[q][i][f])
    BY <1>1 DEF SnapshotsAreGood, Good
  <2>1. /\ SameMutation(m) /\ Flying(m) /\ Affects(m)' = Affects(m) /\ mut'[m].over = mut[m].over
    BY <1>4, <1>6
  <2>2. /\ mut'[m].snap = mut[m].snap /\ mut'[m].old = mut[m].old /\ mut'[m].stage = mut[m].stage
    BY <2>1 DEF SameMutation
  <2> QED BY <2>1, <2>2 DEF BoardInv, SnapshotsAreGood
<1>13. OverlapsAreKnown'
  BY <1>4, <1>6 DEF BoardInv, OverlapsAreKnown, SameMutation
<1>15. AnswersAreGood'
  <2> SUFFICES ASSUME NEW m \in Mutation, mut'[m].stage = "committed", mut'[m].item \in Job,
                      mut'[m].kind # "drag", Alone(m)', NEW f \in Field
               PROVE  Good(mut'[m].item, mut'[m].item, f, mut'[m].answer[f])
    BY <1>1 DEF AnswersAreGood, Good
  <2>1. SameMutation(m) /\ Alone(m)
    BY <1>6
  <2> QED BY <2>1 DEF BoardInv, AnswersAreGood, SameMutation
<1>14. DragsAreShown'
  <2> SUFFICES ASSUME NEW m \in Mutation, mut'[m].kind = "drag", Alone(m)',
                      ListOf[mut'[m].item] \notin torn' \cup mut'[m].behind
               PROVE  LET i == mut'[m].item IN
                      /\ mut'[m].stage = "sent" => cache'[ListOf[i]][i].at = mut'[m].input
                      /\ mut'[m].stage = "committed" => Good(ListOf[i], i, "at", cache'[ListOf[i]][i].at)
    BY <1>1 DEF DragsAreShown, Good
  <2> DEFINE i == mut[m].item
             l == ListOf[i]
  <2>1. i \in Item /\ l \in Affects(m) /\ l \in Query /\ l \in List /\ i \in Covers(l)
    BY BoardAffects, BoardQueries
  <2>2. /\ mut'[m].item = i /\ mut'[m].kind = "drag" /\ mut[m].kind = "drag" /\ mut'[m].stage = mut[m].stage
        /\ mut'[m].input = mut[m].input /\ Alone(m)
    BY <1>6 DEF SameMutation
  <2>3. l \notin torn' /\ l \notin mut'[m].behind /\ l \notin mut[m].behind
    BY <1>4, <2>2
  <2> HIDE DEF i, l
  <2>4. CASE l # p
    <3>1. cache'[l] = cache[l] /\ l \notin torn
      BY <2>4, <2>1, <2>3, <1>1, <1>3
    <3>2. /\ mut[m].stage = "sent" => cache[l][i].at = mut[m].input
          /\ mut[m].stage = "committed" => Good(l, i, "at", cache[l][i].at)
      BY <3>1, <2>2, <2>3 DEF BoardInv, DragsAreShown, i, l
    <3> QED BY <3>1, <3>2, <2>2 DEF l
  <2>5. CASE l = p
    <3>1. mut[m].stage # "sent"
      BY <2>5, <2>1, <2>3, <1>5 DEF InFlight
    <3>2. CASE mut[m].stage = "committed"
      <4>1. m \notin load[l].missed
        BY <3>2, <2>5, <2>1, <2>3, <1>5 DEF InFlight
      <4>2. Good(l, i, "at", load[l].data[i]["at"])
        BY <4>1, <3>2, <2>1, <2>2, <2>5, <1>1 DEF BoardInv, LoadsSeeCommits, Field, i
      <4>3. cache'[l] = load[l].data
        BY <1>3, <2>5
      <4> QED BY <4>2, <4>3, <3>1, <2>2 DEF l
    <3> QED BY <3>1, <3>2, <2>2
  <2> QED BY <2>4, <2>5
<1> QED BY <1>7, <1>8, <1>9, <1>10, <1>11, <1>12, <1>13, <1>14, <1>15 DEF BoardInv

-----------------------------------------------------------------------------
\* Mutations, as they start: m writes at most what Ahead names, and keeps what it writes over.

Starts(m, k, i, input, snap) ==
  /\ mut[m].stage = "unused" /\ mut' = Started(m, k, i, input, snap)
  /\ UNCHANGED <<row, view, since, torn, others, faults, boardLimit>> /\ saving' \subseteq Item
  /\ input \in {NoData} \cup Time \cup Status
  /\ k \in {"drag", "editTask"} => input \in Time
  /\ k = "edit" => input \in Status
  /\ k \in {"complete", "comment", "cancel", "reopen", "edit", "delete"} => i \in Job
  /\ k \in {"editTask", "deleteTask"} => i \notin Job
  /\ snap \in [Query -> SomeData] /\ \A q \in Query : snap[q] = NoData \/ snap[q] = cache[q]
  /\ k = "drag" => \A q \in List : snap[q] = cache[q]
  /\ k \in {"complete", "comment"} => snap[i] = cache[i] /\ cache[i] # NoData
  /\ load' \in [Query -> BoardLoad]
  /\ \A q \in Query : load'[q] = load[q] \/ (q \in Job /\ load'[q] = Idle /\ cache[q] # NoData)
  /\ cache' \in [Query -> SomeData]
  /\ \A q \in Query : cache'[q] \in DataOf(q) /\ (cache'[q] = NoData <=> cache[q] = NoData)
  /\ \A q \in Query : cache[q] # NoData => \A j \in Covers(q), f \in Field :
       cache'[q][j][f] = cache[q][j][f] \/ (j = i /\ Ahead(k, q, f))
  /\ k = "drag" => cache'[ListOf[i]][i].at = input

LEMMA StartKeeps ==
  ASSUME BoardAssumption, BoardInv, NEW m \in Mutation, NEW k \in Kind, NEW i \in Item, NEW input, NEW snap,
         Starts(m, k, i, input, snap)
  PROVE  BoardInv'
<1> USE DEF BoardInv, Starts
<1> DEFINE new == [stage |-> "sent", kind |-> k, item |-> i, input |-> input, snap |-> snap,
                   over |-> {mut[o].item : o \in Overlapping(m)},
                   behind |-> {}, old |-> torn \cup {q \in List : q \notin view \/ load[q].stage # "idle"},
                   answer |-> NoData]
           known == {mut[o].item : o \in Overlapping(m)}
           stale == torn \cup {q \in List : q \notin view \/ load[q].stage # "idle"}
<1>1. m \notin Overlapping(m) /\ Overlapping(m) \subseteq Mutation
      /\ \A n \in Mutation : n \in Overlapping(m) <=> n # m /\ Flying(n)
  BY DEF Overlapping, Flying
<1>2. known \in SUBSET Item /\ stale \in SUBSET Query
  BY <1>1, BoardAffects DEF BoardTyped, Query
<1>3. /\ new.stage = "sent" /\ new.kind = k /\ new.item = i /\ new.input = input /\ new.snap = snap
      /\ new.over = known /\ new.old = stale
  OBVIOUS
<1>4. new \in BoardMut
  <2> HIDE DEF known, stale
  <2>1. new = [stage |-> "sent", kind |-> k, item |-> i, input |-> input, snap |-> snap, over |-> known,
               behind |-> {}, old |-> stale, answer |-> NoData]
    BY DEF known, stale
  <2> HIDE DEF new
  <2> QED BY <1>2, <2>1 DEF BoardMut
<1>5. mut' = [n \in Mutation |-> CASE n = m -> new
                                   [] n \in Overlapping(m) -> [mut[n] EXCEPT !.over = @ \cup {i}]
                                   [] OTHER -> mut[n]]
  BY DEF Started
<1> HIDE DEF new
<1>6. mut'[m] = new
  BY <1>1, <1>5
<1>7. ASSUME NEW n \in Mutation \ {m}
      PROVE  /\ mut'[n] \in BoardMut /\ SameMutation(n) /\ mut[n].over \subseteq mut'[n].over
             /\ mut'[n].behind = mut[n].behind
             /\ Flying(n) => i \in mut'[n].over
  <2>1. mut[n] \in BoardMut
    BY DEF BoardTyped
  <2>2. CASE n \in Overlapping(m)
    <3>1. mut'[n] = [mut[n] EXCEPT !.over = @ \cup {i}]
      BY <1>5, <2>2
    <3>2. mut[n].over \cup {i} \in SUBSET Item
      BY <2>1 DEF BoardMut
    <3> QED BY <2>1, <3>1, <3>2 DEF BoardMut, SameMutation
  <2>3. CASE n \notin Overlapping(m)
    <3>1. mut'[n] = mut[n]
      BY <1>5, <2>3
    <3> QED BY <1>1, <2>1, <2>3, <3>1 DEF SameMutation
  <2> QED BY <2>2, <2>3
<1>8. \A n \in Mutation \ {m} :
        /\ SameMutation(n) /\ (Alone(n)' => Alone(n))
        /\ Flying(n)' <=> Flying(n)
        /\ Affects(n)' = Affects(n)
        /\ IsFlying(mut[n]) => IsFlying(mut'[n])
        /\ \A q \in Query : Promised(n, q)' = Promised(n, q)
        /\ \A q \in Query, j \in Item, f \in Field : Excuses(n, q, j, f)' <=> Excuses(n, q, j, f)
  BY <1>7, SameIsSame DEF Alone, SameMutation
<1>9. \A q \in Query, j \in Item, f \in Field : ~Excuses(m, q, j, f)
  BY DEF Excuses
<1>10. \A q \in Query, f \in Field : Ahead(k, q, f) => Excuses(m, q, i, f)'
  BY <1>3, <1>6 DEF Excuses, Advance
<1>11. \A q \in Query : load'[q].stage = "served" => load'[q] = load[q]
  BY BoardRecords
<1>12. BoardTyped'
  <2>1. \A q \in Query : IF load'[q].stage = "served" THEN load'[q].data \in [Covers(q) -> Row]
                                                     ELSE load'[q].data = NoData
    BY BoardRecords DEF BoardTyped
  <2>2. \A q \in view : cache'[q] = NoData => load'[q].stage # "idle"
    BY DEF BoardTyped, BoardAssumption, Query
  <2>3. mut' \in [Mutation -> BoardMut]
    BY <1>4, <1>5, <1>6, <1>7
  <2>4. \A n \in Mutation \ {m} : Flying(n)' => IsFlying(mut'[n])
    BY <1>8 DEF BoardTyped
  <2>5. IsFlying(mut'[m])
    <3>1. \A q \in Query : snap[q] \in DataOf(q)
      BY DEF BoardTyped, DataOf
    <3>2. k = "drag" => \A q \in List : snap[q] # NoData
      BY DEF BoardTyped
    <3> QED BY <1>3, <1>6, <3>1, <3>2 DEF IsFlying
  <2>6. \A q \in List : cache'[q] # NoData
    BY BoardQueries DEF BoardTyped
  <2> QED BY <2>1, <2>2, <2>3, <2>4, <2>5, <2>6 DEF BoardTyped
<1>13. RowsAreGood'
  BY DEF RowsAreGood, Good
<1>14. LoadsAreGood'
  <2> SUFFICES ASSUME NEW q \in Query, load'[q].stage = "served", q \notin torn' \/ load'[q].missed = {},
                      NEW j \in Covers(q), NEW f \in Field
               PROVE  \/ Good(q, j, f, load'[q].data[j][f])
                      \/ \E n \in load'[q].missed : /\ mut'[n].stage = "committed" /\ mut'[n].item = j
                                                    /\ f \in Promised(n, q)'
    BY DEF LoadsAreGood, Good
  <2>1. load'[q] = load[q] /\ (q \notin torn \/ load[q].missed = {})
    BY <1>11
  <2>2. load[q].missed \subseteq Mutation
    BY DEF BoardTyped, BoardLoad
  <2>3. \/ Good(q, j, f, load[q].data[j][f])
        \/ \E n \in load[q].missed : mut[n].stage = "committed" /\ mut[n].item = j /\ f \in Promised(n, q)
    BY <2>1 DEF LoadsAreGood
  <2> QED BY <2>1, <2>2, <2>3, <1>8 DEF SameMutation
<1>15. LoadsSeeCommits'
  <2> SUFFICES ASSUME NEW n \in Mutation, mut'[n].stage = "committed", Alone(n)',
                      NEW q \in Affects(n)', load'[q].stage = "served", n \notin load'[q].missed
               PROVE  \A f \in Field : Good(q, mut'[n].item, f, load'[q].data[mut'[n].item][f])
    BY DEF LoadsSeeCommits, Good
  <2>1. n # m
    BY <1>3, <1>6
  <2>2. q \in Affects(n) /\ q \in Query /\ Alone(n) /\ mut[n].stage = "committed" /\ mut'[n].item = mut[n].item
    BY <2>1, <1>8, BoardAffects DEF SameMutation
  <2>3. load'[q] = load[q]
    BY <2>2, <1>11
  <2> QED BY <2>2, <2>3 DEF LoadsSeeCommits
<1>16. CachesAreGood'
  <2> SUFFICES ASSUME NEW q \in Query \ torn', InSight(q)', cache'[q] # NoData, NEW j \in Covers(q), NEW f \in Field
               PROVE  Good(q, j, f, cache'[q][j][f]) \/ \E n \in Mutation : Excuses(n, q, j, f)'
    BY DEF CachesAreGood, Good
  <2>1. j \in Item /\ InSight(q) /\ cache[q] # NoData /\ q \notin torn
    BY BoardQueries DEF InSight
  <2>2. CASE j = i /\ Ahead(k, q, f)
    BY <1>10, <2>2
  <2>3. CASE cache'[q][j][f] = cache[q][j][f]
    <3>1. Good(q, j, f, cache[q][j][f]) \/ \E n \in Mutation : Excuses(n, q, j, f)
      BY <2>1 DEF CachesAreGood
    <3>2. ASSUME NEW n \in Mutation, Excuses(n, q, j, f) PROVE Excuses(n, q, j, f)'
      BY <2>1, <3>2, <1>8, <1>9
    <3> QED BY <2>3, <3>1, <3>2
  <2> QED BY <2>1, <2>2, <2>3
<1>17. SnapshotsAreGood'
  <2> SUFFICES ASSUME NEW n \in Mutation, Flying(n)', NEW q \in Query \ mut'[n].old,
                      mut'[n].snap[q] # NoData, mut'[n].over \cap Covers(q) = {},
                      mut'[n].stage = "committed" => q \notin Affects(n)',
                      NEW j \in Covers(q), NEW f \in Field
               PROVE  Good(q, j, f, mut'[n].snap[q][j][f])
    BY DEF SnapshotsAreGood, Good
  <2>1. CASE n # m
    <3>1. /\ SameMutation(n) /\ Flying(n) /\ Affects(n)' = Affects(n) /\ mut[n].over \subseteq mut'[n].over
      BY <2>1, <1>7, <1>8
    <3>2. /\ mut'[n].snap = mut[n].snap /\ mut'[n].old = mut[n].old /\ mut'[n].stage = mut[n].stage
          /\ mut[n].over \cap Covers(q) = {}
      BY <3>1 DEF SameMutation
    <3> QED BY <3>1, <3>2 DEF SnapshotsAreGood
  <2>2. CASE n = m
    <3>1. mut'[n].snap[q] = cache[q] /\ cache[q] # NoData /\ q \notin stale /\ known \cap Covers(q) = {}
      BY <2>2, <1>3, <1>6
    <3>2. InSight(q) /\ q \notin torn
      BY <3>1 DEF InSight, Query
    <3>3. Good(q, j, f, cache[q][j][f]) \/ \E o \in Mutation : Excuses(o, q, j, f)
      BY <3>1, <3>2 DEF CachesAreGood
    <3>4. ASSUME NEW o \in Mutation, Excuses(o, q, j, f) PROVE FALSE
      <4>1. Flying(o) /\ o # m /\ mut[o].item = j
        BY <3>4 DEF Excuses, Flying
      <4>2. j \in known
        BY <4>1, <1>1
      <4> QED BY <3>1, <4>2
    <3> QED BY <3>1, <3>3, <3>4
  <2> QED BY <2>1, <2>2
<1>18. AnswersAreGood'
  <2> SUFFICES ASSUME NEW n \in Mutation, mut'[n].stage = "committed", mut'[n].item \in Job,
                      mut'[n].kind # "drag", Alone(n)', NEW f \in Field
               PROVE  Good(mut'[n].item, mut'[n].item, f, mut'[n].answer[f])
    BY DEF AnswersAreGood, Good
  <2>1. n # m
    BY <1>3, <1>6
  <2>2. SameMutation(n) /\ Alone(n)
    BY <2>1, <1>8
  <2> QED BY <2>2 DEF AnswersAreGood, SameMutation
<1>19. DragsAreShown'
  <2> SUFFICES ASSUME NEW n \in Mutation, mut'[n].kind = "drag", Alone(n)',
                      ListOf[mut'[n].item] \notin torn' \cup mut'[n].behind
               PROVE  LET j == mut'[n].item IN
                      /\ mut'[n].stage = "sent" => cache'[ListOf[j]][j].at = mut'[n].input
                      /\ mut'[n].stage = "committed" => Good(ListOf[j], j, "at", cache'[ListOf[j]][j].at)
    BY DEF DragsAreShown, Good
  <2>1. CASE n = m
    BY <2>1, <1>3, <1>6
  <2>2. CASE n # m
    <3> DEFINE j == mut[n].item
    <3>1. j \in Item /\ ListOf[j] \in List /\ ListOf[j] \in Query /\ j \in Covers(ListOf[j])
      BY BoardAffects, BoardQueries
    <3>2. /\ mut'[n].item = j /\ mut[n].kind = "drag" /\ mut'[n].stage = mut[n].stage
          /\ mut'[n].input = mut[n].input /\ Alone(n) /\ mut'[n].behind = mut[n].behind
      BY <2>2, <1>7, <1>8 DEF SameMutation
    <3> HIDE DEF j
    <3>3. Flying(n) => j # i
      BY <2>2, <1>7, <3>2 DEF Alone
    <3>4. j # i => cache'[ListOf[j]][j]["at"] = cache[ListOf[j]][j]["at"]
      BY <3>1 DEF BoardTyped, Field
    <3>5. /\ mut[n].stage = "sent" => cache[ListOf[j]][j].at = mut[n].input
          /\ mut[n].stage = "committed" => Good(ListOf[j], j, "at", cache[ListOf[j]][j].at)
      BY <3>2 DEF DragsAreShown, j
    <3> QED BY <3>2, <3>3, <3>4, <3>5 DEF Flying
  <2> QED BY <2>1, <2>2
<1>20. OverlapsAreKnown'
  <2> SUFFICES ASSUME NEW n \in Mutation, NEW o \in Mutation, n # o, Flying(n)', Flying(o)'
               PROVE  mut'[o].item \in mut'[n].over
    BY DEF OverlapsAreKnown
  <2>1. CASE n # m /\ o # m
    <3>1. mut[o].item \in mut[n].over
      BY <2>1, <1>8 DEF OverlapsAreKnown
    <3> QED BY <2>1, <3>1, <1>7 DEF SameMutation
  <2>2. CASE n # m /\ o = m
    BY <2>2, <1>3, <1>6, <1>7, <1>8
  <2>3. CASE n = m /\ o # m
    <3>1. o \in Overlapping(m) /\ mut'[o].item = mut[o].item
      BY <2>3, <1>1, <1>8 DEF SameMutation
    <3> QED BY <2>3, <3>1, <1>3, <1>6
  <2> QED BY <2>1, <2>2, <2>3
<1> QED BY <1>12, <1>13, <1>14, <1>15, <1>16, <1>17, <1>18, <1>19, <1>20

LEMMA DragKeeps ==
  ASSUME BoardAssumption, BoardInv, NEW m \in Mutation, NEW i \in Item, NEW t \in Time, Drag(m, i, t),
         UNCHANGED boardLimit
  PROVE  BoardInv'
<1> DEFINE l == ListOf[i]
           snap == [q \in Query |-> IF q \in List THEN cache[q] ELSE NoData]
<1>1. /\ mut[m].stage = "unused" /\ mut' = Started(m, "drag", i, t, snap) /\ saving' = {i}
      /\ cache' = [cache EXCEPT ![l][i].at = t]
      /\ UNCHANGED <<row, load, view, since, torn, others, faults>>
  BY DEF Drag
<1>2. BoardTyped
  BY DEF BoardInv
<1>3. l \in List /\ l \in Query /\ i \in Covers(l) /\ cache[l] \in [Covers(l) -> Row]
  BY <1>2, BoardQueries DEF BoardTyped, DataOf
<1>4. snap \in [Query -> SomeData] /\ (\A q \in Query : snap[q] = NoData \/ snap[q] = cache[q])
      /\ \A q \in List : snap[q] = cache[q]
  BY <1>2, BoardQueries DEF BoardTyped, SomeData
<1> HIDE DEF snap, l
<1> DEFINE new == [cache[l][i] EXCEPT !.at = t]
           data == [cache[l] EXCEPT ![i] = new]
<1>5. new \in Row /\ new.at = t /\ \A f \in Field \ {"at"} : new[f] = cache[l][i][f]
  BY <1>3 DEF Row, Field
<1>6. cache' = [cache EXCEPT ![l] = data]
  BY <1>1
<1> HIDE DEF new
<1>7. /\ data \in [Covers(l) -> Row] /\ data # NoData /\ data[i] = new
      /\ \A j \in Covers(l) \ {i} : data[j] = cache[l][j]
  BY <1>3, <1>5, BoardQueries
<1> HIDE DEF data
<1>8. cache'[l] = data /\ \A q \in Query \ {l} : cache'[q] = cache[q]
  BY <1>2, <1>3, <1>6 DEF BoardTyped
<1>9. cache' \in [Query -> SomeData] /\ \A q \in Query : cache'[q] \in DataOf(q) /\ (cache'[q] = NoData <=> cache[q] = NoData)
  BY <1>2, <1>3, <1>6, <1>7, <1>8, BoardQueries DEF BoardTyped, DataOf
<1>10. \A q \in Query : cache[q] # NoData => \A j \in Covers(q), f \in Field :
            cache'[q][j][f] = cache[q][j][f] \/ (j = i /\ Ahead("drag", q, f))
  <2> SUFFICES ASSUME NEW q \in Query, NEW j \in Covers(q), NEW f \in Field
               PROVE  cache'[q][j][f] = cache[q][j][f] \/ (j = i /\ Ahead("drag", q, f))
    OBVIOUS
  <2>1. CASE q # l
    BY <2>1, <1>8
  <2>2. CASE q = l /\ j # i
    BY <2>2, <1>7, <1>8
  <2>3. CASE q = l /\ j = i /\ f # "at"
    BY <2>3, <1>5, <1>7, <1>8
  <2>4. CASE q = l /\ j = i /\ f = "at"
    BY <2>4, <1>3 DEF Ahead
  <2> QED BY <2>1, <2>2, <2>3, <2>4
<1>11. cache'[ListOf[i]][i].at = t
  BY <1>5, <1>7, <1>8 DEF l
<1>12. /\ "drag" \in Kind /\ load' \in [Query -> BoardLoad] /\ saving' \subseteq Item
       /\ t \in {NoData} \cup Time \cup Status /\ "drag" # "edit"
       /\ "drag" \notin {"complete", "comment", "cancel", "reopen", "edit", "delete"}
       /\ "drag" \notin {"editTask", "deleteTask"} /\ "drag" \notin {"complete", "comment"}
  BY <1>1, <1>2 DEF BoardTyped, Kind
<1>13. \A q \in Query : load'[q] = load[q] \/ (q \in Job /\ load'[q] = Idle /\ cache[q] # NoData)
  BY <1>1
<1>14. Starts(m, "drag", i, t, snap)
  BY <1>1, <1>4, <1>9, <1>10, <1>11, <1>12, <1>13 DEF Starts
<1> QED BY <1>12, <1>14, StartKeeps

LEMMA NothingKept ==
  ASSUME BoardAssumption
  PROVE  NoSnapshot \in [Query -> SomeData] /\ \A q \in Query : NoSnapshot[q] = NoData
BY DEF NoSnapshot, SomeData

LEMMA OptimisticKeeps ==
  ASSUME BoardAssumption, BoardInv, NEW m \in Mutation, NEW k \in {"complete", "comment"}, NEW i \in Job,
         NEW data \in Row, Optimistic(m, k, i, data), cache[i] # NoData,
         \A f \in Field : data[f] = cache[i][i][f] \/ Ahead(k, i, f), UNCHANGED boardLimit
  PROVE  BoardInv'
<1> DEFINE snap == [NoSnapshot EXCEPT ![i] = cache[i]]
           new == [cache[i] EXCEPT ![i] = data]
<1>1. /\ mut[m].stage = "unused" /\ mut' = Started(m, k, i, NoData, snap)
      /\ cache' = [cache EXCEPT ![i] = new] /\ load' = [load EXCEPT ![i] = Idle]
      /\ UNCHANGED <<row, view, saving, since, torn, others, faults>>
  BY DEF Optimistic
<1>2. BoardTyped
  BY DEF BoardInv
<1>3. /\ i \in Query /\ i \in Item /\ i \notin List /\ Covers(i) = {i}
      /\ cache[i] \in [Covers(i) -> Row] /\ cache[i] \in SomeData
  BY <1>2, BoardQueries DEF BoardTyped, DataOf
<1>4. snap \in [Query -> SomeData] /\ (\A q \in Query : snap[q] = NoData \/ snap[q] = cache[q]) /\ snap[i] = cache[i]
  BY <1>3, NothingKept
<1> HIDE DEF snap
<1>5. new \in [Covers(i) -> Row] /\ new # NoData /\ new[i] = data
  <2>1. new = [j \in Covers(i) |-> IF j = i THEN data ELSE cache[i][j]]
    BY <1>3
  <2> HIDE DEF new
  <2>2. new \in [Covers(i) -> Row] /\ new[i] = data
    BY <1>3, <2>1
  <2>3. NoData \notin [Covers(i) -> Row]
    BY <1>3, BoardQueries
  <2> QED BY <2>2, <2>3
<1> HIDE DEF new
<1>6. cache'[i] = new /\ \A q \in Query \ {i} : cache'[q] = cache[q]
  BY <1>1, <1>2, <1>3 DEF BoardTyped
<1>7. cache' \in [Query -> SomeData] /\ \A q \in Query : cache'[q] \in DataOf(q) /\ (cache'[q] = NoData <=> cache[q] = NoData)
  BY <1>1, <1>2, <1>3, <1>5, <1>6, BoardQueries DEF BoardTyped, DataOf
<1>8. \A q \in Query : cache[q] # NoData => \A j \in Covers(q), f \in Field :
            cache'[q][j][f] = cache[q][j][f] \/ (j = i /\ Ahead(k, q, f))
  BY <1>3, <1>5, <1>6
<1>9. load' \in [Query -> BoardLoad]
      /\ \A q \in Query : load'[q] = load[q] \/ (q \in Job /\ load'[q] = Idle /\ cache[q] # NoData)
  BY <1>1, <1>2, BoardRecords DEF BoardTyped
<1>10. k \in Kind /\ saving' \subseteq Item
  BY <1>1, <1>2 DEF BoardTyped, Kind
<1>11. Starts(m, k, i, NoData, snap)
  BY <1>1, <1>3, <1>4, <1>7, <1>8, <1>9, <1>10 DEF Starts
<1> QED BY <1>3, <1>10, <1>11, StartKeeps

LEMMA CompleteKeeps ==
  ASSUME BoardAssumption, BoardInv, NEW m \in Mutation, NEW i \in Job, Complete(m, i), UNCHANGED boardLimit
  PROVE  BoardInv'
<1> DEFINE data == [cache[i][i] EXCEPT !.status = "DONE"]
<1>1. cache[i] # NoData /\ Optimistic(m, "complete", i, data)
  BY DEF Complete, OnPage, Shown
<1>2. cache[i][i] \in Row
  BY <1>1, BoardQueries DEF BoardInv, BoardTyped, DataOf
<1>3. data \in Row /\ \A f \in Field \ {"status"} : data[f] = cache[i][i][f]
  BY <1>2 DEF Row, Field, Status
<1> HIDE DEF data
<1>4. \A f \in Field : data[f] = cache[i][i][f] \/ Ahead("complete", i, f)
  BY <1>3 DEF Ahead
<1> QED BY <1>1, <1>3, <1>4, OptimisticKeeps

LEMMA CommentKeeps ==
  ASSUME BoardAssumption, BoardInv, NEW m \in Mutation, NEW i \in Job, Comment(m, i), UNCHANGED boardLimit
  PROVE  BoardInv'
<1> DEFINE pending == cache[i][i].comments \cup {<<m, "temp">>}
           data == [cache[i][i] EXCEPT !.comments = pending]
<1>1. cache[i] # NoData /\ Optimistic(m, "comment", i, data)
  BY DEF Comment, OnPage, Shown
<1>2. cache[i][i] \in Row
  BY <1>1, BoardQueries DEF BoardInv, BoardTyped, DataOf
<1>3. pending \in SUBSET (Mutation \X {"saved", "temp"})
  BY <1>2 DEF Row
<1> HIDE DEF pending
<1>4. data \in Row /\ \A f \in Field \ {"comments"} : data[f] = cache[i][i][f]
  BY <1>2, <1>3 DEF Row, Field
<1> HIDE DEF data
<1>5. \A f \in Field : data[f] = cache[i][i][f] \/ Ahead("comment", i, f)
  BY <1>4 DEF Ahead
<1> QED BY <1>1, <1>4, <1>5, OptimisticKeeps

LEMMA PlainKeeps ==
  ASSUME BoardAssumption, BoardInv, NEW m \in Mutation, NEW i \in Item, NEW k \in Kind,
         NEW input \in {NoData} \cup Time \cup Status, Plain(m, k, i, input),
         k \notin {"drag", "complete", "comment"},
         k = "editTask" => input \in Time, k = "edit" => input \in Status,
         k \in {"cancel", "reopen", "edit", "delete"} => i \in Job,
         k \in {"editTask", "deleteTask"} => i \notin Job, UNCHANGED boardLimit
  PROVE  BoardInv'
<1>1. /\ mut[m].stage = "unused" /\ mut' = Started(m, k, i, input, NoSnapshot)
      /\ UNCHANGED <<row, cache, load, view, saving, since, torn, others, faults>>
  BY DEF Plain
<1>2. BoardTyped
  BY DEF BoardInv
<1>3. /\ cache' \in [Query -> SomeData] /\ load' \in [Query -> BoardLoad] /\ saving' \subseteq Item
      /\ \A q \in Query : cache'[q] \in DataOf(q) /\ cache'[q] = cache[q] /\ load'[q] = load[q]
  BY <1>1, <1>2 DEF BoardTyped
<1>4. \A q \in Query : cache[q] # NoData => \A j \in Covers(q), f \in Field :
            cache'[q][j][f] = cache[q][j][f] \/ (j = i /\ Ahead(k, q, f))
  BY <1>3
<1>5. Starts(m, k, i, input, NoSnapshot)
  BY <1>1, <1>3, <1>4, NothingKept DEF Starts
<1> QED BY <1>5, StartKeeps

LEMMA JobStarts ==
  ASSUME BoardAssumption, BoardInv, NEW m \in Mutation, NEW i \in Job,
         Cancel(m, i) \/ Reopen(m, i) \/ Edit(m, i) \/ Delete(m, i), UNCHANGED boardLimit
  PROVE  BoardInv'
<1>1. i \in Item
  BY BoardQueries
<1>2. CASE Cancel(m, i)
  <2>1. Plain(m, "cancel", i, NoData)
    BY <1>2 DEF Cancel
  <2> QED BY <1>1, <2>1, PlainKeeps DEF Kind
<1>3. CASE Reopen(m, i)
  <2>1. Plain(m, "reopen", i, NoData)
    BY <1>3 DEF Reopen
  <2> QED BY <1>1, <2>1, PlainKeeps DEF Kind
<1>4. CASE Delete(m, i)
  <2>1. Plain(m, "delete", i, NoData)
    BY <1>4 DEF Delete
  <2> QED BY <1>1, <2>1, PlainKeeps DEF Kind
<1>5. CASE Edit(m, i)
  <2>1. cache[i] # NoData
    BY <1>5 DEF Edit, InDrawer, Shown
  <2>2. cache[i][i].status \in Status
    BY <2>1, BoardQueries DEF BoardInv, BoardTyped, DataOf, Row
  <2>3. PICK status \in Status : Plain(m, "edit", i, status)
    BY <1>5, <2>2 DEF Edit, Status
  <2> QED BY <1>1, <2>3, PlainKeeps DEF Kind
<1> QED BY <1>2, <1>3, <1>4, <1>5

LEMMA TaskStarts ==
  ASSUME BoardAssumption, BoardInv, NEW m \in Mutation, NEW i \in Item \ Job,
         (\E t \in Time : EditTask(m, i, t)) \/ DeleteTask(m, i), UNCHANGED boardLimit
  PROVE  BoardInv'
<1>1. CASE \E t \in Time : EditTask(m, i, t)
  <2>1. PICK t \in Time : Plain(m, "editTask", i, t)
    BY <1>1 DEF EditTask
  <2> QED BY <2>1, PlainKeeps DEF Kind
<1>2. CASE DeleteTask(m, i)
  <2>1. Plain(m, "deleteTask", i, NoData)
    BY <1>2 DEF DeleteTask
  <2> QED BY <2>1, PlainKeeps DEF Kind
<1> QED BY <1>1, <1>2

-----------------------------------------------------------------------------
\* The server.

LEMMA WrittenIsARow ==
  ASSUME BoardAssumption, BoardInv, NEW m \in Mutation, Flying(m)
  PROVE  /\ Written(m) \in Row
         /\ mut[m].kind = "drag" => Written(m).at = mut[m].input
<1> DEFINE i == mut[m].item
           said == row[i].comments \cup {<<m, "saved">>}
<1>1. /\ row[i] \in Row /\ IsFlying(mut[m]) /\ mut[m].kind \in Kind
  BY BoardAffects DEF BoardInv, BoardTyped, BoardMut
<1>2. said \in SUBSET (Mutation \X {"saved", "temp"})
  BY <1>1 DEF Row
<1>3. Written(m) = CASE mut[m].kind \in {"drag", "editTask"} -> [row[i] EXCEPT !.at = mut[m].input]
                     [] mut[m].kind = "comment" -> [row[i] EXCEPT !.comments = said]
                     [] mut[m].kind = "edit" -> [row[i] EXCEPT !.status = mut[m].input]
                     [] OTHER -> [row[i] EXCEPT !.status = Statuses[mut[m].kind]]
  BY DEF Written
<1> HIDE DEF said, i
<1>4. CASE mut[m].kind \in {"drag", "editTask"}
  <2>1. mut[m].input \in Time /\ Written(m) = [row[i] EXCEPT !.at = mut[m].input]
    BY <1>1, <1>3, <1>4 DEF IsFlying
  <2> QED BY <1>1, <2>1 DEF Row
<1>5. CASE mut[m].kind = "comment"
  <2>1. Written(m) = [row[i] EXCEPT !.comments = said]
    BY <1>3, <1>5
  <2> QED BY <1>1, <1>2, <1>5, <2>1 DEF Row
<1>6. CASE mut[m].kind = "edit"
  <2>1. mut[m].input \in Status /\ Written(m) = [row[i] EXCEPT !.status = mut[m].input]
    BY <1>1, <1>3, <1>6 DEF IsFlying
  <2> QED BY <1>1, <1>6, <2>1 DEF Row
<1>7. CASE mut[m].kind \notin {"drag", "editTask", "comment", "edit"}
  <2>1. Written(m) = [row[i] EXCEPT !.status = Statuses[mut[m].kind]]
    BY <1>3, <1>7
  <2>2. Statuses[mut[m].kind] \in Status
    BY <1>1, <1>7 DEF Kind, Statuses, Status
  <2> QED BY <1>1, <1>7, <2>1, <2>2 DEF Row
<1> QED BY <1>4, <1>5, <1>6, <1>7

LEMMA SinceIs ==
  ASSUME NEW i \in Item, NEW r, NEW m
  PROVE  \A q \in Query : \A j \in Covers(q), f \in Field :
           /\ j # i => Since(i, r, m)[q][j][f] = since[q][j][f]
           /\ j = i /\ m # NoData /\ f \in Promised(m, q) => Since(i, r, m)[q][j][f] = {r[f]}
           /\ j = i /\ ~(m # NoData /\ f \in Promised(m, q)) =>
                Since(i, r, m)[q][j][f] = since[q][j][f] \cup {r[f]}
<1> SUFFICES ASSUME NEW q \in Query, NEW j \in Covers(q), NEW f \in Field
             PROVE  Since(i, r, m)[q][j][f] = IF j # i THEN since[q][j][f]
                                              ELSE IF m # NoData /\ f \in Promised(m, q) THEN {r[f]}
                                              ELSE since[q][j][f] \cup {r[f]}
  BY ZenonT(40)
<1>1. Since(i, r, m)[q] = [h \in Covers(q) |->
                     IF h # i THEN since[q][h]
                     ELSE [g \in Field |-> IF m # NoData /\ g \in Promised(m, q) THEN {r[g]}
                                           ELSE since[q][h][g] \cup {r[g]}]]
  BY DEF Since
<1>2. Since(i, r, m)[q][j] = IF j # i THEN since[q][j]
                     ELSE [g \in Field |-> IF m # NoData /\ g \in Promised(m, q) THEN {r[g]}
                                           ELSE since[q][j][g] \cup {r[g]}]
  BY <1>1
<1> QED BY <1>2

LEMMA OtherChangeKeeps ==
  ASSUME BoardAssumption, BoardInv, NEW i \in Item, OtherChange(i), UNCHANGED boardLimit
  PROVE  BoardInv'
<1>1. BoardTyped
  BY DEF BoardInv
<1>2. row[i] \in Row /\ boardLimit.statuses \subseteq Status
  BY <1>1 DEF BoardTyped, BoardAssumption
<1>3. PICK r \in Row : row' = [row EXCEPT ![i] = r] /\ since' = Since(i, r, NoData)
  <2>1. PICK r \in {[row[i] EXCEPT !.at = t] : t \in Time}
                     \cup {[row[i] EXCEPT !.status = s] : s \in boardLimit.statuses} :
                row' = [row EXCEPT ![i] = r] /\ since' = Since(i, r, NoData)
    BY DEF OtherChange
  <2>2. r \in Row
    BY <1>2 DEF Row
  <2> QED BY <2>1, <2>2
<1>4. UNCHANGED <<cache, load, view, mut, saving, torn, faults>> /\ others' = others + 1
  BY DEF OtherChange
<1>5. row'[i] = r /\ \A j \in Item \ {i} : row'[j] = row[j]
  BY <1>1, <1>3 DEF BoardTyped
<1>6. ASSUME NEW q \in Query, NEW j \in Covers(q), NEW f \in Field
      PROVE  /\ j = i => r[f] \in since'[q][j][f]
             /\ \A x : Good(q, j, f, x) => x \in since'[q][j][f]
  <2>1. /\ j # i => Since(i, r, NoData)[q][j][f] = since[q][j][f]
        /\ j = i /\ ~(NoData # NoData /\ f \in Promised(NoData, q)) =>
             Since(i, r, NoData)[q][j][f] = since[q][j][f] \cup {r[f]}
    BY SinceIs
  <2>2. since' = Since(i, r, NoData)
    BY <1>3
  <2> QED BY <2>1, <2>2 DEF Good
<1>7. BoardTyped'
  <2>1. row' \in [Item -> Row] /\ others' \in Nat
    BY <1>1, <1>3, <1>4 DEF BoardTyped
  <2> QED BY <1>1, <1>4, <2>1 DEF BoardTyped, Flying
<1>8. RowsAreGood'
  <2> SUFFICES ASSUME NEW q \in Query, NEW j \in Covers(q), NEW f \in Field
               PROVE  row'[j][f] \in since'[q][j][f]
    BY DEF RowsAreGood, Good
  <2>1. j \in Item
    BY BoardQueries
  <2>2. CASE j = i
    BY <2>2, <1>5, <1>6
  <2>3. CASE j # i
    BY <2>1, <2>3, <1>5, <1>6 DEF BoardInv, RowsAreGood
  <2> QED BY <2>2, <2>3
<1>9. LoadsAreGood'
  <2> SUFFICES ASSUME NEW q \in Query, load[q].stage = "served", q \notin torn \/ load[q].missed = {},
                      NEW j \in Covers(q), NEW f \in Field
               PROVE  \/ load[q].data[j][f] \in since'[q][j][f]
                      \/ \E m \in load[q].missed : mut[m].stage = "committed" /\ mut[m].item = j /\ f \in Promised(m, q)
    BY <1>4 DEF LoadsAreGood, Good, Promised
  <2> QED BY <1>6 DEF BoardInv, LoadsAreGood
<1>10. LoadsSeeCommits'
  <2> SUFFICES ASSUME NEW m \in Mutation, mut[m].stage = "committed", Alone(m),
                      NEW q \in Affects(m), load[q].stage = "served", m \notin load[q].missed, NEW f \in Field
               PROVE  load[q].data[mut[m].item][f] \in since'[q][mut[m].item][f]
    BY <1>4 DEF LoadsSeeCommits, Good, Affects, Alone
  <2>1. q \in Query /\ mut[m].item \in Covers(q)
    BY BoardAffects
  <2> QED BY <1>6, <2>1 DEF BoardInv, LoadsSeeCommits
<1>11. CachesAreGood'
  <2> SUFFICES ASSUME NEW q \in Query \ torn, InSight(q), cache[q] # NoData, NEW j \in Covers(q), NEW f \in Field
               PROVE  cache[q][j][f] \in since'[q][j][f] \/ \E m \in Mutation : Excuses(m, q, j, f)
    BY <1>4 DEF CachesAreGood, Good, InSight, Excuses, Advance, Promised
  <2> QED BY <1>6 DEF BoardInv, CachesAreGood
<1>12. SnapshotsAreGood'
  <2> SUFFICES ASSUME NEW m \in Mutation, Flying(m), NEW q \in Query \ mut[m].old,
                      mut[m].snap[q] # NoData, mut[m].over \cap Covers(q) = {},
                      mut[m].stage = "committed" => q \notin Affects(m),
                      NEW j \in Covers(q), NEW f \in Field
               PROVE  mut[m].snap[q][j][f] \in since'[q][j][f]
    BY <1>4 DEF SnapshotsAreGood, Good, Flying, Affects
  <2> QED BY <1>6 DEF BoardInv, SnapshotsAreGood
<1>13. AnswersAreGood'
  <2> SUFFICES ASSUME NEW m \in Mutation, mut[m].stage = "committed", mut[m].item \in Job,
                      mut[m].kind # "drag", Alone(m), NEW f \in Field
               PROVE  mut[m].answer[f] \in since'[mut[m].item][mut[m].item][f]
    BY <1>4 DEF AnswersAreGood, Good, Alone
  <2>1. Good(mut[m].item, mut[m].item, f, mut[m].answer[f])
    BY DEF BoardInv, AnswersAreGood
  <2>2. mut[m].item \in Query /\ mut[m].item \in Covers(mut[m].item)
    BY BoardQueries
  <2> QED BY <1>6, <2>1, <2>2
<1>14. DragsAreShown'
  <2> SUFFICES ASSUME NEW m \in Mutation, mut[m].kind = "drag", Alone(m),
                      ListOf[mut[m].item] \notin torn \cup mut[m].behind
               PROVE  LET j == mut[m].item IN
                      /\ mut[m].stage = "sent" => cache[ListOf[j]][j].at = mut[m].input
                      /\ mut[m].stage = "committed" => cache[ListOf[j]][j].at \in since'[ListOf[j]][j]["at"]
    BY <1>4 DEF DragsAreShown, Good, Alone
  <2>1. mut[m].item \in Item
    BY BoardAffects
  <2>2. ListOf[mut[m].item] \in Query /\ mut[m].item \in Covers(ListOf[mut[m].item]) /\ "at" \in Field
    BY <2>1, BoardQueries DEF Field, Query
  <2> QED BY <1>6, <2>2 DEF BoardInv, DragsAreShown
<1>15. OverlapsAreKnown'
  BY <1>4 DEF BoardInv, OverlapsAreKnown, Flying
<1> QED BY <1>7, <1>8, <1>9, <1>10, <1>11, <1>12, <1>13, <1>14, <1>15 DEF BoardInv

\* A mutation that a step does nothing to.
Untouched(n) == mut'[n] = mut[n]

LEMMA UntouchedIsSame ==
  ASSUME NEW n \in Mutation, Untouched(n)
  PROVE  /\ SameMutation(n) /\ (Alone(n)' <=> Alone(n))
         /\ Flying(n)' <=> Flying(n)
         /\ Affects(n)' = Affects(n)
         /\ \A q \in Query : Promised(n, q)' = Promised(n, q)
         /\ \A q \in Query, j \in Item, f \in Field : Excuses(n, q, j, f)' <=> Excuses(n, q, j, f)
<1>1. SameMutation(n) /\ (Alone(n)' <=> Alone(n))
  BY DEF SameMutation, Untouched, Alone
<1> QED BY <1>1, SameIsSame

LEMMA CommitKeeps ==
  ASSUME BoardAssumption, BoardInv, NEW m \in Mutation, Commit(m), UNCHANGED boardLimit
  PROVE  BoardInv'
<1> DEFINE i == mut[m].item
           r == Written(m)
<1>1. /\ mut[m].stage = "sent" /\ row' = [row EXCEPT ![i] = r]
      /\ mut' = [mut EXCEPT ![m].stage = "committed", ![m].answer = r]
      /\ since' = Since(i, r, m)
      /\ load' = [q \in Query |-> IF q \in Affects(m) /\ load[q].stage = "served"
                                  THEN [load[q] EXCEPT !.missed = @ \cup {m}] ELSE load[q]]
      /\ UNCHANGED <<cache, view, saving, torn, others, faults>>
  BY DEF Commit
<1>2. BoardTyped
  BY DEF BoardInv
<1>3. Flying(m) /\ mut[m] \in BoardMut /\ i \in Item /\ IsFlying(mut[m]) /\ m # NoData
  BY <1>1, <1>2, BoardAffects DEF Flying, BoardTyped, BoardAssumption
<1>4. r \in Row /\ (mut[m].kind = "drag" => r.at = mut[m].input)
  BY <1>3, WrittenIsARow
<1>5. \A q \in Query : q \in Affects(m) <=> i \in Covers(q)
  BY BoardAffects
<1> HIDE DEF i, r
<1>6. /\ mut'[m] \in BoardMut /\ mut'[m].stage = "committed" /\ mut'[m].answer = r
      /\ mut'[m].kind = mut[m].kind /\ mut'[m].item = i /\ mut'[m].input = mut[m].input
      /\ mut'[m].snap = mut[m].snap /\ mut'[m].over = mut[m].over /\ mut'[m].old = mut[m].old
      /\ mut'[m].behind = mut[m].behind
  <2> DEFINE half == [mut[m] EXCEPT !.stage = "committed"]
  <2>1. /\ half \in BoardMut /\ half.stage = "committed"
        /\ half.kind = mut[m].kind /\ half.item = mut[m].item /\ half.input = mut[m].input
        /\ half.snap = mut[m].snap /\ half.over = mut[m].over /\ half.old = mut[m].old
        /\ half.behind = mut[m].behind
    BY <1>3 DEF BoardMut
  <2>2. mut'[m] = [half EXCEPT !.answer = r]
    BY <1>1, <1>2, <1>3 DEF BoardTyped
  <2> HIDE DEF half
  <2> QED BY <1>4, <2>1, <2>2 DEF BoardMut, i
<1>7. \A n \in Mutation \ {m} : Untouched(n)
  BY <1>1, <1>2 DEF BoardTyped, Untouched
<1>8. \A n \in Mutation \ {m} :
        /\ SameMutation(n) /\ (Alone(n)' <=> Alone(n))
        /\ Flying(n)' <=> Flying(n)
        /\ Affects(n)' = Affects(n)
        /\ \A q \in Query : Promised(n, q)' = Promised(n, q)
        /\ \A q \in Query, j \in Item, f \in Field : Excuses(n, q, j, f)' <=> Excuses(n, q, j, f)
  BY <1>7, UntouchedIsSame
<1>9. /\ Flying(m)' /\ (Alone(m)' <=> Alone(m)) /\ Affects(m)' = Affects(m)
      /\ \A q \in Query : Promised(m, q)' = Promised(m, q)
  BY <1>6 DEF Flying, Alone, Affects, Promised, i
<1>10. ASSUME NEW q \in Query, NEW j \in Covers(q), NEW f \in Field
       PROVE  /\ j = i => r[f] \in since'[q][j][f]
              /\ j = i /\ f \in Promised(m, q) => since'[q][j][f] = {r[f]}
              /\ \A x : Good(q, j, f, x) /\ (j # i \/ f \notin Promised(m, q)) => x \in since'[q][j][f]
  <2>1. /\ j # i => Since(i, r, m)[q][j][f] = since[q][j][f]
        /\ j = i /\ m # NoData /\ f \in Promised(m, q) => Since(i, r, m)[q][j][f] = {r[f]}
        /\ j = i /\ ~(m # NoData /\ f \in Promised(m, q)) =>
             Since(i, r, m)[q][j][f] = since[q][j][f] \cup {r[f]}
    BY <1>3, SinceIs
  <2>2. since' = Since(i, r, m)
    BY <1>1
  <2> QED BY <1>3, <2>1, <2>2 DEF Good
<1>11. ASSUME NEW q \in Query
       PROVE  /\ load'[q] \in BoardLoad /\ load'[q].stage = load[q].stage /\ load'[q].data = load[q].data
              /\ load[q].missed \subseteq load'[q].missed
              /\ load[q].stage = "served" /\ i \in Covers(q) => m \in load'[q].missed
  <2>1. load[q] \in BoardLoad
    BY <1>2 DEF BoardTyped
  <2>2. CASE q \in Affects(m) /\ load[q].stage = "served"
    <3>1. load'[q] = [load[q] EXCEPT !.missed = @ \cup {m}]
      BY <1>1, <2>2
    <3>2. load[q].missed \cup {m} \in SUBSET Mutation
      BY <2>1 DEF BoardLoad
    <3> QED BY <2>1, <3>1, <3>2 DEF BoardLoad
  <2>3. CASE ~(q \in Affects(m) /\ load[q].stage = "served")
    <3>1. load'[q] = load[q]
      BY <1>1, <2>3
    <3> QED BY <2>1, <2>3, <3>1, <1>5
  <2> QED BY <2>2, <2>3
<1>12. row'[i] = r /\ \A j \in Item \ {i} : row'[j] = row[j]
  BY <1>1, <1>2, <1>3 DEF BoardTyped
<1>13. ASSUME NEW n \in Mutation \ {m}, Flying(n), Alone(n) PROVE mut[n].item # i
  BY <1>13, <1>3 DEF BoardInv, OverlapsAreKnown, Alone, i
<1>14. BoardTyped'
  <2>1. row' \in [Item -> Row]
    BY <1>1, <1>2, <1>4 DEF BoardTyped
  <2>2. load' \in [Query -> BoardLoad]
    BY <1>1, <1>11
  <2>3. \A q \in Query : IF load'[q].stage = "served" THEN load'[q].data \in [Covers(q) -> Row]
                                                     ELSE load'[q].data = NoData
    BY <1>2, <1>11 DEF BoardTyped
  <2>4. \A q \in view : cache[q] = NoData => load'[q].stage # "idle"
    BY <1>2, <1>11 DEF BoardTyped, BoardAssumption, Query
  <2>5. mut' \in [Mutation -> BoardMut]
    <3>1. \A n \in Mutation : mut'[n] \in BoardMut
      BY <1>2, <1>6, <1>7 DEF BoardTyped, Untouched
    <3> QED BY <1>1, <1>2, <3>1 DEF BoardTyped
  <2>6. \A n \in Mutation \ {m} : Flying(n)' => IsFlying(mut'[n])
    BY <1>2, <1>7, <1>8 DEF BoardTyped, Untouched
  <2>7. IsFlying(mut'[m])
    BY <1>3, <1>4, <1>6 DEF IsFlying, i
  <2> QED BY <1>1, <1>2, <2>1, <2>2, <2>3, <2>4, <2>5, <2>6, <2>7 DEF BoardTyped
<1>15. RowsAreGood'
  <2> SUFFICES ASSUME NEW q \in Query, NEW j \in Covers(q), NEW f \in Field
               PROVE  row'[j][f] \in since'[q][j][f]
    BY DEF RowsAreGood, Good
  <2>1. j \in Item
    BY BoardQueries
  <2>2. CASE j = i
    BY <2>2, <1>10, <1>12
  <2>3. CASE j # i
    BY <2>1, <2>3, <1>10, <1>12 DEF BoardInv, RowsAreGood
  <2> QED BY <2>2, <2>3
<1>16. LoadsAreGood'
  <2> SUFFICES ASSUME NEW q \in Query, load'[q].stage = "served", q \notin torn \/ load'[q].missed = {},
                      NEW j \in Covers(q), NEW f \in Field
               PROVE  \/ load'[q].data[j][f] \in since'[q][j][f]
                      \/ \E n \in load'[q].missed : /\ mut'[n].stage = "committed" /\ mut'[n].item = j
                                                    /\ f \in Promised(n, q)'
    BY <1>1 DEF LoadsAreGood, Good
  <2>1. CASE j = i /\ f \in Promised(m, q)
    BY <2>1, <1>6, <1>9, <1>11
  <2>2. CASE ~(j = i /\ f \in Promised(m, q))
    <3>1. \/ Good(q, j, f, load[q].data[j][f])
          \/ \E n \in load[q].missed : mut[n].stage = "committed" /\ mut[n].item = j /\ f \in Promised(n, q)
      BY <1>11 DEF BoardInv, LoadsAreGood
    <3>2. ASSUME NEW n \in load[q].missed, mut[n].stage = "committed", mut[n].item = j, f \in Promised(n, q)
          PROVE  /\ n \in load'[q].missed /\ mut'[n].stage = "committed" /\ mut'[n].item = j
                 /\ f \in Promised(n, q)'
      <4>1. n \in Mutation \ {m}
        BY <3>2, <1>1, <1>2 DEF BoardTyped, BoardLoad
      <4> QED BY <4>1, <3>2, <1>8, <1>11 DEF SameMutation
    <3>3. CASE Good(q, j, f, load[q].data[j][f])
      BY <3>3, <2>2, <1>10, <1>11
    <3> QED BY <3>1, <3>2, <3>3
  <2> QED BY <2>1, <2>2
<1>17. LoadsSeeCommits'
  <2> SUFFICES ASSUME NEW n \in Mutation, mut'[n].stage = "committed", Alone(n)',
                      NEW q \in Affects(n)', load'[q].stage = "served", n \notin load'[q].missed, NEW f \in Field
               PROVE  load'[q].data[mut'[n].item][f] \in since'[q][mut'[n].item][f]
    BY DEF LoadsSeeCommits, Good
  <2>1. n # m
    BY <1>5, <1>9, <1>11, BoardAffects
  <2>2. /\ q \in Affects(n) /\ q \in Query /\ Alone(n) /\ mut[n].stage = "committed" /\ mut'[n].item = mut[n].item
        /\ mut[n].item \in Covers(q)
    BY <2>1, <1>8, BoardAffects DEF SameMutation
  <2>3. mut[n].item # i
    BY <2>1, <2>2, <1>13 DEF Flying
  <2>4. Good(q, mut[n].item, f, load[q].data[mut[n].item][f])
    BY <2>2, <1>11 DEF BoardInv, LoadsSeeCommits
  <2> QED BY <2>2, <2>3, <2>4, <1>10, <1>11
<1>18. CachesAreGood'
  <2> SUFFICES ASSUME NEW q \in Query \ torn, InSight(q)', cache[q] # NoData, NEW j \in Covers(q), NEW f \in Field
               PROVE  cache[q][j][f] \in since'[q][j][f] \/ \E n \in Mutation : Excuses(n, q, j, f)'
    BY <1>1 DEF CachesAreGood, Good
  <2>1. j \in Item /\ InSight(q)
    BY <1>1, <1>11, BoardQueries DEF InSight
  <2>2. CASE j = i /\ f \in Promised(m, q)
    BY <2>2, <1>6, <1>9 DEF Excuses
  <2>3. CASE ~(j = i /\ f \in Promised(m, q))
    <3>1. Good(q, j, f, cache[q][j][f]) \/ \E n \in Mutation : Excuses(n, q, j, f)
      BY <2>1 DEF BoardInv, CachesAreGood
    <3>2. CASE Good(q, j, f, cache[q][j][f])
      BY <3>2, <2>3, <1>10
    <3>3. ASSUME NEW n \in Mutation, Excuses(n, q, j, f) PROVE Excuses(n, q, j, f)'
      <4>1. CASE n # m
        BY <3>3, <4>1, <2>1, <1>8
      <4>2. CASE n = m
        <5>1. j = i /\ Ahead(mut[m].kind, q, f)
          BY <3>3, <4>2, <1>1 DEF Excuses, Advance, i
        <5>2. f \in Promised(m, q)
          BY <5>1, BoardQueries DEF Ahead, Promised
        <5> QED BY <5>1, <5>2, <2>3
      <4> QED BY <4>1, <4>2
    <3> QED BY <3>1, <3>2, <3>3
  <2> QED BY <2>2, <2>3
<1>19. SnapshotsAreGood'
  <2> SUFFICES ASSUME NEW n \in Mutation, Flying(n)', NEW q \in Query \ mut'[n].old,
                      mut'[n].snap[q] # NoData, mut'[n].over \cap Covers(q) = {},
                      mut'[n].stage = "committed" => q \notin Affects(n)',
                      NEW j \in Covers(q), NEW f \in Field
               PROVE  mut'[n].snap[q][j][f] \in since'[q][j][f]
    BY DEF SnapshotsAreGood, Good
  <2>1. CASE n # m
    <3>1. Untouched(n) /\ Flying(n) /\ Affects(n)' = Affects(n)
      BY <2>1, <1>7, <1>8
    <3>2. Good(q, j, f, mut[n].snap[q][j][f])
      BY <3>1 DEF BoardInv, SnapshotsAreGood, Untouched
    <3>3. i \notin Covers(q)
      BY <2>1, <3>1, <1>3 DEF BoardInv, OverlapsAreKnown, Untouched, i
    <3> QED BY <3>1, <3>2, <3>3, <1>10 DEF Untouched
  <2>2. CASE n = m
    <3>1. i \notin Covers(q)
      BY <2>2, <1>5, <1>6, <1>9
    <3>2. Good(q, j, f, mut[m].snap[q][j][f])
      BY <2>2, <1>1, <1>3, <1>6 DEF BoardInv, SnapshotsAreGood
    <3> QED BY <2>2, <3>1, <3>2, <1>6, <1>10
  <2> QED BY <2>1, <2>2
<1>20. AnswersAreGood'
  <2> SUFFICES ASSUME NEW n \in Mutation, mut'[n].stage = "committed", mut'[n].item \in Job,
                      mut'[n].kind # "drag", Alone(n)', NEW f \in Field
               PROVE  mut'[n].answer[f] \in since'[mut'[n].item][mut'[n].item][f]
    BY DEF AnswersAreGood, Good
  <2>1. CASE n # m
    <3>1. Untouched(n) /\ Alone(n) /\ mut[n].item # i
      BY <2>1, <1>7, <1>8, <1>13 DEF Flying, Untouched
    <3>2. Good(mut[n].item, mut[n].item, f, mut[n].answer[f])
      BY <3>1 DEF BoardInv, AnswersAreGood, Untouched
    <3> QED BY <3>1, <3>2, <1>10, BoardQueries DEF Untouched
  <2>2. CASE n = m
    <3>1. i \in Job /\ i \in Query /\ i \in Covers(i)
      BY <2>2, <1>6, BoardQueries
    <3>0. mut[m].kind = "editTask" => i \notin Job
      BY <1>3 DEF IsFlying, i
    <3>2. mut[m].kind \notin {"drag", "editTask"}
      BY <2>2, <3>0, <3>1, <1>6
    <3>3. f \in Promised(m, i)
      <4> HIDE DEF i
      <4> QED BY <3>1, <3>2 DEF Promised
    <3>4. since'[i][i][f] = {r[f]}
      BY <3>1, <3>3, <1>10
    <3> QED BY <2>2, <3>4, <1>6
  <2> QED BY <2>1, <2>2
<1>21. DragsAreShown'
  <2> SUFFICES ASSUME NEW n \in Mutation, mut'[n].kind = "drag", Alone(n)',
                      ListOf[mut'[n].item] \notin torn \cup mut'[n].behind
               PROVE  LET j == mut'[n].item IN
                      /\ mut'[n].stage = "sent" => cache[ListOf[j]][j].at = mut'[n].input
                      /\ mut'[n].stage = "committed" => cache[ListOf[j]][j].at \in since'[ListOf[j]][j]["at"]
    BY <1>1 DEF DragsAreShown, Good
  <2> DEFINE j == mut[n].item
             l == ListOf[j]
  <2>1. j \in Item /\ l \in Query /\ l \in List /\ j \in Covers(l) /\ "at" \in Field
    BY BoardAffects, BoardQueries DEF Field
  <2>2. mut'[n].item = j /\ mut[n].kind = "drag" /\ Alone(n) /\ mut'[n].input = mut[n].input
        /\ mut'[n].behind = mut[n].behind
    BY <1>6, <1>7, <1>8, <1>9 DEF Untouched, i
  <2>3. /\ mut[n].stage = "sent" => cache[l][j].at = mut[n].input
        /\ mut[n].stage = "committed" => Good(l, j, "at", cache[l][j].at)
    BY <2>2 DEF BoardInv, DragsAreShown
  <2> HIDE DEF l
  <2>4. CASE n # m
    <3>1. mut'[n].stage = mut[n].stage
      BY <2>4, <1>7 DEF Untouched
    <3>2. Flying(n) => j # i
      BY <2>2, <2>4, <1>13
    <3> HIDE DEF j
    <3> QED BY <2>1, <2>2, <2>3, <3>1, <3>2, <1>10 DEF Flying, l
  <2>5. CASE n = m
    <3>1. cache[l][j].at = r["at"]
      BY <2>2, <2>3, <2>5, <1>1, <1>4
    <3>2. j = i /\ "at" \in Promised(m, l)
      BY <2>1, <2>2, <2>5 DEF Promised, i
    <3>3. mut'[n].stage = "committed"
      BY <2>5, <1>6
    <3> HIDE DEF j
    <3>4. since'[l][j]["at"] = {r["at"]}
      BY <2>1, <3>2, <1>10
    <3> QED BY <2>2, <3>1, <3>3, <3>4 DEF l
  <2> QED BY <2>4, <2>5
<1>22. OverlapsAreKnown'
  BY <1>3, <1>6, <1>7, <1>8 DEF BoardInv, OverlapsAreKnown, Untouched, i
<1> QED BY <1>14, <1>15, <1>16, <1>17, <1>18, <1>19, <1>20, <1>21, <1>22 DEF BoardInv

LEMMA RefuseKeeps ==
  ASSUME BoardAssumption, BoardInv, NEW m \in Mutation, Refuse(m), UNCHANGED boardLimit
  PROVE  BoardInv'
<1>1. /\ mut[m].stage = "sent" /\ mut' = [mut EXCEPT ![m].stage = "refused"]
      /\ UNCHANGED <<row, cache, load, view, saving, since, torn, others>>
      /\ faults' \in {faults, faults + 1}
  BY DEF Refuse, Fault
<1>2. BoardTyped
  BY DEF BoardInv
<1>3. /\ mut'[m] \in BoardMut /\ mut'[m].stage = "refused"
      /\ mut'[m].kind = mut[m].kind /\ mut'[m].item = mut[m].item /\ mut'[m].input = mut[m].input
      /\ mut'[m].snap = mut[m].snap /\ mut'[m].over = mut[m].over /\ mut'[m].old = mut[m].old
      /\ mut'[m].behind = mut[m].behind
  <2>1. mut[m] \in BoardMut /\ mut'[m] = [mut[m] EXCEPT !.stage = "refused"]
    BY <1>1, <1>2 DEF BoardTyped
  <2> QED BY <2>1 DEF BoardMut
<1>4. \A n \in Mutation \ {m} : Untouched(n)
  BY <1>1, <1>2 DEF BoardTyped, Untouched
<1>5. \A n \in Mutation \ {m} :
        /\ SameMutation(n) /\ (Alone(n)' <=> Alone(n))
        /\ Flying(n)' <=> Flying(n)
        /\ Affects(n)' = Affects(n)
        /\ \A q \in Query : Promised(n, q)' = Promised(n, q)
        /\ \A q \in Query, j \in Item, f \in Field : Excuses(n, q, j, f)' <=> Excuses(n, q, j, f)
  BY <1>4, UntouchedIsSame
<1>6. /\ Flying(m) /\ Flying(m)' /\ Affects(m)' = Affects(m)
      /\ \A q \in Query, j \in Item, f \in Field : Excuses(m, q, j, f)' <=> Excuses(m, q, j, f)
  BY <1>1, <1>3 DEF Flying, Affects, Excuses, Advance
<1>7. BoardTyped'
  <2>1. mut' \in [Mutation -> BoardMut]
    <3>1. \A n \in Mutation : mut'[n] \in BoardMut
      BY <1>2, <1>3, <1>4 DEF BoardTyped, Untouched
    <3> QED BY <1>1, <1>2, <3>1 DEF BoardTyped
  <2>2. \A n \in Mutation \ {m} : Flying(n)' => IsFlying(mut'[n])
    BY <1>2, <1>4, <1>5 DEF BoardTyped, Untouched
  <2>3. IsFlying(mut'[m])
    BY <1>2, <1>3, <1>6 DEF BoardTyped, IsFlying
  <2>4. faults' \in Nat
    BY <1>1, <1>2 DEF BoardTyped
  <2> QED BY <1>1, <1>2, <2>1, <2>2, <2>3, <2>4 DEF BoardTyped
<1>8. RowsAreGood'
  BY <1>1 DEF BoardInv, RowsAreGood, Good
<1>9. LoadsAreGood'
  <2> SUFFICES ASSUME NEW q \in Query, load[q].stage = "served", q \notin torn \/ load[q].missed = {},
                      NEW j \in Covers(q), NEW f \in Field
               PROVE  \/ Good(q, j, f, load[q].data[j][f])
                      \/ \E n \in load[q].missed : /\ mut'[n].stage = "committed" /\ mut'[n].item = j
                                                   /\ f \in Promised(n, q)'
    BY <1>1 DEF LoadsAreGood, Good
  <2>1. \/ Good(q, j, f, load[q].data[j][f])
        \/ \E n \in load[q].missed : mut[n].stage = "committed" /\ mut[n].item = j /\ f \in Promised(n, q)
    BY DEF BoardInv, LoadsAreGood
  <2>2. load[q].missed \subseteq Mutation
    BY <1>2 DEF BoardTyped, BoardLoad
  <2> QED BY <1>1, <1>5, <2>1, <2>2 DEF SameMutation
<1>10. LoadsSeeCommits'
  <2> SUFFICES ASSUME NEW n \in Mutation, mut'[n].stage = "committed", Alone(n)',
                      NEW q \in Affects(n)', load[q].stage = "served", n \notin load[q].missed, NEW f \in Field
               PROVE  Good(q, mut'[n].item, f, load[q].data[mut'[n].item][f])
    BY <1>1 DEF LoadsSeeCommits, Good
  <2>1. n # m
    BY <1>3
  <2> QED BY <2>1, <1>5 DEF BoardInv, LoadsSeeCommits, SameMutation
<1>11. CachesAreGood'
  <2> SUFFICES ASSUME NEW q \in Query \ torn, InSight(q), cache[q] # NoData, NEW j \in Covers(q), NEW f \in Field
               PROVE  Good(q, j, f, cache[q][j][f]) \/ \E n \in Mutation : Excuses(n, q, j, f)'
    BY <1>1 DEF CachesAreGood, Good, InSight
  <2>1. Good(q, j, f, cache[q][j][f]) \/ \E n \in Mutation : Excuses(n, q, j, f)
    BY DEF BoardInv, CachesAreGood
  <2>2. j \in Item
    BY BoardQueries
  <2> QED BY <2>1, <2>2, <1>5, <1>6
<1>12. SnapshotsAreGood'
  <2> SUFFICES ASSUME NEW n \in Mutation, Flying(n)', NEW q \in Query \ mut'[n].old,
                      mut'[n].snap[q] # NoData, mut'[n].over \cap Covers(q) = {},
                      mut'[n].stage = "committed" => q \notin Affects(n)',
                      NEW j \in Covers(q), NEW f \in Field
               PROVE  Good(q, j, f, mut'[n].snap[q][j][f])
    BY <1>1 DEF SnapshotsAreGood, Good
  <2>1. CASE n # m
    BY <2>1, <1>4, <1>5 DEF BoardInv, SnapshotsAreGood, Untouched
  <2>2. CASE n = m
    BY <2>2, <1>1, <1>3, <1>6 DEF BoardInv, SnapshotsAreGood
  <2> QED BY <2>1, <2>2
<1>13. AnswersAreGood'
  <2> SUFFICES ASSUME NEW n \in Mutation, mut'[n].stage = "committed", mut'[n].item \in Job,
                      mut'[n].kind # "drag", Alone(n)', NEW f \in Field
               PROVE  Good(mut'[n].item, mut'[n].item, f, mut'[n].answer[f])
    BY <1>1 DEF AnswersAreGood, Good
  <2>1. n # m
    BY <1>3
  <2> QED BY <2>1, <1>5 DEF BoardInv, AnswersAreGood, SameMutation
<1>14. DragsAreShown'
  <2> SUFFICES ASSUME NEW n \in Mutation, mut'[n].kind = "drag", Alone(n)',
                      ListOf[mut'[n].item] \notin torn \cup mut'[n].behind
               PROVE  LET j == mut'[n].item IN
                      /\ mut'[n].stage = "sent" => cache[ListOf[j]][j].at = mut'[n].input
                      /\ mut'[n].stage = "committed" => Good(ListOf[j], j, "at", cache[ListOf[j]][j].at)
    BY <1>1 DEF DragsAreShown, Good
  <2>1. CASE n # m
    BY <2>1, <1>4, <1>5 DEF BoardInv, DragsAreShown, Untouched
  <2>2. CASE n = m
    BY <2>2, <1>3
  <2> QED BY <2>1, <2>2
<1>15. OverlapsAreKnown'
  BY <1>3, <1>4, <1>5, <1>6 DEF BoardInv, OverlapsAreKnown, Untouched
<1> QED BY <1>7, <1>8, <1>9, <1>10, <1>11, <1>12, <1>13, <1>14, <1>15 DEF BoardInv

-----------------------------------------------------------------------------
\* Answers.  What is true of the mutations that m leaves under way.

LEMMA OverKeeps ==
  ASSUME BoardAssumption, BoardInv, NEW m \in Mutation, Flying(m), mut' = Over(m), UNCHANGED since,
         torn \subseteq torn',
         \A q \in Query : load'[q].stage = "served" =>
            /\ load'[q] = load[q]
            /\ mut[m].stage = "committed" /\ mut[m].item \in Covers(q) /\ m \in load[q].missed => q \in torn'
  PROVE  /\ mut'[m].stage = "over" /\ \A n \in Mutation \ {m} : Untouched(n)
         /\ mut' \in [Mutation -> BoardMut] /\ \A n \in Mutation : Flying(n)' => IsFlying(mut'[n])
         /\ LoadsAreGood' /\ LoadsSeeCommits' /\ SnapshotsAreGood' /\ AnswersAreGood' /\ OverlapsAreKnown'
<1>1. BoardTyped
  BY DEF BoardInv
<1>2. mut' = [mut EXCEPT ![m] = [Unused EXCEPT !.stage = "over"]]
  BY DEF Over
<1>3. /\ [Unused EXCEPT !.stage = "over"] \in BoardMut
      /\ [Unused EXCEPT !.stage = "over"].stage = "over"
  BY BoardRecords DEF BoardMut
<1>4. mut'[m].stage = "over" /\ \A n \in Mutation \ {m} : Untouched(n)
  BY <1>1, <1>2, <1>3 DEF BoardTyped, Untouched
<1>5. mut' \in [Mutation -> BoardMut]
  BY <1>1, <1>2, <1>3 DEF BoardTyped
<1>6. \A n \in Mutation \ {m} :
        /\ SameMutation(n) /\ (Alone(n)' <=> Alone(n))
        /\ Flying(n)' <=> Flying(n)
        /\ Affects(n)' = Affects(n)
        /\ \A q \in Query : Promised(n, q)' = Promised(n, q)
  BY <1>4, UntouchedIsSame
<1>7. ~Flying(m)'
  BY <1>4 DEF Flying
<1>8. \A n \in Mutation : Flying(n)' => IsFlying(mut'[n])
  BY <1>1, <1>4, <1>6, <1>7 DEF BoardTyped, Untouched
<1>9. LoadsAreGood'
  <2> SUFFICES ASSUME NEW q \in Query, load'[q].stage = "served", q \notin torn' \/ load'[q].missed = {},
                      NEW j \in Covers(q), NEW f \in Field
               PROVE  \/ Good(q, j, f, load'[q].data[j][f])
                      \/ \E n \in load'[q].missed : /\ mut'[n].stage = "committed" /\ mut'[n].item = j
                                                    /\ f \in Promised(n, q)'
    BY DEF LoadsAreGood, Good
  <2>1. load'[q] = load[q] /\ load[q].missed \subseteq Mutation
    BY <1>1 DEF BoardTyped, BoardLoad
  <2>2. \/ Good(q, j, f, load[q].data[j][f])
        \/ \E n \in load[q].missed : mut[n].stage = "committed" /\ mut[n].item = j /\ f \in Promised(n, q)
    BY <2>1 DEF BoardInv, LoadsAreGood
  <2>3. ASSUME NEW n \in load[q].missed, mut[n].stage = "committed", mut[n].item = j, f \in Promised(n, q)
        PROVE  mut'[n].stage = "committed" /\ mut'[n].item = j /\ f \in Promised(n, q)'
    <3>1. n # m
      BY <2>1, <2>3
    <3> QED BY <2>1, <2>3, <3>1, <1>6 DEF SameMutation
  <2> QED BY <2>1, <2>2, <2>3
<1>10. LoadsSeeCommits'
  <2> SUFFICES ASSUME NEW n \in Mutation, mut'[n].stage = "committed", Alone(n)',
                      NEW q \in Affects(n)', load'[q].stage = "served", n \notin load'[q].missed, NEW f \in Field
               PROVE  Good(q, mut'[n].item, f, load'[q].data[mut'[n].item][f])
    BY DEF LoadsSeeCommits, Good
  <2>1. n # m
    BY <1>4
  <2>2. q \in Affects(n) /\ q \in Query /\ Alone(n) /\ mut[n].stage = "committed" /\ mut'[n].item = mut[n].item
    BY <2>1, <1>6, BoardAffects DEF SameMutation
  <2> QED BY <2>2 DEF BoardInv, LoadsSeeCommits
<1>11. SnapshotsAreGood'
  <2> SUFFICES ASSUME NEW n \in Mutation, Flying(n)', NEW q \in Query \ mut'[n].old,
                      mut'[n].snap[q] # NoData, mut'[n].over \cap Covers(q) = {},
                      mut'[n].stage = "committed" => q \notin Affects(n)',
                      NEW j \in Covers(q), NEW f \in Field
               PROVE  Good(q, j, f, mut'[n].snap[q][j][f])
    BY DEF SnapshotsAreGood, Good
  <2> QED BY <1>4, <1>6, <1>7 DEF BoardInv, SnapshotsAreGood, Untouched
<1>12. AnswersAreGood'
  <2> SUFFICES ASSUME NEW n \in Mutation, mut'[n].stage = "committed", mut'[n].item \in Job,
                      mut'[n].kind # "drag", Alone(n)', NEW f \in Field
               PROVE  Good(mut'[n].item, mut'[n].item, f, mut'[n].answer[f])
    BY DEF AnswersAreGood, Good
  <2> QED BY <1>4, <1>6 DEF BoardInv, AnswersAreGood, SameMutation
<1>13. OverlapsAreKnown'
  BY <1>4, <1>6, <1>7 DEF BoardInv, OverlapsAreKnown, Untouched
<1> QED BY <1>4, <1>5, <1>8, <1>9, <1>10, <1>11, <1>12, <1>13

LEMMA FailKeeps ==
  ASSUME BoardAssumption, BoardInv, NEW m \in Mutation, Fail(m), UNCHANGED boardLimit
  PROVE  BoardInv'
<1>1. /\ mut[m].stage \in {"refused", "committed"} /\ faults' \in {faults, faults + 1}
      /\ cache' = RolledBack(m) /\ mut' = Over(m) /\ saving' = Freed(m)
      /\ torn' = torn \cup {q \in Restored(m) : \/ q \in mut[m].old
                                                \/ mut[m].over \cap Covers(q) # {}}
                      \cup (IF mut[m].stage = "committed" THEN Affects(m) ELSE {})
      /\ UNCHANGED <<row, load, view, since, others>>
  BY DEF Fail, Fault
<1>2. BoardTyped
  BY DEF BoardInv
<1>3. Flying(m) /\ mut[m] \in BoardMut /\ IsFlying(mut[m]) /\ mut[m].item \in Item
  BY <1>1, <1>2, BoardAffects DEF Flying, BoardTyped
<1>4. torn \subseteq torn' /\ \A q \in Query : mut[m].stage = "committed" /\ mut[m].item \in Covers(q) => q \in torn'
  BY <1>1, BoardAffects
<1>5. /\ mut'[m].stage = "over" /\ \A n \in Mutation \ {m} : Untouched(n)
      /\ mut' \in [Mutation -> BoardMut] /\ \A n \in Mutation : Flying(n)' => IsFlying(mut'[n])
      /\ LoadsAreGood' /\ LoadsSeeCommits' /\ SnapshotsAreGood' /\ AnswersAreGood' /\ OverlapsAreKnown'
  BY <1>1, <1>3, <1>4, OverKeeps
<1>6. \A n \in Mutation \ {m} :
        /\ SameMutation(n) /\ (Alone(n)' <=> Alone(n))
        /\ Flying(n)' <=> Flying(n)
        /\ \A q \in Query, j \in Item, f \in Field : Excuses(n, q, j, f)' <=> Excuses(n, q, j, f)
  BY <1>5, UntouchedIsSame
<1>7. \A q \in Query : cache'[q] = IF mut[m].snap[q] # NoData THEN mut[m].snap[q] ELSE cache[q]
  BY <1>1 DEF RolledBack
<1>8. BoardTyped'
  <2>1. \A q \in Query : cache'[q] \in DataOf(q) /\ cache'[q] \in SomeData
    BY <1>2, <1>3, <1>7, BoardQueries DEF BoardTyped, IsFlying
  <2>2. cache' \in [Query -> SomeData]
    BY <1>1, <2>1 DEF RolledBack
  <2>3. \A q \in List : cache'[q] # NoData
    BY <1>2, <1>7, BoardQueries DEF BoardTyped
  <2>4. \A q \in view : cache'[q] = NoData => load[q].stage # "idle"
    BY <1>2, <1>7 DEF BoardTyped, BoardAssumption, Query
  <2>5. saving' \subseteq Item /\ faults' \in Nat /\ torn' \subseteq Query
    BY <1>1, <1>2, BoardAffects DEF BoardTyped, Freed, Restored
  <2> QED BY <1>1, <1>2, <1>5, <2>1, <2>2, <2>3, <2>4, <2>5 DEF BoardTyped
<1>9. RowsAreGood'
  BY <1>1 DEF BoardInv, RowsAreGood, Good
<1>10. CachesAreGood'
  <2> SUFFICES ASSUME NEW q \in Query \ torn', InSight(q), cache'[q] # NoData, NEW j \in Covers(q), NEW f \in Field
               PROVE  Good(q, j, f, cache'[q][j][f]) \/ \E n \in Mutation : Excuses(n, q, j, f)'
    BY <1>1 DEF CachesAreGood, Good, InSight
  <2>1. CASE mut[m].snap[q] # NoData
    <3>1. q \notin mut[m].old /\ mut[m].over \cap Covers(q) = {}
      BY <2>1, <1>1 DEF Restored
    <3>2. mut[m].stage = "committed" => q \notin Affects(m)
      BY <1>1
    <3> QED BY <2>1, <3>1, <3>2, <1>3, <1>7 DEF BoardInv, SnapshotsAreGood
  <2>2. CASE mut[m].snap[q] = NoData
    <3>1. cache'[q] = cache[q] /\ q \notin torn /\ j \in Item
      BY <2>2, <1>4, <1>7, BoardQueries
    <3>2. Good(q, j, f, cache[q][j][f]) \/ \E n \in Mutation : Excuses(n, q, j, f)
      BY <3>1 DEF BoardInv, CachesAreGood
    <3>3. ASSUME NEW n \in Mutation, Excuses(n, q, j, f) PROVE n # m
      <4> SUFFICES ASSUME Excuses(m, q, j, f) PROVE FALSE
        BY <3>3
      <4>1. mut[m].item = j
        BY DEF Excuses
      <4>2. mut[m].stage # "committed"
        BY <4>1, <1>4
      <4>3. Ahead(mut[m].kind, q, f)
        BY <4>2 DEF Excuses, Advance
      <4>4. CASE mut[m].kind = "drag" /\ q \in List
        BY <4>4, <2>2, <1>3 DEF IsFlying
      <4>5. CASE mut[m].kind \in {"complete", "comment"} /\ q \in Job
        <5>1. j = q
          BY <4>5, BoardQueries
        <5> QED BY <4>1, <4>5, <5>1, <2>2, <1>3 DEF IsFlying
      <4> QED BY <4>3, <4>4, <4>5 DEF Ahead
    <3> QED BY <3>1, <3>2, <3>3, <1>6
  <2> QED BY <2>1, <2>2
<1>11. DragsAreShown'
  <2> SUFFICES ASSUME NEW n \in Mutation, mut'[n].kind = "drag", Alone(n)',
                      ListOf[mut'[n].item] \notin torn' \cup mut'[n].behind
               PROVE  LET j == mut'[n].item IN
                      /\ mut'[n].stage = "sent" => cache'[ListOf[j]][j].at = mut'[n].input
                      /\ mut'[n].stage = "committed" => Good(ListOf[j], j, "at", cache'[ListOf[j]][j].at)
    BY <1>1 DEF DragsAreShown, Good
  <2>1. CASE n = m
    BY <2>1, <1>5
  <2>2. CASE n # m
    <3> DEFINE j == mut[n].item
               l == ListOf[j]
    <3>1. j \in Item /\ l \in Query /\ l \in List /\ j \in Covers(l)
      BY BoardAffects, BoardQueries
    <3>2. mut'[n] = mut[n] /\ Alone(n) /\ mut[n].kind = "drag" /\ l \notin torn' /\ l \notin mut[n].behind
      BY <2>2, <1>5, <1>6 DEF Untouched
    <3>3. /\ mut[n].stage = "sent" => cache[l][j].at = mut[n].input
          /\ mut[n].stage = "committed" => Good(l, j, "at", cache[l][j].at)
      BY <3>2, <1>4 DEF BoardInv, DragsAreShown
    <3>4. ASSUME Flying(n) PROVE cache'[l] = cache[l]
      <4>1. j \in mut[m].over
        BY <2>2, <3>4, <1>3 DEF BoardInv, OverlapsAreKnown
      <4>2. l \notin Restored(m)
        BY <3>1, <3>2, <4>1, <1>1
      <4> QED BY <3>1, <4>2, <1>7 DEF Restored
    <3> QED BY <3>2, <3>3, <3>4 DEF Flying
  <2> QED BY <2>1, <2>2
<1> QED BY <1>5, <1>8, <1>9, <1>10, <1>11 DEF BoardInv

LEMMA SucceedKeeps ==
  ASSUME BoardAssumption, BoardInv, NEW m \in Mutation, Succeed(m), UNCHANGED boardLimit
  PROVE  BoardInv'
<1> DEFINE i == mut[m].item
           reloads == mut[m].kind \notin {"drag", "comment"}
           kept == IF mut[m].kind = "delete" THEN [load EXCEPT ![i] = Idle] ELSE load
           next == IF reloads THEN Invalidated({ListOf[i]}, kept) ELSE kept
<1>1. /\ mut[m].stage = "committed" /\ cache' = Answered(m) /\ load' = next
      /\ view' = (IF mut[m].kind = "delete" THEN {} ELSE view)
      /\ mut' = Over(m) /\ saving' = Freed(m) /\ torn' = torn \cup LeftBehind(m, next)
      /\ UNCHANGED <<row, since, others, faults>>
  BY DEF Succeed
<1>2. BoardTyped
  BY DEF BoardInv
<1>3. Flying(m) /\ mut[m] \in BoardMut /\ IsFlying(mut[m]) /\ i \in Item /\ mut[m].answer \in Row
  BY <1>1, <1>2, BoardAffects DEF Flying, BoardTyped, IsFlying
<1>4. /\ mut[m].kind \in {"complete", "comment", "cancel", "reopen", "edit", "delete"} => i \in Job
      /\ mut[m].kind \in {"editTask", "deleteTask"} => i \notin Job /\ mut[m].kind \in Kind
  BY <1>3 DEF IsFlying, BoardMut
<1>5. \A q \in Query : q \in Affects(m) <=> i \in Covers(q)
  BY BoardAffects
<1>6. ListOf[i] \in List /\ ListOf[i] \in Query /\ ListOf[i] \notin Job /\ (i \in Job => i \in Query /\ i \notin List)
  BY <1>3, BoardQueries
<1>7. kept \in [Query -> BoardLoad] /\ \A q \in Query : kept[q] = load[q] \/ (kept[q] = Idle /\ mut[m].kind = "delete" /\ q \in Job)
  BY <1>2, <1>4, <1>6, BoardRecords DEF BoardTyped
<1> HIDE DEF kept
<1>8. /\ next \in [Query -> BoardLoad] /\ \A q \in Query : next[q] = kept[q] \/ (next[q] = Sent /\ reloads /\ q \in List)
      /\ reloads /\ ListOf[i] \in view => next[ListOf[i]] = Sent
  BY <1>2, <1>6, <1>7, BoardRecords DEF Invalidated, BoardTyped
<1> HIDE DEF next
<1>9. ASSUME NEW q \in Query
      PROVE  /\ load'[q] \in BoardLoad
             /\ load'[q].stage = "served" => load'[q] = load[q]
             /\ load'[q].stage # "served" => load'[q].data = load[q].data \/ load'[q].data = NoData
             /\ load'[q].stage = "idle" /\ (q \in List \/ mut[m].kind # "delete") => load[q].stage = "idle"
  BY <1>1, <1>6, <1>7, <1>8, BoardRecords, BoardQueries
<1>10. ASSUME NEW q \in Query
       PROVE  cache'[q] = IF q # i \/ mut[m].kind \in {"drag", "editTask", "deleteTask"} THEN cache[q]
                          ELSE IF mut[m].kind = "delete" THEN NoData ELSE [j \in {i} |-> mut[m].answer]
  <2>1. CASE mut[m].kind \in {"drag", "editTask", "deleteTask"}
    <3>1. cache' = cache
      BY <2>1, <1>1 DEF Answered
    <3> QED BY <2>1, <3>1
  <2>2. CASE mut[m].kind = "delete"
    <3>1. cache' = [cache EXCEPT ![i] = NoData]
      BY <2>2, <1>1 DEF Answered
    <3> QED BY <2>2, <3>1, <1>2 DEF BoardTyped
  <2>3. CASE mut[m].kind \notin {"drag", "editTask", "deleteTask", "delete"}
    <3>1. cache' = [cache EXCEPT ![i] = [j \in {i} |-> mut[m].answer]]
      BY <2>3, <1>1 DEF Answered
    <3> QED BY <2>3, <3>1, <1>2 DEF BoardTyped
  <2> QED BY <2>1, <2>2, <2>3
<1>11. \A q \in Affects(m) \ torn' : m \notin load'[q].missed /\ Alone(m) /\ ~(mut[m].kind = "drag" /\ q \in mut[m].behind)
  BY <1>1 DEF LeftBehind, Alone
<1>12. torn \subseteq torn' /\ torn' \subseteq Query
  BY <1>1, <1>2, BoardAffects DEF BoardTyped, LeftBehind
<1>13. /\ mut'[m].stage = "over" /\ \A n \in Mutation \ {m} : Untouched(n)
       /\ mut' \in [Mutation -> BoardMut] /\ \A n \in Mutation : Flying(n)' => IsFlying(mut'[n])
       /\ LoadsAreGood' /\ LoadsSeeCommits' /\ SnapshotsAreGood' /\ AnswersAreGood' /\ OverlapsAreKnown'
  <2>1. \A q \in Query : load'[q].stage = "served" =>
            /\ load'[q] = load[q]
            /\ mut[m].stage = "committed" /\ mut[m].item \in Covers(q) /\ m \in load[q].missed => q \in torn'
    BY <1>5, <1>9, <1>11
  <2> QED BY <2>1, <1>1, <1>3, <1>12, OverKeeps
<1>14. \A n \in Mutation \ {m} :
        /\ SameMutation(n) /\ (Alone(n)' <=> Alone(n))
        /\ Flying(n)' <=> Flying(n)
        /\ \A q \in Query, j \in Item, f \in Field : Excuses(n, q, j, f)' <=> Excuses(n, q, j, f)
  BY <1>13, UntouchedIsSame
<1>15. BoardTyped'
  <2>1. \A q \in Query : cache'[q] \in DataOf(q) /\ cache'[q] \in SomeData
    <3> SUFFICES ASSUME NEW q \in Query PROVE cache'[q] \in DataOf(q)
      BY BoardQueries
    <3>1. CASE cache'[q] = cache[q] \/ cache'[q] = NoData
      BY <3>1, <1>2 DEF BoardTyped, DataOf
    <3>2. CASE cache'[q] # cache[q] /\ cache'[q] # NoData
      <4>1. q = i /\ i \in Job /\ cache'[q] = [j \in {i} |-> mut[m].answer]
        BY <3>2, <1>3, <1>4, <1>10 DEF BoardMut, Kind
      <4>2. Covers(q) = {i}
        BY <4>1, BoardQueries
      <4> QED BY <4>1, <4>2, <1>3 DEF DataOf
    <3> QED BY <3>1, <3>2
  <2>2. cache' \in [Query -> SomeData]
    <3>1. CASE mut[m].kind \in {"drag", "editTask", "deleteTask"}
      <4>1. cache' = cache
        BY <3>1, <1>1 DEF Answered
      <4> QED BY <4>1, <1>2 DEF BoardTyped
    <3>2. CASE mut[m].kind = "delete"
      <4>1. cache' = [cache EXCEPT ![i] = NoData]
        BY <3>2, <1>1 DEF Answered
      <4> QED BY <4>1, <1>2 DEF BoardTyped, SomeData
    <3>3. CASE mut[m].kind \notin {"drag", "editTask", "deleteTask", "delete"}
      <4>1. cache' = [cache EXCEPT ![i] = [j \in {i} |-> mut[m].answer]]
        BY <3>3, <1>1 DEF Answered
      <4>2. i \in Query /\ cache'[i] = [j \in {i} |-> mut[m].answer]
        BY <3>3, <1>3, <1>4, <1>6, <1>10 DEF BoardMut, Kind
      <4>3. [j \in {i} |-> mut[m].answer] \in SomeData
        BY <2>1, <4>2
      <4> QED BY <4>1, <4>3, <1>2 DEF BoardTyped
    <3> QED BY <3>1, <3>2, <3>3
  <2>3. \A q \in List : cache'[q] = cache[q]
    BY <1>3, <1>4, <1>6, <1>10, BoardQueries DEF BoardMut, Kind
  <2>4. \A q \in view' : cache'[q] = NoData => load'[q].stage # "idle"
    <3> SUFFICES ASSUME mut[m].kind # "delete", NEW q \in view, cache'[q] = NoData PROVE load'[q].stage # "idle"
      BY <1>1
    <3>1. q \in Query
      BY <1>2 DEF BoardTyped, BoardAssumption, Query
    <3>2. [j \in {i} |-> mut[m].answer] # NoData \/ i \notin Job
      <4> SUFFICES ASSUME i \in Job PROVE [j \in {i} |-> mut[m].answer] # NoData
        OBVIOUS
      <4>1. Covers(i) = {i} /\ NoData \notin [Covers(i) -> Row]
        BY BoardQueries
      <4>2. [j \in {i} |-> mut[m].answer] \in [{i} -> Row]
        BY <1>3
      <4> QED BY <4>1, <4>2
    <3>3. cache[q] = NoData
      BY <3>1, <3>2, <1>3, <1>4, <1>10 DEF BoardMut, Kind
    <3> QED BY <3>1, <3>3, <1>2, <1>9 DEF BoardTyped
  <2>5. saving' \subseteq Item /\ view' \in View
    BY <1>1, <1>2 DEF BoardTyped, Freed, BoardAssumption
  <2>6. load' \in [Query -> BoardLoad]
    BY <1>1, <1>8
  <2>7. \A q \in Query : IF load'[q].stage = "served" THEN load'[q].data \in [Covers(q) -> Row]
                                                     ELSE load'[q].data = NoData
    BY <1>1, <1>2, <1>7, <1>8, <1>9, BoardRecords DEF BoardTyped
  <2> QED BY <1>1, <1>2, <1>12, <1>13, <2>1, <2>2, <2>3, <2>4, <2>5, <2>6, <2>7 DEF BoardTyped
<1>16. RowsAreGood'
  BY <1>1 DEF BoardInv, RowsAreGood, Good
<1>17. CachesAreGood'
  <2> SUFFICES ASSUME NEW q \in Query \ torn', InSight(q)', cache'[q] # NoData, NEW j \in Covers(q), NEW f \in Field
               PROVE  Good(q, j, f, cache'[q][j][f]) \/ \E n \in Mutation : Excuses(n, q, j, f)'
    BY <1>1 DEF CachesAreGood, Good
  <2>1. j \in Item /\ q \notin torn
    BY <1>12, BoardQueries
  <2>2. InSight(q)
    <3>1. q \notin Job => q \in List
      BY DEF Query
    <3> QED BY <3>1, <1>1, <1>9 DEF InSight
  <2>3. CASE cache'[q] # cache[q]
    <3>1. q = i /\ i \in Job /\ mut[m].kind # "drag" /\ cache'[q] = [h \in {i} |-> mut[m].answer]
      BY <2>3, <1>3, <1>4, <1>10 DEF BoardMut, Kind
    <3>2. Covers(q) = {i} /\ q \in Affects(m)
      BY <3>1, <1>5, BoardQueries
    <3>3. Alone(m)
      BY <3>2, <1>11
    <3>4. Good(i, i, f, mut[m].answer[f])
      BY <3>1, <3>3, <1>1 DEF BoardInv, AnswersAreGood
    <3> QED BY <3>1, <3>2, <3>4
  <2>4. CASE cache'[q] = cache[q]
    <3>1. Good(q, j, f, cache[q][j][f]) \/ \E n \in Mutation : Excuses(n, q, j, f)
      BY <2>1, <2>2, <2>4 DEF BoardInv, CachesAreGood
    <3>2. ASSUME Excuses(m, q, j, f) PROVE Good(q, j, f, cache'[q][j][f])
      <4>1. j = i /\ q \in Affects(m) /\ f \in Promised(m, q)
        BY <3>2, <1>1, <1>5 DEF Excuses
      <4>2. Alone(m) /\ ~(mut[m].kind = "drag" /\ q \in mut[m].behind)
        BY <4>1, <1>11
      <4>3. CASE q \in Job
        <5>1. q = i
          BY <4>1, <4>3, BoardQueries
        <5>2. mut[m].kind \notin {"drag", "editTask", "deleteTask"}
          BY <4>1, <4>3, <5>1, <1>4, BoardQueries DEF Promised
        <5>3. mut[m].kind # "delete" /\ cache'[q] = [h \in {i} |-> mut[m].answer]
          BY <5>1, <5>2, <1>10
        <5>4. Good(i, i, f, mut[m].answer[f])
          BY <4>2, <4>3, <5>1, <5>2, <1>1 DEF BoardInv, AnswersAreGood
        <5> QED BY <4>1, <5>1, <5>3, <5>4
      <4>4. CASE q \in List
        <5>1. q = ListOf[i]
          BY <4>1, <4>4, <1>3, BoardQueries
        <5>2. q \in view /\ load'[q].stage = "idle"
          BY <4>4, BoardQueries, <1>1 DEF InSight
        <5>3. mut[m].kind \in {"drag", "comment"}
          BY <5>1, <5>2, <1>1, <1>8, BoardRecords
        <5>4. mut[m].kind = "drag" /\ f = "at"
          BY <4>1, <4>4, <5>3, BoardQueries DEF Promised
        <5> QED BY <2>1, <2>4, <4>1, <4>2, <5>1, <5>4, <1>1 DEF BoardInv, DragsAreShown
      <4> QED BY <4>3, <4>4 DEF Query
    <3> QED BY <2>1, <2>4, <3>1, <3>2, <1>14
  <2> QED BY <2>3, <2>4
<1>18. DragsAreShown'
  <2> SUFFICES ASSUME NEW n \in Mutation, mut'[n].kind = "drag", Alone(n)',
                      ListOf[mut'[n].item] \notin torn' \cup mut'[n].behind
               PROVE  LET j == mut'[n].item IN
                      /\ mut'[n].stage = "sent" => cache'[ListOf[j]][j].at = mut'[n].input
                      /\ mut'[n].stage = "committed" => Good(ListOf[j], j, "at", cache'[ListOf[j]][j].at)
    BY <1>1 DEF DragsAreShown, Good
  <2>1. CASE n = m
    BY <2>1, <1>13
  <2>2. CASE n # m
    <3> DEFINE j == mut[n].item
               l == ListOf[j]
    <3>1. j \in Item /\ l \in Query /\ l \in List /\ l \notin Job
      BY BoardAffects, BoardQueries
    <3>2. mut'[n] = mut[n] /\ Alone(n) /\ mut[n].kind = "drag" /\ l \notin torn' /\ l \notin mut[n].behind
      BY <2>2, <1>13, <1>14 DEF Untouched
    <3>3. /\ mut[n].stage = "sent" => cache[l][j].at = mut[n].input
          /\ mut[n].stage = "committed" => Good(l, j, "at", cache[l][j].at)
      BY <3>2, <1>12 DEF BoardInv, DragsAreShown
    <3>4. cache'[l] = cache[l]
      BY <3>1, <1>3, <1>4, <1>10 DEF BoardMut, Kind
    <3> QED BY <3>2, <3>3, <3>4
  <2> QED BY <2>1, <2>2
<1> QED BY <1>13, <1>15, <1>16, <1>17, <1>18 DEF BoardInv

-----------------------------------------------------------------------------
\* Every step keeps the invariant.
LEMMA BoardStepKeeps ==
  ASSUME BoardAssumption, BoardInv, BoardNext PROVE BoardInv'
<1>1. UNCHANGED boardLimit /\ BoardStep
  BY DEF BoardNext
<1>2. ASSUME NEW v \in boardLimit.views, Navigate(v) PROVE BoardInv'
  BY <1>1, <1>2, NavigateKeeps
<1>3. ASSUME NEW q \in Query, Serve(q) \/ Arrive(q) \/ LoadFails(q) PROVE BoardInv'
  BY <1>1, <1>3, ServeKeeps, ArriveKeeps, LoadFailsKeeps
<1>4. ASSUME NEW m \in Mutation, NEW i \in Item, NEW t \in Time, Drag(m, i, t) PROVE BoardInv'
  BY <1>1, <1>4, DragKeeps
<1>5. ASSUME NEW m \in Mutation, NEW i \in Job,
             Complete(m, i) \/ Comment(m, i) \/ Cancel(m, i) \/ Reopen(m, i) \/ Edit(m, i) \/ Delete(m, i)
      PROVE  BoardInv'
  BY <1>1, <1>5, CompleteKeeps, CommentKeeps, JobStarts
<1>6. ASSUME NEW m \in Mutation, NEW i \in Item \ Job, (\E t \in Time : EditTask(m, i, t)) \/ DeleteTask(m, i)
      PROVE  BoardInv'
  BY <1>1, <1>6, TaskStarts
<1>7. ASSUME NEW m \in Mutation, Commit(m) \/ Refuse(m) \/ Succeed(m) \/ Fail(m) PROVE BoardInv'
  BY <1>1, <1>7, CommitKeeps, RefuseKeeps, SucceedKeeps, FailKeeps
<1>8. ASSUME NEW i \in Item, OtherChange(i) PROVE BoardInv'
  BY <1>1, <1>8, OtherChangeKeeps
<1> QED BY <1>1, <1>2, <1>3, <1>4, <1>5, <1>6, <1>7, <1>8 DEF BoardStep

LEMMA BoardStutter ==
  ASSUME BoardInv, UNCHANGED boardVars PROVE BoardInv'
<1>1. /\ UNCHANGED <<row, cache, load, view, mut, saving, since, torn, others, faults, boardLimit>>
  BY DEF boardVars
<1>2. BoardTyped' /\ RowsAreGood'
  BY <1>1 DEF BoardInv, BoardTyped, Flying, RowsAreGood, Good
<1>3. LoadsAreGood' /\ CachesAreGood'
  BY <1>1 DEF BoardInv, LoadsAreGood, CachesAreGood, Good, Promised, InSight, Excuses, Advance
<1>4. LoadsSeeCommits'
  BY <1>1 DEF BoardInv, LoadsSeeCommits, Good, Affects, Alone
<1>5. SnapshotsAreGood' /\ AnswersAreGood' /\ DragsAreShown' /\ OverlapsAreKnown'
  BY <1>1 DEF BoardInv, SnapshotsAreGood, AnswersAreGood, DragsAreShown, OverlapsAreKnown, Good,
              Alone, Flying, Affects
<1> QED BY <1>2, <1>3, <1>4, <1>5 DEF BoardInv

LEMMA BoardInvariant == BoardAssumption => (BoardSpec => []BoardInv)
<1> SUFFICES ASSUME BoardAssumption PROVE BoardSpec => []BoardInv
  OBVIOUS
<1>1. BoardInit => BoardInv
  BY BoardStarts
<1>2. BoardInv /\ [BoardNext]_boardVars => BoardInv'
  BY BoardStepKeeps, BoardStutter
<1> QED BY <1>1, <1>2, PTL DEF BoardSpec

\* What the page shows is of the items it covers, its lists are always there, and a load
\* holds rows only between its answer and its arrival: for any items, lists and mutations.
THEOREM BoardTypeCorrect == BoardAssumption => (BoardSpec => []BoardTypeOK)
<1> SUFFICES ASSUME BoardAssumption PROVE BoardSpec => []BoardTypeOK
  OBVIOUS
<1>1. ASSUME BoardInv PROVE BoardTypeOK
  <2>1. BoardTyped
    BY <1>1 DEF BoardInv
  <2>2. ASSUME NEW q \in Query
        PROVE  /\ cache[q] = NoData \/ cache[q] \in [Covers(q) -> Row]
               /\ load[q].stage \in {"idle", "sent", "served"}
               /\ load[q].stage = "served" <=> load[q].data # NoData
               /\ load[q].missed \subseteq Mutation
               /\ cache[q] = NoData /\ q \in view => load[q].stage # "idle"
    <3>1. load[q] \in BoardLoad /\ cache[q] \in DataOf(q)
      BY <2>1 DEF BoardTyped
    <3>2. load[q].stage = "served" => load[q].data # NoData
      BY <2>1, BoardQueries DEF BoardTyped
    <3>3. load[q].stage # "served" => load[q].data = NoData
      BY <2>1 DEF BoardTyped
    <3>4. cache[q] = NoData /\ q \in view => load[q].stage # "idle"
      BY <2>1 DEF BoardTyped
    <3> QED BY <3>1, <3>2, <3>3, <3>4 DEF BoardLoad, DataOf
  <2>3. \A m \in Mutation : mut[m] \in BoardMut
    BY <2>1 DEF BoardTyped
  <2> QED BY <2>1, <2>2, <2>3 DEF BoardTypeOK, BoardTyped, BoardMut
<1> QED BY <1>1, BoardInvariant, PTL

\* Once every answer has been handled, a list or a job on the page shows of every field the
\* value of the last of the user's own writes to it or a later one, whichever loads, answers
\* and refusals came in between and in whatever order (jobs.queries.ts,
\* useScheduleInteractions.ts).
THEOREM WritesCorrect == BoardAssumption => (BoardSpec => []ReadYourWrites)
<1> SUFFICES ASSUME BoardAssumption PROVE BoardSpec => []ReadYourWrites
  OBVIOUS
<1>1. ASSUME BoardInv PROVE ReadYourWrites
  <2> SUFFICES ASSUME Quiet, NEW q \in view \ torn, cache[q] # NoData, NEW i \in Covers(q), NEW f \in Field
               PROVE  cache[q][i][f] \in since[q][i][f]
    BY DEF ReadYourWrites
  <2>1. q \in Query /\ InSight(q)
    BY <1>1 DEF BoardInv, BoardTyped, BoardAssumption, Query, InSight, Quiet
  <2>2. \A m \in Mutation : ~Excuses(m, q, i, f)
    BY DEF Quiet, Excuses
  <2> QED BY <1>1, <2>1, <2>2 DEF BoardInv, CachesAreGood, Good
<1> QED BY <1>1, BoardInvariant, PTL

-----------------------------------------------------------------------------
(***************************************************************************)
(* Grid: an instant is guessed from the local time wanted and corrected    *)
(* four times. With two offsets there are two guesses after the first: one *)
(* that is right stays, and one that is wrong is followed by the other.    *)
(***************************************************************************)

\* A card drawn, a drag on the grid, and what holds of both and of the items behind them.
Span == [start : Int, end : Int]
Drags == [item : GridItem, mode : {"move", "resize"}, from : 0..(Day - 1), to : 0..(Day - 1),
          start : 0..Day, end : Int]

GridInv ==
  /\ zone \in [at : Int, before : Int, after : Int]
  /\ item \in [GridItem -> [start : Int, end : Int, length : Lengths]]
  /\ shown \in [GridItem -> Span \cup {NoCard}]
  /\ \/ drag = NoCard
     \/ drag \in Drags /\ shown[drag.item] # NoCard /\ drag.end <= Day /\ drops < MaxDrops
  /\ zone \in Zones /\ drops \in 0..MaxDrops
  /\ \A i \in GridItem : item[i].start < item[i].end

\* The conversions of the page return minutes; a time snapped or clamped is one of the day.
LEMMA LocalIsInt == ASSUME zone \in [at : Int, before : Int, after : Int], NEW u \in Int PROVE Local(u) \in Int
  BY DEF Local

LEMMA ClampIsDay == ASSUME GridAssumption, NEW m \in Int PROVE Clamp(m) \in 0..Day
  BY DEF Clamp, Greatest, Least, GridAssumption

LEMMA NearestIsInt == ASSUME GridAssumption, NEW m \in Int PROVE Nearest(m) \in Int
  <1>1. 2 * m + Step \in Int /\ 2 * Step \in Int /\ 2 * Step > 0
    BY DEF GridAssumption
  <1>2. (2 * m + Step) \div (2 * Step) \in Int
    BY <1>1
  <1>3. Step \in Int
    BY DEF GridAssumption
  <1> QED BY <1>2, <1>3 DEF Nearest

LEMMA SnapIsDay == ASSUME GridAssumption, NEW m \in Int PROVE Snap(m) \in 0..Day
  BY NearestIsInt, ClampIsDay DEF Snap

LEMMA CorrectedIsInt ==
  ASSUME zone \in [at : Int, before : Int, after : Int], NEW u \in Int, NEW d \in Int
  PROVE  Corrected(u, d) \in Int
  BY LocalIsInt DEF Corrected

LEMMA InstantIsInt ==
  ASSUME GridAssumption, zone \in [at : Int, before : Int, after : Int], NEW m \in Int
  PROVE  Instant(m) \in Int
  <1> DEFINE d == Day + Clamp(m)
  <1>1. d \in Int
    BY ClampIsDay DEF GridAssumption
  <1> HIDE DEF d
  <1>2. Corrected(d, d) \in Int
    BY <1>1, CorrectedIsInt
  <1>3. Corrected(Corrected(d, d), d) \in Int
    BY <1>1, <1>2, CorrectedIsInt
  <1>4. Corrected(Corrected(Corrected(d, d), d), d) \in Int
    BY <1>1, <1>3, CorrectedIsInt
  <1>5. Corrected(Corrected(Corrected(Corrected(d, d), d), d), d) \in Int
    BY <1>1, <1>4, CorrectedIsInt
  <1> QED BY <1>5 DEF Instant, d

\* Two offsets, and so two guesses after the first; one that is right stays, and one that is
\* wrong is followed by the other.
LEMMA InstantIsLocal ==
  ASSUME GridAssumption, zone \in [at : Int, before : Int, after : Int], NEW m \in 0..Day,
         ~Skipped(m)
  PROVE  Local(Instant(m)) = Day + m
  <1> DEFINE d == Day + m
             g1 == Corrected(d, d)
             g2 == Corrected(g1, d)
             g3 == Corrected(g2, d)
             g4 == Corrected(g3, d)
  <1>1. d \in Int /\ m \in Int /\ Clamp(m) = m
    BY DEF Clamp, Greatest, Least, GridAssumption
  <1>2. Instant(m) = g4
    BY <1>1 DEF Instant
  <1>3. PICK u \in Int : Local(u) = d
    BY DEF Skipped, GridAssumption
  <1>4. zone.at \in Int /\ zone.before \in Int /\ zone.after \in Int
    OBVIOUS
  <1> HIDE DEF d
  <1>5. \A x \in Int : /\ Corrected(x, d) = d - zone.before \/ Corrected(x, d) = d - zone.after
                       /\ x < zone.at => Corrected(x, d) = d - zone.before
                       /\ x >= zone.at => Corrected(x, d) = d - zone.after
    BY <1>1, <1>4 DEF Corrected, Local
  <1>6. u = d - zone.before \/ u = d - zone.after
    BY <1>3, <1>4, <1>1 DEF Local
  <1>7. Corrected(u, d) = u
    BY <1>3, <1>1 DEF Corrected
  <1>8. g1 \in Int /\ g2 \in Int /\ g3 \in Int /\ g4 \in Int
    BY <1>1, CorrectedIsInt
  <1>9. g1 = d - zone.before \/ g1 = d - zone.after
    BY <1>5, <1>1
  <1> HIDE DEF g1
  <1>10. g4 = Corrected(g4, d)
    <2>1. \A x \in Int : x = Corrected(x, d) => Corrected(Corrected(x, d), d) = Corrected(x, d)
      OBVIOUS
    <2>2. g2 = Corrected(g2, d)
      BY <1>1, <1>4, <1>5, <1>6, <1>7, <1>8, <1>9
    <2> QED BY <2>2
  <1> HIDE DEF g4
  <1>11. Local(g4) \in Int
    BY <1>8, LocalIsInt
  <1> QED BY <1>1, <1>2, <1>8, <1>10, <1>11 DEF Corrected, d

LEMMA ListedIsShown ==
  ASSUME GridAssumption, GridInv
  PROVE  Listed \in [GridItem -> Span \cup {NoCard}]
  BY DEF Listed, Times, Span, GridInv

LEMMA MinutesAreOfDay ==
  ASSUME GridAssumption, zone \in [at : Int, before : Int, after : Int], NEW u \in Int
  PROVE  Minutes(u) \in 0..(Day - 1)
  BY LocalIsInt DEF Minutes, GridAssumption

LEMMA GridStarts == ASSUME GridAssumption, GridInit PROVE GridInv
  <1>1. zone \in Zones /\ zone \in [at : Int, before : Int, after : Int]
    BY DEF GridInit, GridAssumption
  <1>2. PICK span \in [GridItem -> Spans], length \in [GridItem -> Lengths] :
          item = [i \in GridItem |-> [start |-> span[i].start, end |-> span[i].end,
                                      length |-> length[i]]]
    BY DEF GridInit
  <1>3. \A i \in GridItem : span[i].start \in Int /\ span[i].end \in Int /\ span[i].start < span[i].end
    BY <1>2 DEF GridAssumption
  <1>4. item \in [GridItem -> [start : Int, end : Int, length : Lengths]]
    BY <1>2, <1>3
  <1>5. \A i \in GridItem : item[i].start < item[i].end
    BY <1>2, <1>3
  <1>6. shown \in [GridItem -> Span \cup {NoCard}] /\ drag = NoCard /\ drops \in 0..MaxDrops
    BY DEF GridInit, GridAssumption
  <1> QED BY <1>1, <1>4, <1>5, <1>6 DEF GridInv

LEMMA GridSteps == ASSUME GridAssumption, GridInv, [GridNext]_gridVars PROVE GridInv'
  <1> USE DEF Drags
  <1>0. Day \in Nat \ {0} /\ Step \in Nat \ {0}
    BY DEF GridAssumption
  <1>1. CASE Load
    <2>1. shown' \in [GridItem -> Span \cup {NoCard}]
      BY <1>1, ListedIsShown DEF Load
    <2> QED BY <1>1, <2>1 DEF Load, GridInv
  <1>2. ASSUME NEW i \in GridItem, NEW mode \in {"move", "resize"}, StartDrag(i, mode)
        PROVE  GridInv'
    <2>1. shown[i] \in Span /\ shown[i] # NoCard
      BY <1>2 DEF StartDrag, OnBoard, GridInv
    <2>2. From(i) \in 0..(Day - 1) /\ To(i) \in 0..(Day - 1)
      BY <2>1, MinutesAreOfDay DEF From, To, Span, GridInv
    <2>3. drag' \in Drags /\ drag'.item = i /\ drag'.end <= Day
      BY <1>0, <1>2, <2>2 DEF StartDrag
    <2> QED BY <1>2, <2>1, <2>3 DEF StartDrag, GridInv
  <1>3. ASSUME NEW by \in Pointer, UpdateDrag(by) PROVE GridInv'
    <2>1. drag \in Drags /\ shown[drag.item] # NoCard
      BY <1>3 DEF UpdateDrag, GridInv
    <2>2. Nearest(by) \in Int
      BY <1>3, NearestIsInt DEF GridAssumption
    <2>3. Snap(drag.from + Nearest(by)) \in 0..Day /\ Snap(drag.to + Nearest(by)) \in 0..Day
      BY <1>0, <2>1, <2>2, SnapIsDay
    <2>4. /\ drag' \in Drags /\ drag'.item = drag.item /\ drag'.end <= Day
      <3>1. CASE drag.mode = "move"
        <4>1. drag' = Moved(drag, by)
          BY <1>3, <3>1 DEF UpdateDrag
        <4> DEFINE s == Snap(drag.from + Nearest(by))
                   e == Least(Day, s + (drag.to - drag.from))
        <4>2. e \in Int /\ e <= Day
          BY <1>0, <2>1, <2>3 DEF Least
        <4>3. drag' = [drag EXCEPT !.start = s, !.end = e]
          BY <4>1 DEF Moved
        <4> HIDE DEF s, e
        <4>4. s \in 0..Day
          BY <2>3 DEF s
        <4> QED BY <2>1, <4>2, <4>3, <4>4
      <3>2. CASE drag.mode # "move"
        <4>1. drag' = Resized(drag, by)
          BY <1>3, <3>2 DEF UpdateDrag
        <4> DEFINE e == Least(Day, Greatest(drag.from + Step, Snap(drag.to + Nearest(by))))
        <4>2. e \in Int /\ e <= Day
          BY <1>0, <2>1, <2>3 DEF Least, Greatest
        <4>3. drag' = [drag EXCEPT !.end = e]
          BY <4>1 DEF Resized
        <4> HIDE DEF e
        <4> QED BY <2>1, <4>2, <4>3
      <3> QED BY <3>1, <3>2
    <2> QED BY <1>3, <2>1, <2>4 DEF UpdateDrag, GridInv
  <1>4. CASE CancelDrag
    BY <1>4 DEF CancelDrag, GridInv
  <1>5. CASE Drop
    <2> DEFINE i == drag.item
               start == Instant(drag.start)
               end == Instant(drag.end)
               to == Saved(drag, start, end)
    <2>1. drag \in Drags /\ i \in GridItem
      BY <1>5 DEF Drop, GridInv
    <2>2. start \in Int /\ end \in Int
      BY <1>0, <2>1, InstantIsInt DEF GridInv
    <2>3. to \in [start : Int, end : Int, length : Lengths]
      <3> HIDE DEF i, start, end
      <3>1. item[i] \in [start : Int, end : Int, length : Lengths]
        BY <2>1 DEF GridInv
      <3>2. item[i].length \in Nat
        <4>1. item[i].length \in Lengths
          BY <3>1
        <4>2. \A l \in Lengths : l \in Nat
          BY DEF GridAssumption
        <4> QED BY <4>1, <4>2
      <3>3. start + item[i].length \in Int
        BY <2>2, <3>2
      <3>4. PICK e \in Int : to = [item[i] EXCEPT !.start = start, !.end = e]
        BY <2>2, <3>3 DEF Saved, i
      <3> QED BY <3>1, <2>2, <3>4
    <2>4. CASE UNCHANGED <<item, shown, drops>>
      BY <1>5, <2>4 DEF Drop, GridInv
    <2>5. CASE /\ Accepted(i, to) /\ item' = [item EXCEPT ![i] = to]
               /\ shown' = [shown EXCEPT ![i] = [start |-> start, end |-> end]]
               /\ drops' = drops + 1
      <3> HIDE DEF i, start, end, to
      <3>1. to.start < to.end
        BY <2>5 DEF Accepted
      <3>2. shown' \in [GridItem -> Span \cup {NoCard}]
        BY <2>2, <2>5 DEF GridInv, Span
      <3>3. item' \in [GridItem -> [start : Int, end : Int, length : Lengths]]
        BY <2>3, <2>5 DEF GridInv
      <3>4. \A j \in GridItem : item'[j].start < item'[j].end
        BY <2>1, <2>5, <3>1 DEF GridInv
      <3>5. drag' = NoCard /\ zone' = zone
        BY <1>5 DEF Drop
      <3>6. drops' \in 0..MaxDrops
        <4>1. drops \in 0..MaxDrops /\ drops < MaxDrops
          BY <1>5 DEF Drop, GridInv
        <4> QED BY <2>5, <4>1 DEF GridAssumption
      <3> QED BY <3>2, <3>3, <3>4, <3>5, <3>6 DEF GridInv
    <2> QED BY <1>5, <2>4, <2>5 DEF Drop
  <1>6. CASE UNCHANGED gridVars
    BY <1>6 DEF gridVars, GridInv
  <1> QED BY <1>1, <1>2, <1>3, <1>4, <1>5, <1>6 DEF GridNext

\* A card is a span of minutes, and a drag is on a card that is drawn and stays within the
\* day: for any time zone with a change of the clock, any raster and any items.
THEOREM GridTypeCorrect == GridAssumption => (GridSpec => []GridTypeOK)
  <1> SUFFICES ASSUME GridAssumption PROVE GridSpec => []GridTypeOK
    OBVIOUS
  <1>1. GridInv => GridTypeOK
    <2> SUFFICES ASSUME GridInv PROVE GridTypeOK
      OBVIOUS
    <2>1. \A i \in GridItem : /\ item[i].start \in Int /\ item[i].end \in Int /\ item[i].length \in Lengths
                              /\ item[i].start < item[i].end
      BY DEF GridInv
    <2>2. \A i \in OnBoard : shown[i].start \in Int /\ shown[i].end \in Int
      BY DEF GridInv, OnBoard, Span
    <2>3. drag # NoCard => /\ drag.item \in OnBoard /\ drag.mode \in {"move", "resize"}
                           /\ {drag.from, drag.to} \subseteq 0..Day - 1
                           /\ drag.start \in 0..Day /\ drag.end <= Day
      BY DEF GridInv, OnBoard, Drags
    <2> QED BY <2>1, <2>2, <2>3 DEF GridInv, GridTypeOK
  <1> QED BY <1>1, GridStarts, GridSteps, PTL DEF GridSpec

\* A card is drawn where it was dropped although the instant is only guessed, four times over
\* (buildScheduleInstant, schedule-time.ts): in every zone whose clock changes once in the span
\* looked at, unless the clock jumps over the time it was dropped at.
THEOREM DroppedCorrect == GridAssumption => (GridSpec => CardsStayWhereDropped)
  <1> SUFFICES ASSUME GridAssumption PROVE GridSpec => CardsStayWhereDropped
    OBVIOUS
  <1>1. ASSUME GridInv, [GridNext]_gridVars PROVE [StaysWhereDropped]_gridVars
    <2> SUFFICES ASSUME Drop, shown' # shown, ~Skipped(drag.start)
                 PROVE  Local(shown'[drag.item].start) = Day + drag.start
      BY DEF StaysWhereDropped
    <2>1. drag.item \in GridItem /\ drag.start \in 0..Day
      BY <1>1 DEF Drop, GridInv, Drags
    <2>2. shown'[drag.item].start = Instant(drag.start)
      BY <1>1, <2>1 DEF Drop, GridInv
    <2> QED BY <1>1, <2>1, <2>2, InstantIsLocal DEF GridInv
  <1> QED BY <1>1, GridStarts, GridSteps, PTL DEF GridSpec, CardsStayWhereDropped
=============================================================================
