------------------------------ MODULE Briefing ------------------------------
(***************************************************************************)
(* The briefing of the dashboard: what a company's jobs come to today and   *)
(* in the days ahead, put into words by rules or by a language model, and   *)
(* kept for a while.  A request that finds nothing kept reads the jobs with *)
(* five queries at once, each of which sees another moment, waits for the   *)
(* model's answer or for its time-out, and keeps what it has found, over    *)
(* what others have kept meanwhile.                                         *)
(*                                                                          *)
(* One company.  The language model is external: it answers, or it fails.   *)
(* Wording is left out, and so is which service and which hours are most    *)
(* asked for: it matters only whether there are any.                        *)
(***************************************************************************)
EXTENDS Integers, FiniteSetsExt, Functions

CONSTANTS
  Proc,        \* requests
  Job, Worker,
  Calendars,   \* what the jobs can be: functions from Job to rows
  Changes,     \* the statuses that a job can be given meanwhile
  Day, Days,   \* a day's length; the days of a week
  Ttl,         \* how long a briefing is kept
  Heavy, Many, \* too much time, and too many jobs, for a worker's day
  UnpaidAge,   \* how long a job may be unpaid
  First, Last, \* bounds: the clock
  MaxChanges   \* bound: changes of jobs

BriefingAssumption ==
  /\ Day \in Nat \ {0} /\ Days \in Nat \ {0} /\ Ttl \in Nat \ {0}
  /\ First \in Nat /\ Last \in Nat /\ First <= Last
  /\ \A c \in Calendars : DOMAIN c = Job

VARIABLES
  job,       \* rows
  now,
  useAi,     \* configuration: the model is enabled, and there is a key
  kept,      \* the briefing kept, and until when
  proc,      \* requests
  changes

briefingVars == <<job, now, useAi, kept, proc, changes>>

Query == {"today", "confirm", "unpaid", "ahead", "items"}
NoBriefing == [since |-> 0, ahead |-> << >>, overloaded |-> {}, source |-> "none", quiet |-> FALSE,
               alerts |-> {}, insights |-> {}]
Idle == [stage |-> "idle", arrived |-> 0, at |-> 0, seen |-> {}, answer |-> NoBriefing]

BriefingTypeOK ==
  /\ job \in Calendars \/ changes > 0
  /\ now \in First..Last /\ useAi \in BOOLEAN
  /\ \A p \in Proc : /\ proc[p].stage \in {"idle", "come", "reading", "asking", "answered"}
                     /\ proc[p].stage = "reading" => job \in proc[p].seen

BriefingInit ==
  /\ job \in Calendars /\ now = First /\ useAi \in BOOLEAN
  /\ kept = [until |-> 0, value |-> NoBriefing]
  /\ proc = [p \in Proc |-> Idle] /\ changes = 0

-----------------------------------------------------------------------------
\* Times are the company's; weeks begin with day 0.
DayOf(t) == t \div Day
Weekday(t) == DayOf(t) % Days
SameWeek(s, t) == DayOf(s) \div Days = DayOf(t) \div Days

\* Mistaken: a week from today, whose last day has the name of today.
AWeekAhead == Days
\* The days looked ahead have different names.
Ahead == Days - 1
IsAhead(s, t) == DayOf(s) \in DayOf(t)..(DayOf(t) + Ahead)

Over == {"CANCELED", "DONE", "NO_SHOW"}
Asked(q, r, t) ==
  CASE q = "today" -> DayOf(r.start) = DayOf(t)
    [] q = "confirm" -> r.status = "PENDING_CONFIRMATION" /\ IsAhead(r.start, t)
    [] q = "unpaid" -> r.owed /\ r.start < t - UnpaidAge /\ r.status # "CANCELED"
    [] q = "ahead" -> IsAhead(r.start, t) /\ r.status \notin Over
    [] q = "items" -> SameWeek(r.start, t) /\ r.status \notin {"CANCELED", "NO_SHOW"}

-----------------------------------------------------------------------------
\* Facts.  The jobs of a worker on the days of one name are added up, and the worst three
\* sums are reported; which ones of equals is the queries' order, that is any.
JobsOf(rows, w, d) == {j \in DOMAIN rows : w \in rows[j].workers /\ Weekday(rows[j].start) = d}
Load(rows, S) == FoldSet(LAMBDA j, sum : rows[j].end - rows[j].start + sum, 0, S)
TooMuch(rows, S) == Load(rows, S) > Heavy \/ Cardinality(S) >= Many

Overloads(rows) ==
  LET Of(b) == JobsOf(rows, b.worker, b.day)
      all == {b \in [worker : Worker, day : 0..(Days - 1)] : TooMuch(rows, Of(b))}
      Worse(b, c) == \/ Load(rows, Of(b)) > Load(rows, Of(c))
                     \/ Load(rows, Of(b)) = Load(rows, Of(c)) /\ Cardinality(Of(b)) > Cardinality(Of(c))
  IN {S \in SUBSET all : /\ S = all \/ Cardinality(S) = 3
                         /\ Cardinality(S) <= 3
                         /\ \A b \in all \ S, c \in S : ~Worse(b, c)}

Number(rows, Is(_)) == Cardinality({j \in DOMAIN rows : Is(rows[j])})
Late(today, t) == Number(today, LAMBDA r : r.status \notin Over /\ r.end < t)
Unassigned(today) == Number(today, LAMBDA r : r.workers = {})

\* What the rules say.  When there is nothing else, an overload is not mentioned.
Rules(read, overloaded, t) ==
  LET risks == (IF read["confirm"] # << >> THEN {"confirm"} ELSE {}) \cup
               (IF overloaded # {} THEN {"overloaded"} ELSE {}) \cup
               (IF read["unpaid"] # << >> THEN {"unpaid"} ELSE {})
      late == IF Late(read["today"], t) > 0 /\ Cardinality(risks) < 3 THEN {"late"} ELSE {}
      trends == IF read["items"] # << >> THEN {"service", "peak"} ELSE {}
      idle == IF trends = {} /\ Unassigned(read["today"]) > 0 THEN {"unassigned"} ELSE {}
      quiet == /\ Late(read["today"], t) = 0 /\ Unassigned(read["today"]) = 0
               /\ risks \subseteq {"overloaded"}
  IN [quiet |-> quiet, alerts |-> IF quiet THEN {} ELSE risks \cup late,
      insights |-> trends \cup idle]

-----------------------------------------------------------------------------
Goes(p, from, to) ==
  /\ proc[p].stage = from
  /\ proc' = [proc EXCEPT ![p] = to]

\* getBriefing, of a manager: what is kept, or the company's row.
Arrive(p) ==
  /\ Goes(p, "idle", IF kept.until > now
                     THEN [Idle EXCEPT !.stage = "answered", !.arrived = now, !.answer = kept.value]
                     ELSE [Idle EXCEPT !.stage = "come", !.arrived = now])
  /\ UNCHANGED <<job, now, useAi, kept, changes>>

\* The five queries are made at one time, and answered each at a moment of its own.
ReadCompany(p) ==
  /\ Goes(p, "come", [proc[p] EXCEPT !.stage = "reading", !.at = now, !.seen = {job}])
  /\ UNCHANGED <<job, now, useAi, kept, changes>>

\* Mistaken: kept from when it is finished.
KeptFromTheEnd(p) == now + Ttl
KeptUntil(p) == proc[p].arrived + Ttl

Answers(p, briefing) ==
  /\ Goes(p, proc[p].stage, [proc[p] EXCEPT !.stage = "answered", !.answer = briefing, !.seen = {}])
  /\ kept' = [until |-> KeptUntil(p), value |-> briefing]
  /\ UNCHANGED <<job, now, useAi, changes>>

\* What the query q returns of the jobs as they were.
Returned(q, rows, t) == Restrict(rows, {j \in Job : Asked(q, rows[j], t)})

Compute(p) ==
  /\ proc[p].stage = "reading"
  /\ \E moment \in [Query -> proc[p].seen] :
       LET read == [q \in Query |-> Returned(q, moment[q], proc[p].at)] IN
       \E overloaded \in Overloads(read["ahead"]) :
         LET said == Rules(read, overloaded, now)
             briefing == [since |-> proc[p].at, ahead |-> read["ahead"], overloaded |-> overloaded,
                          source |-> "RULES", quiet |-> said.quiet, alerts |-> said.alerts,
                          insights |-> said.insights]
         IN IF useAi
            THEN /\ Goes(p, "reading", [proc[p] EXCEPT !.stage = "asking", !.answer = briefing, !.seen = {}])
                 /\ UNCHANGED <<job, now, useAi, kept, changes>>
            ELSE Answers(p, briefing)

\* The model has answered, or has failed or is too late, when what the rules say is taken.
AskModel(p) ==
  /\ proc[p].stage = "asking"
  /\ \E source \in {"AI", "RULES"} : Answers(p, [proc[p].answer EXCEPT !.source = source])

\* The request is over, and another can be made.
Leave(p) ==
  /\ Goes(p, "answered", Idle)
  /\ UNCHANGED <<job, now, useAi, kept, changes>>

Change(j, s) ==
  /\ changes < MaxChanges /\ job[j].status # s
  /\ job' = [job EXCEPT ![j].status = s] /\ changes' = changes + 1
  /\ proc' = [p \in Proc |-> IF proc[p].stage = "reading"
                             THEN [proc[p] EXCEPT !.seen = @ \cup {job'}] ELSE proc[p]]
  /\ UNCHANGED <<now, useAi, kept>>

Tick ==
  /\ now < Last /\ now' = now + 1
  /\ UNCHANGED <<job, useAi, kept, proc, changes>>

\* The server is started again.
Restart ==
  /\ kept.until > 0
  /\ kept' = [until |-> 0, value |-> NoBriefing]
  /\ proc' = [p \in Proc |-> Idle]
  /\ UNCHANGED <<job, now, useAi, changes>>

BriefingNext ==
  \/ \E p \in Proc : Arrive(p) \/ ReadCompany(p) \/ Compute(p) \/ AskModel(p) \/ Leave(p)
  \/ \E j \in Job, s \in Changes : Change(j, s)
  \/ Tick \/ Restart

BriefingSpec == BriefingInit /\ [][BriefingNext]_briefingVars

-----------------------------------------------------------------------------
\* A briefing that is handed out was read from the jobs less than Ttl before it was asked
\* for, whoever read it, and however long the queries and the model took (getBriefing).
BriefingsAreRecent ==
  \A p \in Proc : proc[p].stage = "answered" => proc[p].answer.since > proc[p].arrived - Ttl

\* A worker who is called overloaded on a weekday has too much on one day of the calendar
\* (computeOverloadedWorkers adds up by the name of the day).
OverloadedIsOfOneDay ==
  \A p \in Proc : LET b == proc[p].answer IN
    \A o \in b.overloaded : \E d \in DayOf(First)..(DayOf(Last) + Days) :
      TooMuch(b.ahead, {j \in DOMAIN b.ahead : o.worker \in b.ahead[j].workers /\ DayOf(b.ahead[j].start) = d})
=============================================================================
