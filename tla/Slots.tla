-------------------------------- MODULE Slots --------------------------------
(***************************************************************************)
(* Which slots are offered (slots.service.ts), and the calendar that fills *)
(* up with them: customers reserve a slot of the company, workers create   *)
(* jobs for themselves, managers create jobs at any time and give          *)
(* reservations to workers.  Booking describes the same operations when    *)
(* they run at once; here they run one at a time, on real intervals, and a *)
(* job that is not a customer's has one worker.                            *)
(*                                                                         *)
(* Time is counted in units from the start of day 0 in the company's time  *)
(* zone.  Availability rules and exceptions are set up with the company    *)
(* (prisma/seed.ts); no operation changes them.                            *)
(***************************************************************************)
EXTENDS Intervals, FiniteSets, FiniteSetsExt

CONSTANTS
  Worker,      \* active workers of the company
  None,        \* no worker
  Job,         \* ids of job rows; bound: no more jobs
  DayLength,   \* units of a day
  Days,        \* days customers look at, counted from 0
  Durations,   \* durations of the services
  DEFAULT_STEP, MIN_STEP, MAX_STEP,   \* units of the grid of slots
  Rosters,     \* availability rules a worker can have
  Absences     \* availability exceptions a worker can have

SlotsAssumption ==
  /\ None \notin Worker /\ IsFiniteSet(Worker)
  /\ IsFiniteSet(Job)
  /\ DayLength \in Nat \ {0} /\ Days \in Nat \ {0}
  /\ Durations \subseteq Nat \ {0}
  /\ MIN_STEP \in Nat \ {0} /\ MAX_STEP \in Nat \ {0} /\ DEFAULT_STEP \in Nat
  /\ \A r \in Rosters : r \subseteq [dayOfWeek : 0..6, start : 0..DayLength, end : 0..DayLength]
  /\ \A x \in UNION Absences : x.start < x.end /\ x.isOpen \in BOOLEAN

VARIABLES
  rules,       \* AvailabilityRule rows of each worker
  exceptions,  \* AvailabilityException rows of each worker
  job          \* Job rows

vars == <<rules, exceptions, job>>

Time == 0 .. (Days * DayLength)
NoJob == [status |-> "none", worker |-> None, start |-> 0, end |-> 0]
Row == {[status |-> "blocking", worker |-> w, start |-> s, end |-> e] :
          w \in Worker \cup {None}, s \in Time, e \in Time}

\* Rules and exceptions stay as set up; a row is absent or a job of some length.
TypeOK ==
  /\ rules \in [Worker -> Rosters]
  /\ exceptions \in [Worker -> Absences]
  /\ \A j \in Job : job[j] = NoJob \/ (job[j] \in Row /\ job[j].start < job[j].end)

Init ==
  /\ rules \in [Worker -> Rosters]
  /\ exceptions \in [Worker -> Absences]
  /\ job = [j \in Job |-> NoJob]

-----------------------------------------------------------------------------
(***************************************************************************)
(* slots.service.ts                                                        *)
(***************************************************************************)
\* Jobs in a blocking status of a worker, or of the company where the worker is
\* None, that meet a range.
JobsOf(w, range) ==
  {j \in Job : job[j].status = "blocking" /\ job[j].worker = w /\ Meet(job[j], range)}

Spans(jobs) == SetToSeq({Interval(job[j].start, job[j].end) : j \in jobs})

\* computeStepMins
ComputeStep(duration, override) ==
  Min({Min({Max({override, MIN_STEP}), MAX_STEP}), duration})

DayRange(day) == Interval(day * DayLength, (day + 1) * DayLength)
DayOf(t) == t \div DayLength

\* generateWorkerSlots
WorkerSlots(w, range, duration, step) ==
  LET base == ExpandDailyWindows(range.start, range.end, DayLength, rules[w])
      near == {x \in exceptions[w] : Meet(x, range)}
      open == ApplyExceptions(base, near)
      free == SubtractIntervals(open, Spans(JobsOf(w, range)))
  IN  Sorted(SnapToSlots(free, duration, step))

\* getWorkerSlots and getWorkerSlotsForDay, with the step that is asked for.
GetWorkerSlots(w, range, duration, override) ==
  WorkerSlots(w, range, duration, ComputeStep(duration, override))

\* The slots for which isSlotBookable holds: what the worker offers on the day.
BookableSlots(w, day, duration) ==
  Range(WorkerSlots(w, DayRange(day), duration, ComputeStep(duration, DEFAULT_STEP)))

\* Mistaken: the reservations may use up all the workers and one more.
CompanySlotsToTheLast(day, duration, step) ==
  LET slots == [w \in Worker |-> Range(WorkerSlots(w, DayRange(day), duration, step))]
      taken(s) == {j \in JobsOf(None, DayRange(day)) : Meet(job[j], s)}
  IN  {s \in UNION {slots[w] : w \in Worker} :
         Cardinality({w \in Worker : s \in slots[w]}) >= Cardinality(taken(s))}

\* getCompanySlotsForDay: the slots of some workers, as long as there are more
\* of them than reservations without a worker at the time.
CompanySlots(day, duration, step) ==
  LET slots == [w \in Worker |-> Range(WorkerSlots(w, DayRange(day), duration, step))]
      taken(s) == {j \in JobsOf(None, DayRange(day)) : Meet(job[j], s)}
  IN  {s \in UNION {slots[w] : w \in Worker} :
         Cardinality({w \in Worker : s \in slots[w]}) > Cardinality(taken(s))}

\* The slots for which isCompanySlotBookable holds.
BookableCompanySlots(day, duration) ==
  CompanySlots(day, duration, ComputeStep(duration, DEFAULT_STEP))

-----------------------------------------------------------------------------
(***************************************************************************)
(* The operations that put jobs on the calendar                            *)
(***************************************************************************)
\* assertNoWorkerConflicts
NoWorkerConflicts(w, slot) == JobsOf(w, slot) = {}

Insert(w, slot) ==
  /\ \E j \in Job :
       /\ job[j] = NoJob
       /\ job' = [job EXCEPT ![j] =
            [status |-> "blocking", worker |-> w, start |-> slot.start, end |-> slot.end]]
  /\ UNCHANGED <<rules, exceptions>>

\* createPublicBookingDraft
Reserve(day, duration) ==
  \E s \in BookableCompanySlots(day, duration) : Insert(None, s)

\* createJob by a worker
WorkerCreate(w, day, duration) ==
  \E s \in BookableSlots(w, day, duration) : NoWorkerConflicts(w, s) /\ Insert(w, s)

\* createJob by a manager: any time, in and out of hours.
Slot == {s \in {Interval(t, t + d) : t \in Time, d \in Durations} : s.end \in Time}
ManagerCreate(w) == \E s \in Slot : NoWorkerConflicts(w, s) /\ Insert(w, s)

\* reviewJob gives a reservation to a worker, and may move it.
Assign(j, w, slot) ==
  /\ job[j].status = "blocking" /\ job[j].worker = None
  /\ NoWorkerConflicts(w, slot)
  /\ job' = [job EXCEPT ![j] = [@ EXCEPT !.worker = w, !.start = slot.start, !.end = slot.end]]
  /\ UNCHANGED <<rules, exceptions>>

\* The job is completed, cancelled or deleted.
Leave(j) ==
  /\ job[j].status = "blocking"
  /\ job' = [job EXCEPT ![j] = NoJob]
  /\ UNCHANGED <<rules, exceptions>>

Next ==
  \/ \E day \in 0..(Days - 1), d \in Durations :
       \/ Reserve(day, d)
       \/ \E w \in Worker : WorkerCreate(w, day, d)
  \/ \E w \in Worker : ManagerCreate(w)
  \/ \E j \in Job :
       \/ Leave(j)
       \/ \E w \in Worker, s \in Slot : Assign(j, w, s)

Spec == Init /\ [][Next]_vars

-----------------------------------------------------------------------------
(***************************************************************************)
(* What is promised, in terms of points of time                            *)
(***************************************************************************)
Daily(w) ==
  {t \in Time : \E r \in rules[w] :
     /\ r.dayOfWeek = DayOf(t) % 7
     /\ r.start <= t % DayLength /\ t % DayLength < r.end}
Excepted(w, isOpen) == UNION {Points(x) : x \in {y \in exceptions[w] : y.isOpen = isOpen}}
Working(w) == (Daily(w) \ Excepted(w, FALSE)) \cup Excepted(w, TRUE)
Busy(w) == UNION {Points(job[j]) : j \in {k \in Job : job[k].worker = w}}

\* A list of slots is exactly the slots of a range that start on the grid and in
\* which the worker is at work and leads no job, each of them once.
Exact(list, w, range, duration, step) ==
  LET promised == {s \in Slot :
        /\ s.end - s.start = duration
        /\ s.start % step = 0
        /\ Points(s) \subseteq (Working(w) \ Busy(w)) \cap Points(range)}
  IN  Range(list) = promised /\ Len(list) = Cardinality(promised)

\* Whatever the rules, exceptions, jobs and steps, a day's or several whole days'
\* slots of a worker are all and only those the worker can serve: the chain of
\* sorting, merging, subtracting and snapping loses no time, not at the points
\* where intervals touch, and offers none that is taken.
WorkerSlotsAreExact ==
  \A w \in Worker, d \in Durations, first, last \in 0..(Days - 1) :
    first <= last =>
      \A override \in MIN_STEP..MAX_STEP :
        LET range == Interval(first * DayLength, (last + 1) * DayLength)
        IN  Exact(GetWorkerSlots(w, range, d, override), w, range, d,
                  ComputeStep(d, override))

\* The reservations accepted one by one, each only counted against the workers
\* free at its time, can all be served together: they can be divided among the
\* workers so that each works in its hours and on one reservation at a time,
\* although durations and hours differ and nobody is chosen for them yet.
ReservationsCanBeServed ==
  LET reserved == {j \in Job : job[j].status = "blocking" /\ job[j].worker = None} IN
  \E plan \in [reserved -> Worker] :
    \A j \in reserved :
      /\ Points(job[j]) \subseteq Working(plan[j])
      /\ \A k \in reserved \ {j} : plan[k] = plan[j] => ~Meet(job[j], job[k])
=============================================================================
