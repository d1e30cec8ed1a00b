------------------------------- MODULE MCReads -------------------------------
(***************************************************************************)
(* What is computed of the rows of the database when it is asked for, and   *)
(* not stored: instances of Briefing and of Slots for TLC.  The two read    *)
(* the same rows and nothing of each other, so that the model is their sum: *)
(* a behaviour is of the one, or of the other while the dashboard rests.    *)
(***************************************************************************)
EXTENDS Briefing, TLC

CONSTANTS None, w, w1, w2, j1, j2, p1, p2

VARIABLES
  scene,
  rules, exceptions, booked   \* Slots

slots == <<rules, exceptions, booked>>

-----------------------------------------------------------------------------
\* Briefing: weeks of three days; a worker's job of tomorrow with one of the same day, one of
\* a week later, or a customer's of today; either of the two jobs is the one or the other.
Row(s, st, ws, o) == [start |-> s, end |-> s + 1, status |-> st, workers |-> ws, owed |-> o]
Mine(s) == Row(s, "SCHEDULED", {w}, FALSE)
SomeCalendars ==
  {i :> Mine(3) @@ k :> r :
     <<i, k>> \in {<<j1, j2>>, <<j2, j1>>},
     r \in {Mine(3), Mine(9), Row(4, "PENDING_CONFIRMATION", {}, TRUE)}}

DashboardRests == BriefingInit /\ job = [j \in Job |-> Mine(3)] /\ ~useAi

-----------------------------------------------------------------------------
\* Slots: two days of six units.
Window(d, s, e) == [dayOfWeek |-> d, start |-> s, end |-> e]
Absence(open, s, e) == [isOpen |-> open, start |-> s, end |-> e]

\* Two windows that touch; a night that two windows join, with one
\* that is no window at all.
SomeRosters == {
  {Window(0, 0, 2), Window(0, 2, 5)},
  {Window(0, 3, 6), Window(1, 0, 3), Window(1, 4, 4)}}

\* None; two closures that touch, one of them over midnight, and extra hours that overlap both.
SomeAbsences == {
  {},
  {Absence(FALSE, 1, 4), Absence(FALSE, 4, 7), Absence(TRUE, 3, 5)}}

AllSlots == INSTANCE Slots WITH
  job <- booked, Worker <- {w1, w2}, DayLength <- 6, Days <- 2, Durations <- {2, 3},
  DEFAULT_STEP <- 3, MIN_STEP <- 1, MAX_STEP <- 3,
  Rosters <- SomeRosters, Absences <- SomeAbsences

NoSlots == rules = {} /\ exceptions = {} /\ booked = {}

-----------------------------------------------------------------------------
ASSUME ReadsAssumption == BriefingAssumption /\ AllSlots!SlotsAssumption

Symmetry == Permutations({w1, w2}) \cup Permutations({j1, j2}) \cup Permutations({p1, p2})

ReadsInit ==
  \/ scene = "briefing" /\ BriefingInit /\ NoSlots
  \/ scene = "slots" /\ AllSlots!Init /\ DashboardRests

ReadsNext ==
  /\ UNCHANGED scene
  /\ \/ scene = "briefing" /\ BriefingNext /\ UNCHANGED slots
     \/ scene = "slots" /\ AllSlots!Next /\ UNCHANGED briefingVars

ReadsSpec == ReadsInit /\ [][ReadsNext]_<<scene, briefingVars, slots>>

-----------------------------------------------------------------------------
\* Slots!WorkerSlotsAreExact: a worker is offered what is open and free (slots.service.ts).
WorkerSlotsAreExact == scene = "slots" => AllSlots!WorkerSlotsAreExact

\* Slots!ReservationsCanBeServed: what customers reserve can be given to workers
\* (slots.service.ts).
ReservationsCanBeServed == scene = "slots" => AllSlots!ReservationsCanBeServed
=============================================================================
