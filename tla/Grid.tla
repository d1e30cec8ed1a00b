-------------------------------- MODULE Grid --------------------------------
(***************************************************************************)
(* The board of one day and one worker: which items the server lists for    *)
(* it, the lanes their cards are drawn in, and a card that is dragged       *)
(* (schedule-row-layout.ts, schedule-time.ts, useScheduleInteractions.ts;   *)
(* job-query.service.ts, schedule.service.ts and tasks.service.ts).         *)
(*                                                                          *)
(* Instants are integers of one unit, and a day of the company's zone is    *)
(* Day of them; the zone's offset may change once.  The board shows the     *)
(* local day that begins at Day.  What other requests do in the meantime    *)
(* is the subject of Board; here a drop is answered in the step it is made. *)
(***************************************************************************)
EXTENDS Integers, FiniteSets, SequencesExt

CONSTANTS
  GridJob, GridTask,       \* items
  Day, Step,       \* a day, and the grid that a drag snaps to
  Zones,           \* [at, before, after]: the offset of local time, and when it changes
  Spans,           \* [start, end]: the times that items begin with
  Lengths,         \* durations of services
  ServerAgrees,    \* whether the server runs in the company's zone, or in UTC
  Pointer,         \* bound: how far the pointer goes
  MaxDrops         \* bound

GridAssumption ==
  /\ GridJob \cap GridTask = {} /\ {Day, Step} \subseteq Nat \ {0} /\ MaxDrops \in Nat
  /\ Zones \subseteq [at : Int, before : Int, after : Int]
  /\ Spans \subseteq [start : Int, end : Int]
  /\ Pointer \subseteq Int /\ Lengths \subseteq Nat \ {0} /\ ServerAgrees \in BOOLEAN
  /\ \A s \in Spans : s.start < s.end

GridItem == GridJob \cup GridTask

VARIABLES
  zone,    \* of the company
  item,    \* item -> its start and end, and for a job the length of its service
  shown,   \* the list the board was given: item -> start and end, or NoCard
  drag,    \* the card under the pointer, or NoCard
  drops

gridVars == <<zone, item, shown, drag, drops>>
NoCard == [none |-> TRUE]

Least(a, b) == IF a < b THEN a ELSE b
Greatest(a, b) == IF a > b THEN a ELSE b

-----------------------------------------------------------------------------
\* Local time, with the origin of the day shown at Day; its minute of the day, and back.
Local(u) == u + IF u < zone.at THEN zone.before ELSE zone.after
Minutes(u) == Local(u) % Day
Clamp(m) == Greatest(0, Least(Day, m))

\* What is wrong with a guess of the instant.
Corrected(u, desired) == u + (desired - Local(u))

\* Mistaken: the offset is looked up once.
InstantOnce(m) == LET desired == Day + Clamp(m) IN Corrected(desired, desired)

\* The offset of the guess may not be the one of the answer: four rounds of correction.
Instant(m) ==
  LET desired == Day + Clamp(m)
      Again(u) == Corrected(u, desired)
  IN Again(Again(Again(Again(desired))))

\* The nearest point of the grid, halves up.
Nearest(m) == ((2 * m + Step) \div (2 * Step)) * Step
Snap(m) == Clamp(Nearest(m))

-----------------------------------------------------------------------------
\* The server's list.  The board asks for "date"T00:00:00 to T23:59:59 without a zone,
\* which the server reads as its own.
Asked(m) == IF ServerAgrees THEN Instant(m) ELSE Day + m

Overlaps(i) == item[i].start < Asked(Day) /\ item[i].end > Asked(0)
Meet(s, t) == s.start < t.end /\ t.start < s.end
Times(i) == [start |-> item[i].start, end |-> item[i].end]
Listed == [i \in GridItem |-> IF Overlaps(i) THEN Times(i) ELSE NoCard]
OnBoard == {i \in GridItem : shown[i] # NoCard}

\* Lanes.  Cards by their first minute, then their last; each goes to the first lane whose
\* last card has ended.
From(i) == Minutes(shown[i].start)
To(i) == Minutes(shown[i].end)

Rank == CHOOSE r \in [GridItem -> 1..Cardinality(GridItem)] :
          /\ \A i, j \in GridItem : i # j => r[i] # r[j]
          /\ \A i \in GridJob, j \in GridTask : r[i] < r[j]

Before(i, j) ==
  \/ From(i) < From(j)
  \/ From(i) = From(j) /\ (To(i) < To(j) \/ (To(i) = To(j) /\ Rank[i] < Rank[j]))

\* The first free lane, or 0.
Free(ends, m) == SelectInSeq(ends, LAMBDA e : e <= m)

\* Mistaken: a lane that is used again keeps its first end.
PlacedOnce(lanes, i) ==
  LET free == Free(lanes.ends, From(i)) IN
  [ends |-> IF free = 0 THEN Append(lanes.ends, To(i)) ELSE lanes.ends,
   of |-> [lanes.of EXCEPT ![i] = IF free = 0 THEN Len(lanes.ends) + 1 ELSE free]]

Placed(lanes, i) ==
  LET free == Free(lanes.ends, From(i))
      l == IF free = 0 THEN Len(lanes.ends) + 1 ELSE free
  IN [ends |-> IF free = 0 THEN Append(lanes.ends, To(i)) ELSE [lanes.ends EXCEPT ![l] = To(i)],
      of |-> [lanes.of EXCEPT ![i] = l]]
Lane == FoldLeft(Placed, [ends |-> <<>>, of |-> [i \in GridItem |-> 0]], SetToSortSeq(OnBoard, Before)).of

-----------------------------------------------------------------------------
GridTypeOK ==
  /\ zone \in Zones
  /\ \A i \in GridItem : /\ item[i].start \in Int /\ item[i].end \in Int /\ item[i].length \in Lengths
                     /\ item[i].start < item[i].end
  /\ \A i \in OnBoard : shown[i].start \in Int /\ shown[i].end \in Int
  /\ drag # NoCard => /\ drag.item \in OnBoard /\ drag.mode \in {"move", "resize"}
                    /\ {drag.from, drag.to} \subseteq 0..Day - 1
                    /\ drag.start \in 0..Day /\ drag.end <= Day
  /\ drops \in 0..MaxDrops

GridInit ==
  /\ zone \in Zones
  /\ \E span \in [GridItem -> Spans], length \in [GridItem -> Lengths] :
       item = [i \in GridItem |-> [start |-> span[i].start, end |-> span[i].end, length |-> length[i]]]
  /\ \A i, j \in GridJob : i # j => ~Meet(item[i], item[j])
  /\ shown = [i \in GridItem |-> NoCard] /\ drag = NoCard /\ drops = 0

Load ==
  /\ drag = NoCard
  /\ shown' = Listed
  /\ UNCHANGED <<zone, item, drag, drops>>

-----------------------------------------------------------------------------
\* A card is taken, moved or resized, and dropped.
StartDrag(i, mode) ==
  /\ drag = NoCard /\ i \in OnBoard /\ drops < MaxDrops
  /\ drag' = [item |-> i, mode |-> mode, from |-> From(i), to |-> To(i),
              start |-> From(i), end |-> To(i)]
  /\ UNCHANGED <<zone, item, shown, drops>>

\* The start snaps and the length is kept, up to the end of the day.
Moved(d, by) ==
  LET start == Snap(d.from + Nearest(by)) IN
  [d EXCEPT !.start = start, !.end = Least(Day, start + (d.to - d.from))]

\* At least one step of the grid remains.
Resized(d, by) ==
  [d EXCEPT !.end = Least(Day, Greatest(d.from + Step, Snap(d.to + Nearest(by))))]

UpdateDrag(by) ==
  /\ drag # NoCard
  /\ drag' = IF drag.mode = "move" THEN Moved(drag, by) ELSE Resized(drag, by)
  /\ UNCHANGED <<zone, item, shown, drops>>

CancelDrag == drag # NoCard /\ drag' = NoCard /\ UNCHANGED <<zone, item, shown, drops>>

\* What the server makes of it: a job that is moved is sent without its end, and gets the
\* length of its service.
Saved(d, start, end) ==
  [item[d.item] EXCEPT !.start = start,
     !.end = IF d.item \in GridTask \/ d.mode = "resize" THEN end ELSE start + item[d.item].length]

\* It refuses an end that is not after the start, a job at the time of another, and a
\* change that changes nothing.
Accepted(i, to) ==
  /\ to.start < to.end
  /\ i \in GridJob => /\ \A j \in GridJob \ {i} : ~Meet(item[j], to)
                  /\ to # item[i]

\* The card is drawn where it was dropped, and put back if the server refuses.
Drop ==
  LET i == drag.item
      start == Instant(drag.start)
      end == Instant(drag.end)
      to == Saved(drag, start, end)
  IN
  /\ drag # NoCard /\ drag' = NoCard
  /\ IF (drag.start = drag.from /\ drag.end = drag.to) \/ ~Accepted(i, to)
     THEN UNCHANGED <<item, shown, drops>>
     ELSE /\ item' = [item EXCEPT ![i] = to]
          /\ shown' = [shown EXCEPT ![i] = [start |-> start, end |-> end]]
          /\ drops' = drops + 1
  /\ UNCHANGED zone

GridNext ==
  \/ Load
  \/ \E i \in GridItem : StartDrag(i, "move") \/ StartDrag(i, "resize")
  \/ \E by \in Pointer : UpdateDrag(by)
  \/ CancelDrag \/ Drop

GridSpec == GridInit /\ [][GridNext]_gridVars

-----------------------------------------------------------------------------
\* "places overlapping jobs on separate lanes" (schedule-row-layout.spec.ts:51), of cards that
\* end on the day they begin: a card that ends at midnight or later frees its lane at once.
EndsThatDay(i) == From(i) < To(i)
OverlapsAreApart ==
  \A i, j \in OnBoard :
    i # j /\ EndsThatDay(i) /\ EndsThatDay(j) /\ Meet(shown[i], shown[j]) => Lane[i] # Lane[j]

\* A card is drawn where it was dropped, over a change of the clock as well, unless the
\* clock jumps over that time (schedule-time.ts:109).
Skipped(m) == ~\E u \in -2 * Day..4 * Day : Local(u) = Day + m
StaysWhereDropped ==
  Drop /\ shown' # shown => \/ Skipped(drag.start)
                           \/ Local(shown'[drag.item].start) = Day + drag.start
CardsStayWhereDropped == [][StaysWhereDropped]_gridVars
=============================================================================
