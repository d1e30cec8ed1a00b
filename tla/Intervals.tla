------------------------------ MODULE Intervals ------------------------------
(***************************************************************************)
(* The interval algebra of slots/intervals.ts: lists of half-open          *)
(* intervals of time.  A point of time stands for the unit that begins     *)
(* there, so that an interval is also the set of the points it holds.      *)
(***************************************************************************)
EXTENDS Naturals, Sequences, SequencesExt

\* OpenInterval
Interval(s, e) == [start |-> s, end |-> e]
Points(i) == i.start .. (i.end - 1)
Covered(list) == UNION {Points(list[k]) : k \in DOMAIN list}
Meet(i, j) == i.start < j.end /\ i.end > j.start

ByStart(i, j) == i.start < j.start
Sorted(list) == SortSeq(list, ByStart)

\* Mistaken: intervals that only touch stay apart.
MergeOverlapping(list) ==
  LET Extend(done, i) ==
        IF done = <<>> \/ i.start >= Last(done).end
        THEN Append(done, i)
        ELSE [done EXCEPT ![Len(done)].end = IF i.end > @ THEN i.end ELSE @]
  IN  FoldLeft(Extend, <<>>, Sorted(list))

\* mergeIntervals: in the order of their starts, each interval extends the last
\* one that it overlaps or touches.
MergeIntervals(list) ==
  LET Extend(done, i) ==
        IF done = <<>> \/ i.start > Last(done).end
        THEN Append(done, i)
        ELSE [done EXCEPT ![Len(done)].end = IF i.end > @ THEN i.end ELSE @]
  IN  FoldLeft(Extend, <<>>, Sorted(list))

\* What a block leaves of a segment.
Cut(seg, block) ==
  IF ~Meet(seg, block) THEN <<seg>>
  ELSE (IF block.start > seg.start THEN <<Interval(seg.start, block.start)>> ELSE <<>>)
         \o (IF block.end < seg.end THEN <<Interval(block.end, seg.end)>> ELSE <<>>)

CutAll(segs, block) == FlattenSeq([k \in DOMAIN segs |-> Cut(segs[k], block)])

\* subtractIntervals: without blocks, the base as it is.
SubtractIntervals(base, blocks) ==
  IF base = <<>> \/ blocks = <<>> THEN base
  ELSE MergeIntervals(
         FlattenSeq([k \in DOMAIN base |-> FoldLeft(CutAll, <<base[k]>>, Sorted(blocks))]))

UnionIntervals(a, b) == MergeIntervals(a \o b)

\* expandDailyWindows: the windows of each weekday, on every day that begins in
\* [from, to).  Only whole days: from is taken back to the start of its day.
ExpandDailyWindows(from, to, dayLength, windows) ==
  LET days == {d \in (from \div dayLength) .. (to \div dayLength) : d < to \div dayLength}
      at(d) == {Interval(d * dayLength + w.start, d * dayLength + w.end) :
                  w \in {v \in windows : v.dayOfWeek = d % 7 /\ v.end > v.start}}
  IN  MergeIntervals(SetToSeq(UNION {at(d) : d \in days}))

\* applyExceptions: what is closed is taken away, then what is open is added.
ApplyExceptions(open, exceptions) ==
  LET spans(isOpen) == SetToSeq({Interval(x.start, x.end) :
                                   x \in {y \in exceptions : y.isOpen = isOpen}})
  IN  MergeIntervals(UnionIntervals(SubtractIntervals(open, spans(FALSE)), spans(TRUE)))

\* snapToSlots: the slots of a duration that start on the grid of step and fit
\* into one of the open intervals.
SnapToSlots(open, duration, step) ==
  LET slotsIn(o) ==
        LET first == o.start + ((step - (o.start % step)) % step)
            count == IF first + duration > o.end THEN 0
                     ELSE (o.end - duration - first) \div step + 1
        IN  [k \in 1..count |-> Interval(first + (k-1) * step,
                                         first + (k-1) * step + duration)]
  IN  FlattenSeq([k \in DOMAIN open |-> slotsIn(open[k])])
=============================================================================
