--------------------------- MODULE ScheduleLists ---------------------------
(***************************************************************************)
(* class Schedule of scheduler.py as it is coded: a list of slots, kept in *)
(* order by bisect.insort and searched with bisect_left and bisect_right,  *)
(* which see the slots only through TimeSlice.__cmp__.  That comparison is *)
(* no total order (slices that conflict are "equal", and a slice of no     *)
(* length is not even less than itself), so that the binary searches find  *)
(* what module Schedules says has to be checked, not assumed.              *)
(***************************************************************************)
EXTENDS Schedules, SequencesExt

CONSTANTS MaxTime,   \* bound on every time
          GraceTime

ASSUME TimesAssumption == MaxTime \in Nat /\ GraceTime \in Nat

VARIABLES timeSlots, now

Times == 0 .. MaxTime
BoundedSlices == {x \in [start : Times, end : Times] : x.start <= x.end}

-----------------------------------------------------------------------------
(* The bisect module of Python's library: positions counted from 0.  Both  *)
(* of its searches are one loop, which halves lo .. hi and goes on to the  *)
(* right of the middle where `right` says so.                              *)

Bisect(right) ==
  LET search[lo \in 0 .. Len(right)] ==
        [hi \in 0 .. Len(right) |->
           IF lo >= hi THEN lo
           ELSE LET mid == (lo + hi) \div 2
                IN  IF right[mid + 1] THEN search[mid + 1][hi] ELSE search[lo][mid]]
  IN  search[0][Len(right)]

BisectRight(a, x) == Bisect([i \in DOMAIN a |-> ~Before(x, a[i])])

\* Bug: bisect_left searches like bisect_right.
FaultyBisectLeft(a, x) == BisectRight(a, x)

BisectLeft(a, x) == Bisect([i \in DOMAIN a |-> Before(a[i], x)])

-----------------------------------------------------------------------------
(* The methods of Schedule on a list. *)

ListCheckAvailability(a, x) ==
  ToSet(SubSeq(a, BisectLeft(a, x) + 1, BisectRight(a, x)))

\* Bug: bisect_right, which also drops the slot now lies in.
FaultyListMakeCurrent(a, t) == SubSeq(a, BisectRight(a, TimeSlice(t, t)) + 1, Len(a))

ListMakeCurrent(a, t) == SubSeq(a, BisectLeft(a, TimeSlice(t, t)) + 1, Len(a))

ListCurrentSlot(a, t) ==
  LET current == ListMakeCurrent(a, t)
  IN  IF current # <<>> /\ ContainsIncludeStart(current[1], t)
      THEN <<current[1]>> ELSE <<>>

ListPruneToCurrent(a, t) ==
  [i \in DOMAIN ListCurrentSlot(a, t) |->
     LET slot == ListCurrentSlot(a, t)[i]
     IN  IF slot.end > t + GraceTime THEN TimeSlice(slot.start, t + GraceTime)
         ELSE slot]

ListNextEventTime(a, t) ==
  LET current == ListMakeCurrent(a, t)
  IN  IF current = <<>> THEN {}
      ELSE {RoundUp(IF ContainsIncludeStart(current[1], t)
                    THEN current[1].end ELSE current[1].start)}

\* Bug: a slot is inserted without the check.
FaultyScheduleSlot(x) ==
  /\ timeSlots' = InsertAt(timeSlots, BisectRight(timeSlots, x) + 1, x)
  /\ UNCHANGED now

ScheduleSlot(x) ==
  /\ ListCheckAvailability(timeSlots, x) = {}
  /\ timeSlots' = InsertAt(timeSlots, BisectRight(timeSlots, x) + 1, x)
  /\ UNCHANGED now

MakeCurrentAt(t) ==
  /\ t >= now
  /\ timeSlots' = ListMakeCurrent(timeSlots, t)
  /\ now' = t

PruneAt(t) ==
  /\ t >= now
  /\ timeSlots' = ListPruneToCurrent(timeSlots, t)
  /\ now' = t

Init == timeSlots = <<>> /\ now = 0

Next ==
  \/ \E x \in BoundedSlices : ScheduleSlot(x)
  \/ \E t \in Times : MakeCurrentAt(t) \/ PruneAt(t)

Spec == Init /\ [][Next]_<<timeSlots, now>>

-----------------------------------------------------------------------------
(* Properties *)

\* The searches of check_availability return exactly the slots that conflict
\* with the one asked about, whatever the list's history.
AvailabilityIsExact ==
  \A x \in BoundedSlices :
    ListCheckAvailability(timeSlots, x) = CheckAvailability(ToSet(timeSlots), x)

\* make_current, get_current_slot, prune_to_current and get_next_event_time
\* on the list agree with their definitions on the set of its elements.
MethodsAgree ==
  \A t \in Times :
    LET slots == ToSet(timeSlots)
    IN  /\ ToSet(ListMakeCurrent(timeSlots, t)) = MakeCurrent(slots, t)
        /\ ToSet(ListCurrentSlot(timeSlots, t)) = CurrentSlot(slots, t)
        /\ ToSet(ListPruneToCurrent(timeSlots, t)) =
             PruneToCurrent(slots, GraceTime, t)
        /\ ListNextEventTime(timeSlots, t) = NextEventTime(slots, t)

\* insort keeps the list in order of time, with no slot twice.
ListInOrder ==
  \A i, j \in DOMAIN timeSlots :
    i < j => /\ Precedes(timeSlots[i], timeSlots[j])
             /\ ~Conflict(timeSlots[i], timeSlots[j])

=============================================================================
