----------------------------- MODULE Schedules -----------------------------
(***************************************************************************)
(* Time slices and device schedules of the actuator agent                  *)
(* (Agents/ActuatorAgent/actuator/scheduler.py, classes TimeSlice and      *)
(* Schedule).                                                              *)
(*                                                                         *)
(* Time is counted in ticks, TicksPerSecond of them to a second, so that   *)
(* the microsecond part of a datetime survives as "not a whole second".    *)
(* The code keeps a schedule as a list that bisect.insort keeps sorted;    *)
(* here it is the set of the list's elements.  Module ScheduleLists checks *)
(* that the list and its bisect searches compute what these sets say.      *)
(***************************************************************************)
EXTENDS Integers

CONSTANT TicksPerSecond

ASSUME TicksPerSecondAssumption == TicksPerSecond \in Nat \ {0}

-----------------------------------------------------------------------------
(* TimeSlice *)

TimeSlice(s, e) == [start |-> s, end |-> e]

\* The slices TimeSlice.__init__ accepts: end < start raises ValueError, a
\* slice of no length is accepted.
Slices == {x \in [start : Nat, end : Nat] : x.start <= x.end}

\* x < y, that is __cmp__(x, y) = -1: its first test is x.start >= y.end.
Before(x, y) == x.start < y.end /\ x.end <= y.start

\* Neither is before the other: what a pair of bisect searches finds "equal".
Conflict(x, y) == ~Before(x, y) /\ ~Before(y, x)

\* The start belongs to the slice, the end does not; a slice of no length
\* holds its only instant.
ContainsIncludeStart(x, now) == (x.start < now /\ now < x.end) \/ now = x.start

-----------------------------------------------------------------------------
(* Schedule: the slots of one task on one device, sorted by time. *)

\* Bug: slots that share no time do not conflict, not even two at one instant.
FaultyCheckAvailability(slots, x) ==
  {y \in slots : y.start < x.end /\ x.start < y.end}

CheckAvailability(slots, x) == {y \in slots : Conflict(x, y)}

GetConflicts(slots, others) == {x \in slots : CheckAvailability(others, x) # {}}

\* Bug: bisect_right, which also drops the slot now lies in.
FaultyMakeCurrent(slots, now) == {x \in slots : Before(TimeSlice(now, now), x)}

MakeCurrent(slots, now) == {x \in slots : ~Before(x, TimeSlice(now, now))}

\* The order of the list: a slot of no length sorts before one it starts.
Precedes(x, y) == x.start < y.start \/ (x.start = y.start /\ x.end <= y.end)

\* time_slots[0] after make_current, as a set of at most one slot.
FirstSlot(slots, now) ==
  LET current == MakeCurrent(slots, now)
  IN  {x \in current : \A y \in current : Precedes(x, y)}

CurrentSlot(slots, now) ==
  {x \in FirstSlot(slots, now) : ContainsIncludeStart(x, now)}

\* Bug: the first slot is cut, whether it has begun or not.
FaultyPruneToCurrent(slots, grace, now) ==
  {TimeSlice(x.start, IF x.end > now + grace THEN now + grace ELSE x.end) :
     x \in FirstSlot(slots, now)}

PruneToCurrent(slots, grace, now) ==
  {TimeSlice(x.start, IF x.end > now + grace THEN now + grace ELSE x.end) :
     x \in CurrentSlot(slots, now)}

\* replace(microsecond=0) + 1 second, unless already a whole second.
RoundUp(t) == ((t + TicksPerSecond - 1) \div TicksPerSecond) * TicksPerSecond

\* Bug: the start of the first slot, even when it has begun.
FaultyNextEventTime(slots, now) == {RoundUp(x.start) : x \in FirstSlot(slots, now)}

NextEventTime(slots, now) ==
  {RoundUp(IF ContainsIncludeStart(x, now) THEN x.end ELSE x.start) :
     x \in FirstSlot(slots, now)}

=============================================================================
