----------------------------- MODULE MCActuator -----------------------------
(* Small instances of the actuator agent for TLC. *)
EXTENDS ActuatorRefinement, TLC

CONSTANTS a1, a2, d1, d2, t1, t2, t3

Slot(d, s, e) == [device |-> d, start |-> s, end |-> e]

\* Two ticks to a second.  Slots that overlap, touch, start or end within a
\* second, leave a gap, take two devices, and requests Task refuses.
MCRequests ==
  { {Slot(d1, 0, 5)},
    {Slot(d1, 2, 3), Slot(d1, 4, 6)},
    {Slot(d1, 3, 6), Slot(d2, 1, 4)},
    {Slot(d2, 2, 6)},
    {Slot(d1, 4, 2)} }

\* For the runs where the agent dies or its clock is set back.
FewRequests ==
  { {Slot(d1, 0, 3)}, {Slot(d1, 2, 4)}, {Slot(d1, 1, 2), Slot(d1, 3, 4)} }

\* The same with a slot of no length, which TimeSlice accepts, at the start of
\* one slot and inside another.
InstantRequests == { {Slot(d1, 0, 3)}, {Slot(d1, 2, 4)}, {Slot(d1, 2, 2)} }

\* For the run whose saves may fail: the fewest that conflict and touch.
TwoRequests == { {Slot(d1, 0, 3)}, {Slot(d1, 2, 4)} }

Symmetry == Permutations(Agents) \cup Permutations(TaskIds)

=============================================================================
