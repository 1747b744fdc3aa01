------------------------- MODULE ActuatorRefinement -------------------------
(***************************************************************************)
(* The actuator agent implements DeviceReservations: the promises clients  *)
(* still rely on are the reservations of the calendar.                     *)
(***************************************************************************)
EXTENDS ActuatorAgent

\* The promises that stand: those whose owner was neither told they are lost
\* nor lost them in a handler that died before it told.
ReservationOf(p) ==
  IF Stands(p)
  THEN [agent |-> p.agent, priority |-> p.priority, from |-> p.from, slots |-> p.slots]
  ELSE NoPromise

Reserved == [i \in TaskIds |-> ReservationOf(promises[i])]

Reservations == INSTANCE DeviceReservations
                WITH now <- clock, booked <- Reserved, None <- NoPromise

ASSUME NoPromiseAssumption == NoPromise \notin Reservations!Reservation

\* Every step of the agent is a step of the calendar or leaves it alone: no
\* two clients are ever both left believing they have a device at one time,
\* and nobody's reservation gives way that should not.
Implements == Reservations!Spec

=============================================================================
