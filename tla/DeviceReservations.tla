------------------------- MODULE DeviceReservations -------------------------
(***************************************************************************)
(* What the actuator agent promises its clients, without tasks, states,    *)
(* timers or files: a calendar of reservations no two of which conflict.   *)
(* A reservation is lost only to its owner's cancellation or to one of     *)
(* high priority, and then only if it has low priority and has not begun,  *)
(* or may be preempted at any time.                                        *)
(* Module ActuatorAgent implements it (ActuatorRefinement).                *)
(***************************************************************************)
EXTENDS Schedules

CONSTANTS Agents, Devices, TaskIds, None

VARIABLES now, booked

Reservation == [agent : Agents, priority : {"HIGH", "LOW", "LOW_PREEMPT"},
                from : Nat, slots : [Devices -> SUBSET Slices]]

Booked == {i \in TaskIds : booked[i] # None}

\* May the reservation give way to one of high priority?
Yields(r) == \/ r.priority = "LOW_PREEMPT"
             \/ r.priority = "LOW" /\ r.from > now

Clash(r, q) ==
  \E d \in Devices : \E x \in r.slots[d], y \in q.slots[d] : Conflict(x, y)

Drop(gone) == [i \in TaskIds |-> IF i \in gone THEN None ELSE booked[i]]

\* A client reserves; the reservations in its way yield, and are dropped.
Reserve(i) ==
  LET r    == booked'[i]
      gone == {j \in Booked : booked'[j] = None}
  IN  /\ i \notin Booked
      /\ r \in Reservation
      /\ booked' = [Drop(gone) EXCEPT ![i] = r]
      /\ \A j \in gone : r.priority = "HIGH" /\ Yields(booked[j])
      /\ \A j \in Booked \ gone : ~Clash(booked[j], r)
      /\ UNCHANGED now

Cancel(i) == i \in Booked /\ booked' = Drop({i}) /\ UNCHANGED now

\* Reservations yield to a request that leaves none: its slots are past, or
\* the service stopped before it answered.
GiveWay ==
  /\ \E gone \in SUBSET Booked :
       (\A j \in gone : Yields(booked[j])) /\ booked' = Drop(gone)
  /\ UNCHANGED now

\* Time passes; slots that have ended leave the calendar.
Pass ==
  /\ now' = now + 1
  /\ booked' = [i \in TaskIds |->
       IF i \notin Booked THEN None
       ELSE LET left == [d \in Devices |->
                           {x \in booked[i].slots[d] : x.end > now + 1}]
            IN  IF \A d \in Devices : left[d] = {} THEN None
                ELSE [booked[i] EXCEPT !.slots = left]]

Init == now = 0 /\ booked = [i \in TaskIds |-> None]

Next == (\E i \in TaskIds : Reserve(i) \/ Cancel(i)) \/ GiveWay \/ Pass

Spec == Init /\ [][Next]_<<now, booked>>

\* The calendar holds reservations.
TypeOK == now \in Nat /\ booked \in [TaskIds -> Reservation \cup {None}]

\* No two reservations clash: what the calendar is for.
NoClash == \A i, j \in Booked : i # j => ~Clash(booked[i], booked[j])
=============================================================================
