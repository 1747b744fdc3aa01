--------------------- MODULE DeviceReservations_proofs ---------------------
(***************************************************************************)
(* The calendar of reservations keeps its word, for every set of agents,   *)
(* devices and ids.                                                        *)
(***************************************************************************)
EXTENDS DeviceReservations, TLAPS

\* Conflict is symmetric, although bisect asks it from one side only.
LEMMA ConflictSymmetric ==
  ASSUME NEW x, NEW y, Conflict(x, y)
  PROVE  Conflict(y, x)
BY DEF Conflict

LEMMA ClashSymmetric ==
  ASSUME NEW r, NEW q, Clash(r, q)
  PROVE  Clash(q, r)
BY ConflictSymmetric DEF Clash

\* Dropping reservations, and slots of those that stay, brings no clash.
LEMMA FewerSlots ==
  ASSUME NoClash,
         \A i \in Booked' : /\ i \in Booked
                            /\ \A d \in Devices :
                                 booked'[i].slots[d] \subseteq booked[i].slots[d]
  PROVE  NoClash'
BY DEF NoClash, Clash

LEMMA NextTypeOK == TypeOK /\ [Next]_<<now, booked>> => TypeOK'
<1> SUFFICES ASSUME TypeOK, [Next]_<<now, booked>>
             PROVE  TypeOK'
  OBVIOUS
<1> USE DEF TypeOK
<1>1. ASSUME NEW i \in TaskIds, Reserve(i)
      PROVE  TypeOK'
  BY <1>1 DEF Reserve, Drop
<1>2. ASSUME NEW i \in TaskIds, Cancel(i)
      PROVE  TypeOK'
  BY <1>2 DEF Cancel, Drop
<1>3. CASE GiveWay
  BY <1>3 DEF GiveWay, Drop
<1>4. CASE Pass
  <2> DEFINE left(i) == [d \in Devices |->
                           {x \in booked[i].slots[d] : x.end > now + 1}]
  <2>1. ASSUME NEW i \in Booked
        PROVE  [booked[i] EXCEPT !.slots = left(i)] \in Reservation
    <3>1. booked[i] \in Reservation
      BY <2>1 DEF Booked
    <3>2. left(i) \in [Devices -> SUBSET Slices]
      BY <3>1 DEF Reservation
    <3> HIDE DEF left
    <3> QED
      BY <3>1, <3>2 DEF Reservation
  <2>2. booked' = [i \in TaskIds |->
          IF i \notin Booked THEN None
          ELSE IF \A d \in Devices : left(i)[d] = {} THEN None
          ELSE [booked[i] EXCEPT !.slots = left(i)]]
    BY <1>4 DEF Pass
  <2> HIDE DEF left
  <2>3. booked' \in [TaskIds -> Reservation \cup {None}]
    BY <2>1, <2>2
  <2>4. now' \in Nat
    BY <1>4 DEF Pass
  <2> QED
    BY <2>3, <2>4
<1>5. CASE UNCHANGED <<now, booked>>
  BY <1>5
<1> QED
  BY <1>1, <1>2, <1>3, <1>4, <1>5 DEF Next

LEMMA NextNoClash ==
  TypeOK /\ NoClash /\ [Next]_<<now, booked>> => NoClash'
<1> SUFFICES ASSUME TypeOK, NoClash, [Next]_<<now, booked>>
             PROVE  NoClash'
  OBVIOUS
<1>1. ASSUME NEW i \in TaskIds, Reserve(i)
      PROVE  NoClash'
  <2> DEFINE gone == {j \in Booked : booked'[j] = None}
  <2>1. \A j \in Booked' : j # i => j \in Booked \ gone /\ booked'[j] = booked[j]
    BY <1>1 DEF Reserve, Drop, Booked
  <2>2. \A j \in Booked \ gone : ~Clash(booked[j], booked'[i])
    BY <1>1 DEF Reserve
  <2> HIDE DEF gone
  <2>3. ASSUME NEW j \in Booked', NEW k \in Booked', j # k
        PROVE  ~Clash(booked'[j], booked'[k])
    <3>1. CASE j = i
      BY <2>1, <2>2, <2>3, <3>1, ClashSymmetric
    <3>2. CASE k = i
      BY <2>1, <2>2, <2>3, <3>2
    <3>3. CASE j # i /\ k # i
      BY <2>1, <2>3, <3>3 DEF NoClash
    <3> QED
      BY <3>1, <3>2, <3>3
  <2> QED
    BY <2>3 DEF NoClash, Clash
<1>2. ASSUME NEW i \in TaskIds, Cancel(i)
      PROVE  NoClash'
  BY <1>2, FewerSlots DEF Cancel, Drop, Booked
<1>3. CASE GiveWay
  BY <1>3, FewerSlots DEF GiveWay, Drop, Booked
<1>4. CASE Pass
  <2>1. \A i \in Booked' :
          /\ i \in Booked
          /\ \A d \in Devices : booked'[i].slots[d] \subseteq booked[i].slots[d]
    <3> SUFFICES ASSUME NEW i \in Booked'
                 PROVE  /\ i \in Booked
                        /\ \A d \in Devices :
                             booked'[i].slots[d] \subseteq booked[i].slots[d]
      OBVIOUS
    <3> DEFINE left == [d \in Devices |->
                          {x \in booked[i].slots[d] : x.end > now + 1}]
    <3>1. i \in Booked /\ booked'[i] = [booked[i] EXCEPT !.slots = left]
      BY <1>4 DEF Pass, Booked
    <3>2. booked[i] \in Reservation
      BY <3>1 DEF TypeOK, Booked
    <3> HIDE DEF left
    <3>3. [booked[i] EXCEPT !.slots = left].slots = left
      BY <3>2 DEF Reservation
    <3>4. \A d \in Devices : left[d] \subseteq booked[i].slots[d]
      BY DEF left
    <3> QED
      BY <3>1, <3>3, <3>4
  <2> QED
    BY <2>1, FewerSlots
<1>5. CASE UNCHANGED <<now, booked>>
  BY <1>5 DEF NoClash, Booked, Clash
<1> QED
  BY <1>1, <1>2, <1>3, <1>4, <1>5 DEF Next

\* No two reservations of the calendar ever clash: what a client of any agent
\* that implements it may rely on.
THEOREM ReservationsNeverClash == Spec => []NoClash
<1>1. Init => TypeOK /\ NoClash
  BY DEF Init, TypeOK, NoClash, Booked
<1> QED
  BY <1>1, NextTypeOK, NextNoClash, PTL DEF Spec

=============================================================================
