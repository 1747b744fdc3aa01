------------------------ MODULE ActuatorAgent_proofs ------------------------
(***************************************************************************)
(* Theorems about the actuator agent, for every value of its constants.    *)
(***************************************************************************)
EXTENDS ActuatorAgent, FiniteSetTheorems, TLAPS

-----------------------------------------------------------------------------
(* Time slices and schedules. *)

\* Rounding up to a whole second (Schedule.get_next_event_time) gives a time
\* that is not earlier.
LEMMA RoundUpBound ==
  ASSUME NEW t \in Nat
  PROVE  RoundUp(t) \in Nat /\ RoundUp(t) >= t
<1> DEFINE k == TicksPerSecond
           q == (t + k - 1) \div k
           r == (t + k - 1) % k
<1>1. k \in Nat /\ k > 0
  BY TicksPerSecondAssumption
<1>2. q \in Int /\ r \in 0 .. k - 1 /\ t + k - 1 = k * q + r
  BY <1>1
<1>3. k * q >= t /\ k * q \in Int
  BY <1>1, <1>2
<1>4. q * k = k * q
  BY <1>1, <1>2
<1> QED
  BY <1>3, <1>4 DEF RoundUp

\* Conflict is symmetric, although bisect asks it from one side only.
LEMMA ConflictSymmetric ==
  ASSUME NEW x, NEW y, Conflict(x, y)
  PROVE  Conflict(y, x)
BY DEF Conflict

\* make_current only removes slots, and those it leaves have not ended.
LEMMA MakeCurrentKeeps ==
  ASSUME NEW slots \in SUBSET Slices, NEW now \in Nat
  PROVE  /\ MakeCurrent(slots, now) \subseteq slots
         /\ \A x \in MakeCurrent(slots, now) : x.end > now \/ x.start >= now
BY DEF MakeCurrent, Before, TimeSlice, Slices

\* make_current keeps every slot that has not ended.
LEMMA MakeCurrentLeaves ==
  ASSUME NEW slots \in SUBSET Slices, NEW now \in Nat,
         NEW x \in slots, x.end > now
  PROVE  x \in MakeCurrent(slots, now)
BY DEF MakeCurrent, Before, TimeSlice, Slices

\* get_current_slot returns a slot of the schedule that now lies in.
LEMMA CurrentSlotHolds ==
  ASSUME NEW slots \in SUBSET Slices, NEW now \in Nat,
         NEW x \in CurrentSlot(slots, now)
  PROVE  x \in slots /\ x.start <= now /\ (now < x.end \/ now = x.start)
<1>1. x \in MakeCurrent(slots, now) /\ ContainsIncludeStart(x, now)
  BY DEF CurrentSlot, FirstSlot
<1>2. x \in slots /\ x \in Slices
  BY <1>1 DEF MakeCurrent
<1> QED
  BY <1>1, <1>2 DEF ContainsIncludeStart, Slices

\* Two slots of positive length that hold the same instant conflict.
LEMMA SameInstantConflicts ==
  ASSUME NEW x \in Slices, NEW y \in Slices, NEW now \in Nat,
         x.start <= now, now < x.end, y.start <= now, now < y.end
  PROVE  Conflict(x, y)
BY DEF Conflict, Before, Slices

\* y is what is left of x: the same slot, or the same start and an earlier
\* end that still leaves it some length.
LeftOf(y, x) == y = x \/ (y.start = x.start /\ y.start < y.end /\ y.end <= x.end)

\* What is left of a slot conflicts with nothing the slot did not.
LEMMA LeftOfConflict ==
  ASSUME NEW x \in Slices, NEW y \in Slices, NEW z \in Slices,
         LeftOf(y, x), Conflict(y, z)
  PROVE  Conflict(x, z)
BY DEF LeftOf, Conflict, Before, Slices

\* prune_to_current leaves of the schedule at most what is left of one slot,
\* which ends within the grace period.  (With no grace period a slot is cut to
\* no length, and may conflict where it did not before.)
LEMMA PruneToCurrentLeaves ==
  ASSUME NEW slots \in SUBSET Slices, NEW grace \in Nat, NEW now \in Nat,
         NEW y \in PruneToCurrent(slots, grace, now)
  PROVE  /\ y \in Slices
         /\ y.end <= now + grace
         /\ grace > 0 => \E x \in slots : LeftOf(y, x)
<1>1. PICK x \in CurrentSlot(slots, now) :
        y = TimeSlice(x.start, IF x.end > now + grace THEN now + grace ELSE x.end)
  BY DEF PruneToCurrent
<1>2. x \in slots /\ x.start <= now /\ x \in Slices
  BY <1>1, CurrentSlotHolds
<1> QED
  BY <1>1, <1>2 DEF TimeSlice, Slices, LeftOf

\* The next event of a schedule is not in the past.
LEMMA NextEventTimeBound ==
  ASSUME NEW slots \in SUBSET Slices, NEW now \in Nat,
         NEW t \in NextEventTime(slots, now)
  PROVE  t \in Nat /\ t >= now
<1>1. PICK x \in FirstSlot(slots, now) :
        t = RoundUp(IF ContainsIncludeStart(x, now) THEN x.end ELSE x.start)
  BY DEF NextEventTime
<1>2. x \in MakeCurrent(slots, now)
  BY <1>1 DEF FirstSlot
<1>3. x \in Slices /\ (x.end > now \/ x.start >= now)
  BY <1>2, MakeCurrentKeeps
<1> DEFINE next == IF ContainsIncludeStart(x, now) THEN x.end ELSE x.start
<1>4. next \in Nat /\ next >= now
  BY <1>3 DEF ContainsIncludeStart, Slices
<1>5. RoundUp(next) \in Nat /\ RoundUp(next) >= next
  BY <1>4, RoundUpBound
<1> QED
  BY <1>1, <1>4, <1>5

\* Every set of times has an earliest one.
LEMMA LeastNat ==
  ASSUME NEW T \in SUBSET Nat, T # {}
  PROVE  \E m \in T : \A n \in T : m <= n
<1> DEFINE below == { 0 .. n - 1 : n \in T }
           R == StrictSubsetOrdering(Nat)
           F == FiniteSubsetsOf(Nat)
<1>1. IsWellFoundedOn(R, F)
  BY FS_StrictSubsetOrderingWellFounded
<1>2. below \subseteq F /\ below # {}
  <2>1. \A n \in T : IsFiniteSet(0 .. n - 1) /\ 0 .. n - 1 \subseteq Nat
    BY FS_Interval
  <2> QED
    BY <2>1 DEF FiniteSubsetsOf
<1> HIDE DEF below, R, F
<1>3. PICK X \in below : \A Y \in below : ~ (<<Y, X>> \in R)
  BY <1>1, <1>2, WFMin
<1>4. PICK m \in T : X = 0 .. m - 1
  BY DEF below
<1>5. ASSUME NEW n \in T, n < m
      PROVE  FALSE
  <2>1. 0 .. n - 1 \in below
    BY DEF below
  <2>2. 0 .. n - 1 \subseteq 0 .. m - 1 /\ n \in 0 .. m - 1 /\ n \notin 0 .. n - 1
    BY <1>5
  <2>3. <<0 .. n - 1, X>> \in R
    BY <1>2, <1>4, <2>1, <2>2 DEF R, F, StrictSubsetOrdering, FiniteSubsetsOf
  <2> QED
    BY <1>3, <2>1, <2>3
<1> QED
  BY <1>5

\* Of two times, the later one is not rounded up to an earlier second.
LEMMA RoundUpMonotone ==
  ASSUME NEW t \in Nat, NEW u \in Nat, t <= u
  PROVE  RoundUp(t) <= RoundUp(u)
<1> DEFINE k == TicksPerSecond
           q == (t + k - 1) \div k
           r == (u + k - 1) \div k
<1>1. k \in Nat /\ k > 0
  BY TicksPerSecondAssumption
<1>2. /\ q \in Int /\ r \in Int
      /\ k * q <= t + k - 1
      /\ u + k - 1 < k * r + k
  BY <1>1
<1>3. /\ k * q \in Int /\ k * r \in Int
      /\ k * (r + 1) = k * r + k
      /\ q * k = k * q /\ r * k = k * r
  BY <1>1, <1>2
<1>4. k * q < k * (r + 1)
  BY <1>1, <1>2, <1>3
<1> HIDE DEF q, r
<1>5. q <= r
  BY <1>1, <1>2, <1>4
<1>6. k * q <= k * r
  BY <1>1, <1>2, <1>5
<1> QED
  BY <1>3, <1>6 DEF RoundUp, q, r

\* Slots of one task on one device: none conflicts with another.
Apart(slots) == \A x, y \in slots : x # y => ~Conflict(x, y)

\* The schedule of a task on a device has a first slot as long as one of its
\* slots has not ended, and no slot starts before the first one ends.
LEMMA FirstSlotExists ==
  ASSUME NEW slots \in SUBSET Slices, NEW now \in Nat, Apart(slots),
         \A y \in slots : y.start < y.end,
         NEW x \in slots, x.end > now
  PROVE  \E y \in FirstSlot(slots, now) : y = x \/ y.end <= x.start
<1> DEFINE current == MakeCurrent(slots, now)
           starts  == {y.start : y \in current}
<1>1. x \in current /\ current \subseteq slots
  BY MakeCurrentLeaves, MakeCurrentKeeps
<1> HIDE DEF current
<1>2. starts \in SUBSET Nat /\ starts # {}
  BY <1>1 DEF Slices
<1>3. PICK m \in starts : \A n \in starts : m <= n
  BY <1>2, LeastNat
<1>4. PICK y \in current : y.start = m
  OBVIOUS
<1>5. ASSUME NEW z \in current, z # y
      PROVE  y.start < z.start /\ y.end <= z.start
  <2>1. /\ y \in Slices /\ z \in Slices
        /\ y.start < y.end /\ z.start < z.end
        /\ ~Conflict(y, z)
    BY <1>1, <1>4, <1>5 DEF Apart
  <2>2. y.start <= z.start
    BY <1>3, <1>4
  <2> QED
    BY <2>1, <2>2 DEF Conflict, Before, Slices
<1>6. y \in FirstSlot(slots, now)
  <2>1. \A z \in current : Precedes(y, z)
    BY <1>1, <1>4, <1>5 DEF Precedes, Slices
  <2> QED
    BY <1>4, <2>1 DEF FirstSlot, current
<1> QED
  BY <1>1, <1>5, <1>6

\* A schedule has one first slot.
LEMMA FirstSlotUnique ==
  ASSUME NEW slots \in SUBSET Slices, NEW now,
         NEW x \in FirstSlot(slots, now), NEW y \in FirstSlot(slots, now)
  PROVE  x = y
<1>1. x \in Slices /\ y \in Slices /\ Precedes(x, y) /\ Precedes(y, x)
  BY DEF FirstSlot, MakeCurrent
<1>2. x.start = y.start /\ x.end = y.end
  BY <1>1 DEF Precedes, Slices
<1> QED
  BY <1>1, <1>2 DEF Slices

\* The current slot of a schedule is the one slot that is on.
LEMMA SlotIsCurrent ==
  ASSUME NEW slots \in SUBSET Slices, NEW now \in Nat, Apart(slots),
         \A y \in slots : y.start < y.end,
         NEW x \in slots, x.start <= now, now < x.end
  PROVE  CurrentSlot(slots, now) = {x}
<1>1. x \in Slices
  OBVIOUS
<1>2. PICK y \in FirstSlot(slots, now) : y = x \/ y.end <= x.start
  BY <1>1, FirstSlotExists DEF Slices
<1>3. /\ y \in Slices /\ y.start < y.end
      /\ y.end > now \/ y.start >= now
  BY <1>2, MakeCurrentKeeps DEF FirstSlot
<1>4. y = x
  BY <1>1, <1>2, <1>3 DEF Slices
<1>5. x \in CurrentSlot(slots, now)
  BY <1>1, <1>4 DEF CurrentSlot, ContainsIncludeStart, Slices
<1> QED
  BY <1>5, FirstSlotUnique DEF CurrentSlot

-----------------------------------------------------------------------------
(* What the operators of Task do to a task. *)

LEMMA TaskMakeCurrentFacts ==
  ASSUME NEW task \in Task, NEW now \in Nat
  PROVE  LET c == TaskMakeCurrent(task, now)
         IN  /\ c \in Task
             /\ c.agent = task.agent /\ c.priority = task.priority
             /\ c.span = task.span
             /\ \A d \in Devices : c.slots[d] \subseteq task.slots[d]
             /\ task.state = "FINISHED" => c.state = "FINISHED"
             /\ c.state = "PREEMPTED" => task.state = "PREEMPTED"
             /\ task.state = "PREEMPTED" /\ task.span.start <= now =>
                  c.state \in {"PREEMPTED", "FINISHED"}
<1> DEFINE current == [d \in Devices |-> MakeCurrent(task.slots[d], now)]
           empty == [d \in Devices |-> {}]
<1>1. /\ task.slots \in [Devices -> SUBSET Slices]
      /\ task.state \in TaskStates
      /\ task.span.start \in Nat
  BY DEF Task, Slices
<1>2. /\ current \in [Devices -> SUBSET Slices]
      /\ \A d \in Devices : current[d] \subseteq task.slots[d]
  BY <1>1, MakeCurrentKeeps
<1>3. empty \in [Devices -> SUBSET Slices]
  OBVIOUS
<1>4. CASE task.state = "FINISHED"
  <2>1. TaskMakeCurrent(task, now) = [task EXCEPT !.slots = empty]
    BY <1>4 DEF TaskMakeCurrent
  <2> HIDE DEF empty
  <2>2. /\ [task EXCEPT !.slots = empty] \in Task
        /\ [task EXCEPT !.slots = empty].slots = empty
    BY <1>3 DEF Task
  <2>3. \A d \in Devices : empty[d] \subseteq task.slots[d]
    BY DEF empty
  <2> QED
    BY <1>4, <2>1, <2>2, <2>3 DEF Task
<1>5. CASE task.state # "FINISHED"
  <2> DEFINE state == IF ContainsIncludeStart(task.span, now)
                      THEN IF task.state = "PREEMPTED" THEN task.state ELSE "RUNNING"
                      ELSE IF task.span.start >= now THEN "PRE_RUN"
                      ELSE "FINISHED"
  <2>1. TaskMakeCurrent(task, now)
          = [task EXCEPT !.slots = current, !.state = state]
    BY <1>5 DEF TaskMakeCurrent, Task
  <2>2. state \in TaskStates
    BY <1>1 DEF TaskStates
  <2>3. state = "PREEMPTED" => task.state = "PREEMPTED"
    OBVIOUS
  <2>4. task.state = "PREEMPTED" /\ task.span.start <= now =>
          state \in {"PREEMPTED", "FINISHED"}
    BY <1>1 DEF ContainsIncludeStart
  <2> HIDE DEF state, current
  <2>5. LET c == [task EXCEPT !.slots = current, !.state = state]
        IN  /\ c \in Task /\ c.slots = current /\ c.state = state
            /\ c.agent = task.agent /\ c.priority = task.priority
            /\ c.span = task.span
    BY <1>2, <2>2 DEF Task
  <2> QED
    BY <1>2, <1>5, <2>1, <2>3, <2>4, <2>5
<1> QED
  BY <1>4, <1>5

\* Preempting a task leaves of each slot at most its rest within the grace
\* period; the task is preempted from now, or has nothing left.
LEMMA PreemptFacts ==
  ASSUME NEW task \in Task, NEW now \in Nat
  PROVE  LET c == Preempt(task, now)
         IN  /\ c \in Task
             /\ c.agent = task.agent /\ c.priority = task.priority
             /\ Grace > 0 => \A d \in Devices : \A y \in c.slots[d] :
                               \E x \in task.slots[d] : LeftOf(y, x)
             /\ c.state \in {"PREEMPTED", "FINISHED"}
             /\ c.state = "PREEMPTED" =>
                  \/ task.state = "PREEMPTED" /\ c.span = task.span
                  \/ c.span.start = now
<1> DEFINE current == TaskMakeCurrent(task, now)
           pruned  == [d \in Devices |-> PruneToCurrent(current.slots[d], Grace, now)]
<1>1. /\ current \in Task
      /\ current.agent = task.agent /\ current.priority = task.priority
      /\ current.span = task.span
      /\ \A d \in Devices : current.slots[d] \subseteq task.slots[d]
      /\ current.state = "PREEMPTED" => task.state = "PREEMPTED"
  BY TaskMakeCurrentFacts
<1>2. current.slots \in [Devices -> SUBSET Slices]
  BY <1>1 DEF Task
<1>3. Grace \in Nat
  BY ConstantsAssumption
<1> HIDE DEF current
<1>4. \A d \in Devices : \A y \in PruneToCurrent(current.slots[d], Grace, now) :
        /\ y \in Slices
        /\ Grace > 0 => \E x \in current.slots[d] : LeftOf(y, x)
  <2> SUFFICES ASSUME NEW d \in Devices,
                      NEW y \in PruneToCurrent(current.slots[d], Grace, now)
               PROVE  /\ y \in Slices
                      /\ Grace > 0 => \E x \in current.slots[d] : LeftOf(y, x)
    OBVIOUS
  <2>1. current.slots[d] \in SUBSET Slices
    BY <1>2
  <2> QED
    BY <1>3, <2>1, PruneToCurrentLeaves
<1>5. /\ pruned \in [Devices -> SUBSET Slices]
      /\ Grace > 0 => \A d \in Devices : \A y \in pruned[d] :
                        \E x \in task.slots[d] : LeftOf(y, x)
  BY <1>1, <1>4
<1> HIDE DEF pruned
<1>6. CASE current.state \in {"PREEMPTED", "FINISHED"}
  <2>1. Preempt(task, now) = current
    BY <1>6 DEF Preempt, current
  <2> QED
    BY <1>1, <1>6, <2>1 DEF LeftOf
<1>7. CASE current.state \notin {"PREEMPTED", "FINISHED"}
  <2> DEFINE done  == [current EXCEPT !.slots = pruned, !.state = "FINISHED"]
             grace == [current EXCEPT !.slots = pruned, !.state = "PREEMPTED",
                                      !.span = TimeSlice(now, now + Grace)]
  <2>1. Preempt(task, now) \in {done, grace}
    BY <1>7 DEF Preempt, current, pruned
  <2>2. TimeSlice(now, now + Grace) \in Slices /\ TimeSlice(now, now + Grace).start = now
    BY <1>3 DEF TimeSlice, Slices
  <2>3. /\ done \in Task /\ done.slots = pruned /\ done.state = "FINISHED"
        /\ done.agent = task.agent /\ done.priority = task.priority
    BY <1>1, <1>5 DEF Task, TaskStates
  <2>4. /\ grace \in Task /\ grace.slots = pruned /\ grace.state = "PREEMPTED"
        /\ grace.agent = task.agent /\ grace.priority = task.priority
        /\ grace.span = TimeSlice(now, now + Grace)
    BY <1>1, <1>5, <2>2 DEF Task, TaskStates
  <2> HIDE DEF done, grace
  <2> QED
    BY <1>5, <2>1, <2>2, <2>3, <2>4
<1> QED
  BY <1>6, <1>7

-----------------------------------------------------------------------------
(* Tables of tasks. *)

LEMMA CleanupFacts ==
  ASSUME NEW ts \in TaskTable, NEW now \in Nat
  PROVE  LET c == Cleanup(ts, now)
         IN  /\ c \in TaskTable
             /\ \A i \in Live(c) :
                  /\ i \in Live(ts)
                  /\ c[i] = TaskMakeCurrent(ts[i], now)
                  /\ c[i].state # "FINISHED"
<1>1. \A i \in TaskIds : ts[i] # NoTask =>
        ts[i] \in Task /\ TaskMakeCurrent(ts[i], now) \in Task
  BY TaskMakeCurrentFacts DEF TaskTable
<1> QED
  BY <1>1 DEF Cleanup, TaskTable, Live

\* A clean-up finishes tasks and drops slots; it never ends a preemption
\* that has begun, and never turns a conflict-free table into another.
LEMMA CleanupKeeps ==
  ASSUME NEW ts \in TaskTable, NEW now \in Nat,
         ConflictFree(ts), PreemptedBegan(ts, now)
  PROVE  /\ ConflictFree(Cleanup(ts, now))
         /\ \A t \in Nat : PreemptedBegan(ts, t) => PreemptedBegan(Cleanup(ts, now), t)
<1> DEFINE c == Cleanup(ts, now)
<1>1. \A i \in Live(c) :
        /\ i \in Live(ts) /\ c[i].priority = ts[i].priority
        /\ c[i].span = ts[i].span
        /\ \A d \in Devices : c[i].slots[d] \subseteq ts[i].slots[d]
        /\ c[i].state = "PREEMPTED" <=> ts[i].state = "PREEMPTED"
  <2> SUFFICES ASSUME NEW i \in Live(c)
               PROVE  /\ i \in Live(ts) /\ c[i].priority = ts[i].priority
                      /\ c[i].span = ts[i].span
                      /\ \A d \in Devices : c[i].slots[d] \subseteq ts[i].slots[d]
                      /\ c[i].state = "PREEMPTED" <=> ts[i].state = "PREEMPTED"
    OBVIOUS
  <2>1. /\ i \in Live(ts) /\ c[i] = TaskMakeCurrent(ts[i], now)
        /\ c[i].state # "FINISHED"
    BY CleanupFacts
  <2>2. ts[i] \in Task
    BY <2>1 DEF Live, TaskTable
  <2>3. ts[i].state = "PREEMPTED" => ts[i].span.start <= now
    BY <2>1 DEF PreemptedBegan
  <2> HIDE DEF c
  <2> QED
    BY <2>1, <2>2, <2>3, TaskMakeCurrentFacts
<1> HIDE DEF c
<1>2. \A i, j \in Live(c) : Contested(c, i, j) => Contested(ts, i, j)
  BY <1>1 DEF Contested
<1> QED
  BY <1>1, <1>2 DEF c, ConflictFree, PreemptedBegan

\* The update event is never armed for a time before the one it was computed at.
LEMMA NextUpdateBound ==
  ASSUME NEW ts \in TaskTable, NEW now \in Nat, NEW t \in NextUpdate(ts, now)
  PROVE  t \in Nat /\ t >= now
<1> DEFINE latest == RoundUp(now + PublishInterval)
           events == UNION {NextEventTime(ts[i].slots[d], now) :
                              i \in Live(ts), d \in Devices}
<1>1. t = latest \/ t \in events
  BY DEF NextUpdate
<1>2. latest \in Nat /\ latest >= now
  <2>1. PublishInterval \in Nat /\ now + PublishInterval \in Nat
    BY ConstantsAssumption
  <2> QED
    BY <2>1, RoundUpBound
<1>3. ASSUME t \in events
      PROVE  t \in Nat /\ t >= now
  <2>1. PICK i \in Live(ts), d \in Devices : t \in NextEventTime(ts[i].slots[d], now)
    BY <1>3
  <2>2. ts[i].slots[d] \in SUBSET Slices
    BY DEF Live, TaskTable, Task
  <2> QED
    BY <2>1, <2>2, NextEventTimeBound
<1> QED
  BY <1>1, <1>2, <1>3

LEMMA ScheduleStateType ==
  ASSUME NEW ts \in TaskTable, NEW now \in Nat
  PROVE  ScheduleState(ts, now) \in [Devices -> Lock \cup {NoLock}]
<1> SUFFICES ASSUME NEW d \in Devices
             PROVE  ScheduleState(ts, now)[d] \in Lock \cup {NoLock}
  BY DEF ScheduleState
<1> DEFINE preempted == CurrentOn(ts, d, "PREEMPTED", now)
           holders == IF preempted # {} THEN preempted
                      ELSE CurrentOn(ts, d, "RUNNING", now)
           i == CHOOSE j \in holders : TRUE
           x == CHOOSE y \in CurrentSlot(ts[i].slots[d], now) : TRUE
<1>1. ScheduleState(ts, now)[d] = IF holders = {} THEN NoLock
        ELSE [agent |-> ts[i].agent, task |-> i, until |-> x.end]
  BY DEF ScheduleState
<1>2. ASSUME holders # {}
      PROVE  [agent |-> ts[i].agent, task |-> i, until |-> x.end] \in Lock
  <2>1. i \in holders
    BY <1>2
  <2>2. i \in Live(ts) /\ CurrentSlot(ts[i].slots[d], now) # {}
    BY <2>1 DEF CurrentOn
  <2>3. ts[i] \in Task /\ i \in TaskIds /\ ts[i].slots[d] \in SUBSET Slices
    BY <2>2 DEF Live, TaskTable, Task
  <2>4. x \in CurrentSlot(ts[i].slots[d], now)
    BY <2>2
  <2>5. x \in Slices
    BY <2>3, <2>4, CurrentSlotHolds
  <2> HIDE DEF i, x
  <2> QED
    BY <2>3, <2>5 DEF Lock, Task, Slices
<1> QED
  BY <1>1, <1>2

LEMMA SlotsOfType ==
  ASSUME NEW request \in Requests, ~MalformedRequest(request)
  PROVE  SlotsOf(request) \in [Devices -> SUBSET Slices]
<1>1. request \in SUBSET RequestSlots
  BY ConstantsAssumption
<1>2. \A r \in request : TimeSlice(r.start, r.end) \in Slices
  BY <1>1 DEF MalformedRequest, RequestSlots, TimeSlice, Slices
<1> QED
  BY <1>2 DEF SlotsOf

LEMMA NewTaskType ==
  ASSUME NEW header \in Headers, NEW request \in Requests,
         ~MalformedRequest(request), NEW span \in SpanOf(request)
  PROVE  NewTask(header, request, span) \in Task
<1>1. span \in Slices
  BY DEF SpanOf
<1> QED
  BY <1>1, SlotsOfType DEF NewTask, Task, Headers, TaskStates

\* The table before the final clean-up of an accepted request.
Granted(ts, id, task, victims, now) ==
  [i \in TaskIds |-> IF i = id THEN task
                     ELSE IF i \in victims THEN Preempt(ts[i], now)
                     ELSE ts[i]]

LEMMA WithNewTaskType ==
  ASSUME NEW ts \in TaskTable, NEW id, NEW task \in Task,
         NEW victims \in SUBSET Live(ts), NEW now \in Nat
  PROVE  /\ Granted(ts, id, task, victims, now) \in TaskTable
         /\ WithNewTask(ts, id, task, victims, now) \in TaskTable
<1>1. \A i \in Live(ts) : ts[i] \in Task /\ Preempt(ts[i], now) \in Task
  BY PreemptFacts DEF Live, TaskTable
<1>2. Granted(ts, id, task, victims, now) \in TaskTable
  BY <1>1 DEF Granted, TaskTable
<1> QED
  BY <1>2, CleanupFacts DEF WithNewTask, Granted

-----------------------------------------------------------------------------
(* Types. *)

PromiseTable == [TaskIds -> PromiseRecord \cup {NoPromise}]

LEMMA UnendedType ==
  ASSUME NEW slots \in [Devices -> SUBSET Slices], NEW now
  PROVE  Unended(slots, now) \in [Devices -> SUBSET Slices]
BY DEF Unended

LEMMA PromiseTypes ==
  ASSUME promises \in PromiseTable
  PROVE  /\ \A told, untold : Withdraw(told, untold) \in PromiseTable
         /\ \A now : Lapse(now) \in PromiseTable
         /\ \A now : \A task \in Task : Promise(task, now) \in PromiseRecord \cup {NoPromise}
<1>1. ASSUME NEW told, NEW untold
      PROVE  Withdraw(told, untold) \in PromiseTable
  <2>1. \A p \in PromiseRecord : [p EXCEPT !.void = TRUE] \in PromiseRecord
    BY DEF PromiseRecord
  <2> QED
    BY <2>1 DEF Withdraw, PromiseTable
<1>2. ASSUME NEW now
      PROVE  Lapse(now) \in PromiseTable
  <2>1. \A p \in PromiseRecord :
          [p EXCEPT !.slots = Unended(p.slots, now)] \in PromiseRecord
    BY UnendedType DEF PromiseRecord
  <2> QED
    BY <2>1 DEF Lapse, PromiseTable
<1>3. ASSUME NEW task \in Task, NEW now
      PROVE  Promise(task, now) \in PromiseRecord \cup {NoPromise}
  <2>1. /\ Unended(task.slots, now) \in [Devices -> SUBSET Slices]
        /\ task.agent \in Agents /\ task.priority \in Priorities
        /\ task.span.start \in Nat
    BY UnendedType DEF Task, Slices
  <2> QED
    BY <2>1 DEF Promise, PromiseRecord
<1> QED
  BY <1>1, <1>2, <1>3

LEMMA StateFileTypes ==
  ASSUME TypeOK
  PROVE  /\ \A ts \in TaskTable : \A f \in SaveState(ts) :
              f \in [status : {"none", "torn", "saved"}, tasks : TaskTable]
         /\ \A now \in Nat : LoadState(now) \in TaskTable
<1>1. NoTasks \in TaskTable
  BY DEF NoTasks, TaskTable
<1>2. disk \in [status : {"none", "torn", "saved"}, tasks : TaskTable]
  BY DEF TypeOK
<1>3. \A ts \in TaskTable : \A f \in SaveState(ts) :
        f \in [status : {"none", "torn", "saved"}, tasks : TaskTable]
  BY <1>1, <1>2 DEF SaveState, Saved, TornFile
<1>4. \A now \in Nat : LoadState(now) \in TaskTable
  BY <1>1, <1>2, CleanupFacts DEF LoadState
<1> QED
  BY <1>3, <1>4

\* What update_device_state_and_schedule leaves, if it returns or if it does not.
LEMMA UpdateTypes ==
  ASSUME TypeOK, NEW ts \in TaskTable, NEW now \in Nat,
         UpdateDeviceStateAndSchedule(ts, now) \/ (Stopped /\ UNCHANGED asserted)
  PROVE  /\ up' \in BOOLEAN /\ asserted' \in BOOLEAN
         /\ tasks' \in TaskTable
         /\ lock' \in [Devices -> Lock \cup {NoLock}]
         /\ timer' \in Nat
<1>1. CASE Stopped /\ (asserted' = TRUE \/ UNCHANGED asserted)
  BY <1>1 DEF Stopped, NoTasks, TaskTable, TypeOK
<1>2. CASE ~AssertionFails(ts, now) /\ UpdateDeviceStateAndSchedule(ts, now)
  <2>1. /\ up' = TRUE /\ tasks' = ts /\ lock' = ScheduleState(ts, now)
        /\ timer' \in NextUpdate(ts, now) /\ UNCHANGED asserted
    BY <1>2 DEF UpdateDeviceStateAndSchedule
  <2> QED
    BY <2>1, NextUpdateBound, ScheduleStateType DEF TypeOK
<1> QED
  BY <1>1, <1>2 DEF UpdateDeviceStateAndSchedule

\* The tables an accepted request goes through.
LEMMA AcceptedTypes ==
  ASSUME TypeOK, NEW header \in Headers, NEW request \in Requests,
         Acceptable(Cleanup(tasks, clock), header, request),
         NEW span \in SpanOf(request)
  PROVE  LET ts  == Cleanup(tasks, clock)
             new == NewTask(header, request, span)
         IN  /\ ts \in TaskTable /\ new \in Task
             /\ header.id \in TaskIds /\ header.priority = new.priority
             /\ Conflicting(ts, request) \in SUBSET Live(ts)
             /\ Granted(ts, header.id, new, Conflicting(ts, request), clock)
                  \in TaskTable
             /\ WithNewTask(ts, header.id, new, Conflicting(ts, request), clock)
                  \in TaskTable
<1> DEFINE ts  == Cleanup(tasks, clock)
           new == NewTask(header, request, span)
<1>1. clock \in Nat /\ tasks \in TaskTable
  BY DEF TypeOK
<1>2. ts \in TaskTable
  BY <1>1, CleanupFacts
<1>3. new \in Task /\ header.id \in TaskIds /\ header.priority = new.priority
  BY NewTaskType DEF Acceptable, Headers, NewTask
<1>4. Conflicting(ts, request) \in SUBSET Live(ts)
  BY DEF Conflicting
<1> HIDE DEF ts, new
<1>5. /\ Granted(ts, header.id, new, Conflicting(ts, request), clock) \in TaskTable
      /\ WithNewTask(ts, header.id, new, Conflicting(ts, request), clock) \in TaskTable
  BY <1>1, <1>2, <1>3, <1>4, WithNewTaskType
<1> QED
  BY <1>2, <1>3, <1>4, <1>5 DEF ts, new

LEMMA InitTypeOK == Init => TypeOK
<1>1. RoundUp(PublishInterval) \in Nat
  BY ConstantsAssumption, RoundUpBound
<1>2. NoTasks \in TaskTable
  BY DEF NoTasks, TaskTable
<1>3. NoFile \in [status : {"none", "torn", "saved"}, tasks : TaskTable]
  BY <1>2 DEF NoFile
<1>4. /\ [d \in Devices |-> NoLock] \in [Devices -> Lock \cup {NoLock}]
      /\ [i \in TaskIds |-> NoPromise] \in [TaskIds -> PromiseRecord \cup {NoPromise}]
  OBVIOUS
<1>5. ASSUME Init
      PROVE  clock \in Nat /\ up \in BOOLEAN /\ asserted \in BOOLEAN
  BY <1>5 DEF Init
<1> QED
  BY <1>1, <1>2, <1>3, <1>4, <1>5 DEF Init, TypeOK

LEMMA NextTypeOK == TypeOK /\ [Next]_vars => TypeOK'
<1> SUFFICES ASSUME TypeOK, [Next]_vars
             PROVE  TypeOK'
  OBVIOUS
<1>0. /\ clock \in Nat /\ timer \in Nat /\ tasks \in TaskTable
      /\ promises \in PromiseTable
  BY DEF TypeOK, PromiseTable
<1>1. CASE RejectRequest
  <2>1. tasks' \in TaskTable
    BY <1>0, <1>1, CleanupFacts DEF RejectRequest
  <2> QED
    BY <1>1, <2>1 DEF RejectRequest, TypeOK
<1>2. ASSUME NEW header \in Headers, NEW request \in Requests,
             AcceptRequest(header, request) \/ CrashInRequest(header, request)
      PROVE  TypeOK'
  <2> DEFINE ts      == Cleanup(tasks, clock)
             victims == Conflicting(ts, request)
             new(span)   == NewTask(header, request, span)
             after(span) == WithNewTask(ts, header.id, new(span), victims, clock)
  <2>1. Acceptable(ts, header, request)
    BY <1>2 DEF AcceptRequest, CrashInRequest
  <2>2. PICK span \in SpanOf(request) :
          /\ disk' \in SaveState(after(span))
          /\ \/ UpdateDeviceStateAndSchedule(after(span), clock)
             \/ Stopped /\ UNCHANGED asserted
          /\ \E told : \/ promises' = Withdraw({}, victims)
                       \/ promises' = [Withdraw(told, victims) EXCEPT
                                         ![header.id] = Promise(new(span), clock)]
    BY <1>2 DEF AcceptRequest, CrashInRequest
  <2>3. after(span) \in TaskTable /\ new(span) \in Task /\ header.id \in TaskIds
    BY <2>1, AcceptedTypes
  <2> HIDE DEF ts, victims, new, after
  <2>4. disk' \in [status : {"none", "torn", "saved"}, tasks : TaskTable]
    BY <2>2, <2>3, StateFileTypes
  <2>5. /\ up' \in BOOLEAN /\ asserted' \in BOOLEAN /\ tasks' \in TaskTable
        /\ lock' \in [Devices -> Lock \cup {NoLock}] /\ timer' \in Nat
    BY <1>0, <2>2, <2>3, UpdateTypes
  <2>6. promises' \in PromiseTable
    <3>1. \A told : [Withdraw(told, victims) EXCEPT
                      ![header.id] = Promise(new(span), clock)] \in PromiseTable
      BY <1>0, <2>3, PromiseTypes DEF PromiseTable
    <3> QED
      BY <1>0, <2>2, <3>1, PromiseTypes
  <2>7. clock' = clock
    BY <1>2 DEF AcceptRequest, CrashInRequest
  <2> QED
    BY <1>0, <2>4, <2>5, <2>6, <2>7 DEF TypeOK, PromiseTable
<1>3. ASSUME NEW agent \in Agents, NEW id \in TaskIds,
             CancelTask(agent, id) \/ CrashInCancel(agent, id)
      PROVE  TypeOK'
  <2> DEFINE left  == [tasks EXCEPT ![id] = NoTask]
             after == Cleanup(left, clock)
  <2>1. left \in TaskTable
    BY <1>0 DEF TaskTable
  <2> HIDE DEF left
  <2>2. after \in TaskTable
    BY <1>0, <2>1, CleanupFacts
  <2>3. /\ disk' \in SaveState(after)
        /\ \/ UpdateDeviceStateAndSchedule(after, clock)
           \/ Stopped /\ UNCHANGED asserted
        /\ \E told, untold : promises' = Withdraw(told, untold)
        /\ clock' = clock
    BY <1>3 DEF CancelTask, CrashInCancel, left
  <2> HIDE DEF after
  <2>4. disk' \in [status : {"none", "torn", "saved"}, tasks : TaskTable]
    BY <2>2, <2>3, StateFileTypes
  <2>5. /\ up' \in BOOLEAN /\ asserted' \in BOOLEAN /\ tasks' \in TaskTable
        /\ lock' \in [Devices -> Lock \cup {NoLock}] /\ timer' \in Nat
    BY <1>0, <2>2, <2>3, UpdateTypes
  <2>6. promises' \in PromiseTable
    BY <1>0, <2>3, PromiseTypes
  <2> QED
    BY <1>0, <2>3, <2>4, <2>5, <2>6 DEF TypeOK, PromiseTable
<1>4. CASE TimerFires
  <2>1. Cleanup(tasks, timer) \in TaskTable
    BY <1>0, CleanupFacts
  <2>2. /\ up' \in BOOLEAN /\ asserted' \in BOOLEAN /\ tasks' \in TaskTable
        /\ lock' \in [Devices -> Lock \cup {NoLock}] /\ timer' \in Nat
    BY <1>0, <1>4, <2>1, UpdateTypes DEF TimerFires
  <2> QED
    BY <1>4, <2>2 DEF TimerFires, TypeOK
<1>5. CASE Restart
  <2>1. LoadState(clock) \in TaskTable
    BY <1>0, StateFileTypes
  <2>2. /\ up' \in BOOLEAN /\ asserted' \in BOOLEAN /\ tasks' \in TaskTable
        /\ lock' \in [Devices -> Lock \cup {NoLock}] /\ timer' \in Nat
    BY <1>0, <1>5, <2>1, UpdateTypes DEF Restart
  <2> QED
    BY <1>5, <2>2 DEF Restart, TypeOK
<1>6. CASE Crash
  BY <1>6 DEF Crash, Stopped, NoTasks, TypeOK, TaskTable
<1>7. CASE Tick
  <2>1. promises' \in PromiseTable /\ clock' \in Nat
    BY <1>0, <1>7, PromiseTypes DEF Tick
  <2> QED
    BY <1>7, <2>1 DEF Tick, TypeOK, PromiseTable
<1>8. CASE ClockStepsBack
  BY <1>0, <1>8 DEF ClockStepsBack, TypeOK
<1>9. CASE UNCHANGED vars
  BY <1>9 DEF vars, TypeOK
<1> QED
  BY <1>1, <1>2, <1>3, <1>4, <1>5, <1>6, <1>7, <1>8, <1>9 DEF Next

\* Every variable of the agent keeps its type, crashes, torn state files and
\* clocks set back included.
THEOREM TypeCorrect == Spec => []TypeOK
<1> QED
  BY InitTypeOK, NextTypeOK, PTL DEF Spec

-----------------------------------------------------------------------------
(* No double booking. *)

\* Accepting a request leaves no conflict: the tasks it conflicted with are
\* preempted or finished, the others were not in its way.
LEMMA GrantKeeps ==
  ASSUME Grace > 0,
         NEW ts \in TaskTable, NEW now \in Nat,
         NEW header \in Headers, NEW request \in Requests,
         Acceptable(ts, header, request), NEW span \in SpanOf(request),
         ConflictFree(ts), PreemptedBegan(ts, now)
  PROVE  LET after == WithNewTask(ts, header.id, NewTask(header, request, span),
                                  Conflicting(ts, request), now)
         IN  /\ after \in TaskTable
             /\ ConflictFree(after)
             /\ PreemptedBegan(after, now)
<1> DEFINE id      == header.id
           new     == NewTask(header, request, span)
           victims == Conflicting(ts, request)
           m       == Granted(ts, id, new, victims, now)
           after   == WithNewTask(ts, id, new, victims, now)
<1>1. /\ new \in Task /\ id \in TaskIds
      /\ new.priority = header.priority /\ new.slots = SlotsOf(request)
      /\ new.state = "PRE_RUN"
  BY NewTaskType DEF Acceptable, Headers, NewTask
<1>2. victims \in SUBSET Live(ts)
  BY DEF Conflicting
<1>3. m \in TaskTable /\ after \in TaskTable
  BY <1>1, <1>2, WithNewTaskType
<1>4. after = Cleanup(m, now)
  BY DEF WithNewTask, Granted
<1>5. ASSUME NEW i \in victims
      PROVE  /\ i # id => m[i] = Preempt(ts[i], now)
             /\ ts[i] \in Task
             /\ header.priority = "HIGH" /\ ts[i].priority # "HIGH"
  BY <1>2 DEF Acceptable, CheckCanPreemptOther, Live, TaskTable, Granted
<1>6. ts[id] = NoTask /\ m[id] = new
  BY <1>1 DEF Acceptable, Granted
\* What granting does to a task that was there before.
<1>7. ASSUME NEW i \in Live(m), i # id
      PROVE  /\ i \in Live(ts) /\ m[i].priority = ts[i].priority
             /\ \A d \in Devices : \A y \in m[i].slots[d] :
                  /\ y \in Slices
                  /\ \E x \in ts[i].slots[d] : x \in Slices /\ LeftOf(y, x)
             /\ ts[i].state = "PREEMPTED" => m[i].state \in {"PREEMPTED", "FINISHED"}
             /\ i \in victims => m[i].state \in {"PREEMPTED", "FINISHED"}
             /\ m[i].state = "PREEMPTED" => m[i].span.start <= now
  <2>1. m[i] = IF i \in victims THEN Preempt(ts[i], now) ELSE ts[i]
    BY <1>7 DEF Granted, Live
  <2>2. i \in Live(ts) /\ ts[i] \in Task
    BY <1>2, <1>7, <2>1 DEF Live, TaskTable
  <2>3. m[i] \in Task
    BY <1>3, <1>7 DEF Live, TaskTable
  <2>4. \A d \in Devices : ts[i].slots[d] \subseteq Slices /\ m[i].slots[d] \subseteq Slices
    BY <2>2, <2>3 DEF Task
  <2>5. ts[i].state = "PREEMPTED" => ts[i].span.start <= now
    BY <2>2 DEF PreemptedBegan
  <2> HIDE DEF m
  <2>6. CASE i \in victims
    <3>1. m[i] = Preempt(ts[i], now)
      BY <2>1, <2>6
    <3>2. now \in Nat /\ now <= now
      OBVIOUS
    <3>3. /\ m[i].priority = ts[i].priority
          /\ \A d \in Devices : \A y \in m[i].slots[d] :
               \E x \in ts[i].slots[d] : LeftOf(y, x)
          /\ m[i].state \in {"PREEMPTED", "FINISHED"}
          /\ m[i].state = "PREEMPTED" =>
               \/ ts[i].state = "PREEMPTED" /\ m[i].span = ts[i].span
               \/ m[i].span.start = now
      BY <2>2, <3>1, PreemptFacts
    <3>4. m[i].state = "PREEMPTED" => m[i].span.start <= now
      BY <2>5, <3>2, <3>3
    <3> QED
      BY <2>2, <2>4, <3>3, <3>4
  <2>7. CASE i \notin victims
    <3>1. m[i] = ts[i]
      BY <2>1, <2>7
    <3> QED
      BY <2>2, <2>4, <2>5, <2>7, <3>1 DEF LeftOf
  <2> QED
    BY <2>6, <2>7
<1>8. PreemptedBegan(m, now)
  BY <1>1, <1>6, <1>7 DEF PreemptedBegan
<1>9. \A i \in Live(after) :
        /\ i \in Live(m) /\ after[i].priority = m[i].priority
        /\ after[i].span = m[i].span
        /\ \A d \in Devices : after[i].slots[d] \subseteq m[i].slots[d]
        /\ m[i].state # "FINISHED"
        /\ after[i].state = "PREEMPTED" <=> m[i].state = "PREEMPTED"
  <2> SUFFICES ASSUME NEW i \in Live(after)
               PROVE  /\ i \in Live(m) /\ after[i].priority = m[i].priority
                      /\ after[i].span = m[i].span
                      /\ \A d \in Devices : after[i].slots[d] \subseteq m[i].slots[d]
                      /\ m[i].state # "FINISHED"
                      /\ after[i].state = "PREEMPTED" <=> m[i].state = "PREEMPTED"
    OBVIOUS
  <2>1. /\ i \in Live(m) /\ after[i] = TaskMakeCurrent(m[i], now)
        /\ after[i].state # "FINISHED"
    BY <1>3, <1>4, CleanupFacts
  <2>2. m[i] \in Task
    BY <1>3, <2>1 DEF Live, TaskTable
  <2>3. m[i].state = "PREEMPTED" => m[i].span.start <= now
    BY <1>8, <2>1 DEF PreemptedBegan
  <2> HIDE DEF m, after
  <2> QED
    BY <2>1, <2>2, <2>3, TaskMakeCurrentFacts
\* The new task is contested only by its victims.
<1>10. ASSUME NEW j \in Live(m), j # id, Contested(m, id, j)
       PROVE  j \in victims
  <2>0. PICK d \in Devices :
          \E x \in new.slots[d], y \in m[j].slots[d] : Conflict(x, y)
    BY <1>6, <1>10 DEF Contested
  <2>1. PICK x \in new.slots[d], y \in m[j].slots[d] : Conflict(x, y)
    BY <2>0
  <2>2. x \in Slices
    BY <1>1, <2>1 DEF Task
  <2>3. PICK z \in ts[j].slots[d] : z \in Slices /\ y \in Slices /\ LeftOf(y, z)
    BY <1>7, <1>10, <2>1
  <2>4. Conflict(z, x)
    BY <2>1, <2>2, <2>3, ConflictSymmetric, LeftOfConflict
  <2>5. TaskConflicts(SlotsOf(request), ts[j])
    BY <1>1, <2>1, <2>3, <2>4 DEF TaskConflicts, GetConflicts, CheckAvailability
  <2> QED
    BY <1>7, <1>10, <2>5 DEF Conflicting
<1>11. ASSUME NEW j \in Live(after), j # id,
              Contested(after, id, j) \/ Contested(after, j, id), id \in Live(after)
       PROVE  after[j].state = "PREEMPTED" /\ after[id].priority = "HIGH"
  <2>1. Contested(m, id, j)
    BY <1>9, <1>11, ConflictSymmetric DEF Contested
  <2>2. j \in victims /\ j \in Live(m)
    BY <1>9, <1>10, <1>11, <2>1
  <2>3. m[j].state = "PREEMPTED"
    BY <1>7, <1>9, <1>11, <2>2
  <2> QED
    BY <1>1, <1>5, <1>6, <1>9, <1>11, <2>2, <2>3
<1>12. ASSUME NEW i \in Live(after), NEW j \in Live(after), i # j, i # id, j # id,
              Contested(after, i, j)
       PROVE  \/ after[i].state = "PREEMPTED" /\ after[j].priority = "HIGH"
              \/ after[j].state = "PREEMPTED" /\ after[i].priority = "HIGH"
  <2>0. PICK d \in Devices :
          \E x \in m[i].slots[d], y \in m[j].slots[d] : Conflict(x, y)
    BY <1>9, <1>12 DEF Contested
  <2>1. PICK x \in m[i].slots[d], y \in m[j].slots[d] : Conflict(x, y)
    BY <2>0
  <2>2. PICK u \in ts[i].slots[d] : u \in Slices /\ x \in Slices /\ LeftOf(x, u)
    BY <1>7, <1>9, <1>12, <2>1
  <2>3. PICK v \in ts[j].slots[d] : v \in Slices /\ y \in Slices /\ LeftOf(y, v)
    BY <1>7, <1>9, <1>12, <2>1
  <2>4. Conflict(u, y)
    BY <2>1, <2>2, <2>3, LeftOfConflict
  <2>5. Conflict(v, u)
    BY <2>2, <2>3, <2>4, ConflictSymmetric, LeftOfConflict
  <2>6. Contested(ts, i, j)
    BY <2>2, <2>3, <2>5, ConflictSymmetric DEF Contested
  <2>7. \/ ts[i].state = "PREEMPTED" /\ ts[j].priority = "HIGH"
        \/ ts[j].state = "PREEMPTED" /\ ts[i].priority = "HIGH"
    BY <1>7, <1>9, <1>12, <2>6 DEF ConflictFree
  <2> HIDE DEF m, after, victims
  <2> QED
    BY <1>7, <1>9, <1>12, <2>7
<1>13. PreemptedBegan(after, now)
  BY <1>8, <1>9 DEF PreemptedBegan
<1> QED
  BY <1>3, <1>11, <1>12, <1>13 DEF ConflictFree

LEMMA NoTasksFree ==
  ConflictFree(NoTasks) /\ \A t \in Nat : PreemptedBegan(NoTasks, t)
<1>1. Live(NoTasks) = {}
  BY DEF Live, NoTasks
<1> QED
  BY <1>1 DEF ConflictFree, PreemptedBegan

\* What a save leaves in the state file is as free of conflicts as the
\* schedule saved and the file before; so is what a restart loads.
LEMMA StateFileKeeps ==
  ASSUME BookingInv
  PROVE  /\ \A ts : ConflictFree(ts) /\ PreemptedBegan(ts, clock) =>
              \A f \in SaveState(ts) :
                ConflictFree(f.tasks) /\ PreemptedBegan(f.tasks, clock)
         /\ LoadState(clock) \in TaskTable
         /\ ConflictFree(LoadState(clock)) /\ PreemptedBegan(LoadState(clock), clock)
<1>1. /\ clock \in Nat /\ disk.tasks \in TaskTable
      /\ ConflictFree(disk.tasks) /\ PreemptedBegan(disk.tasks, clock)
  BY DEF BookingInv, TypeOK
<1>2. ConflictFree(NoTasks) /\ PreemptedBegan(NoTasks, clock)
  BY <1>1, NoTasksFree
<1>3. ASSUME NEW ts, ConflictFree(ts), PreemptedBegan(ts, clock), NEW f \in SaveState(ts)
      PROVE  ConflictFree(f.tasks) /\ PreemptedBegan(f.tasks, clock)
  <2>1. f.tasks \in {disk.tasks, ts, NoTasks}
    BY <1>3 DEF SaveState, Saved, TornFile
  <2> QED
    BY <1>1, <1>2, <1>3, <2>1
<1>4. LoadState(clock) \in TaskTable
  BY <1>1, StateFileTypes DEF BookingInv
<1>5. ConflictFree(LoadState(clock)) /\ PreemptedBegan(LoadState(clock), clock)
  <2>1. /\ ConflictFree(Cleanup(disk.tasks, clock))
        /\ PreemptedBegan(Cleanup(disk.tasks, clock), clock)
    BY <1>1, CleanupKeeps
  <2> QED
    BY <1>2, <2>1 DEF LoadState
<1> QED
  BY <1>3, <1>4, <1>5

\* The update arms its event no earlier than the time it is computed at, so
\* every preemption in the schedule has begun by the event's deadline.
LEMMA UpdateKeeps ==
  ASSUME NEW ts \in TaskTable, NEW now \in Nat, clock \in Nat,
         ConflictFree(ts), PreemptedBegan(ts, now), PreemptedBegan(ts, clock),
         UpdateDeviceStateAndSchedule(ts, now) \/ Stopped
  PROVE  /\ ConflictFree(tasks') /\ PreemptedBegan(tasks', clock)
         /\ PreemptedBegan(tasks', timer')
<1>1. CASE Stopped
  BY <1>1, NoTasksFree DEF Stopped
<1>2. CASE ~Stopped
  <2>1. tasks' = ts /\ timer' \in NextUpdate(ts, now)
    BY <1>2 DEF UpdateDeviceStateAndSchedule
  <2>2. timer' \in Nat /\ timer' >= now
    BY <2>1, NextUpdateBound
  <2>3. \A i \in Live(ts) : ts[i].span.start \in Nat
    BY DEF Live, TaskTable, Task, Slices
  <2>4. PreemptedBegan(ts, timer')
    BY <2>2, <2>3 DEF PreemptedBegan
  <2> QED
    BY <2>1, <2>4
<1> QED
  BY <1>1, <1>2

LEMMA InitBookingInv == Init => BookingInv
<1>1. \A t \in Nat : ConflictFree(NoTasks) /\ PreemptedBegan(NoTasks, t)
  BY NoTasksFree
<1>2. NoFile.tasks = NoTasks
  BY DEF NoFile
<1> QED
  BY <1>1, <1>2, InitTypeOK DEF Init, BookingInv, TypeOK

LEMMA NextBookingInv ==
  ASSUME Grace > 0, ~ClockMayStepBack
  PROVE  BookingInv /\ [Next]_vars => BookingInv'
<1> SUFFICES ASSUME BookingInv, [Next]_vars
             PROVE  /\ ConflictFree(tasks') /\ PreemptedBegan(tasks', clock')
                    /\ PreemptedBegan(tasks', timer')
                    /\ ConflictFree(disk'.tasks) /\ PreemptedBegan(disk'.tasks, clock')
  BY NextTypeOK DEF BookingInv, ConflictFree, PreemptedBegan, Contested, Live
<1>0. /\ clock \in Nat /\ timer \in Nat /\ tasks \in TaskTable
      /\ disk.tasks \in TaskTable
      /\ ConflictFree(tasks) /\ PreemptedBegan(tasks, clock)
      /\ PreemptedBegan(tasks, timer)
      /\ ConflictFree(disk.tasks) /\ PreemptedBegan(disk.tasks, clock)
  BY DEF BookingInv, TypeOK
<1> DEFINE ts == Cleanup(tasks, clock)
<1>ts. /\ ts \in TaskTable /\ ConflictFree(ts) /\ PreemptedBegan(ts, clock)
       /\ PreemptedBegan(ts, timer)
  BY <1>0, CleanupFacts, CleanupKeeps
<1>1. CASE RejectRequest
  BY <1>0, <1>ts, <1>1 DEF RejectRequest
<1>2. ASSUME NEW header \in Headers, NEW request \in Requests,
             AcceptRequest(header, request) \/ CrashInRequest(header, request)
      PROVE  /\ ConflictFree(tasks') /\ PreemptedBegan(tasks', clock')
             /\ PreemptedBegan(tasks', timer')
             /\ ConflictFree(disk'.tasks) /\ PreemptedBegan(disk'.tasks, clock')
  <2> DEFINE after(span) == WithNewTask(ts, header.id, NewTask(header, request, span),
                                        Conflicting(ts, request), clock)
  <2>1. Acceptable(ts, header, request) /\ clock' = clock
    BY <1>2 DEF AcceptRequest, CrashInRequest
  <2>2. PICK span \in SpanOf(request) :
          /\ disk' \in SaveState(after(span))
          /\ UpdateDeviceStateAndSchedule(after(span), clock) \/ Stopped
    BY <1>2 DEF AcceptRequest, CrashInRequest
  <2> HIDE DEF ts
  <2>3. /\ after(span) \in TaskTable /\ ConflictFree(after(span))
        /\ PreemptedBegan(after(span), clock)
    BY <1>0, <1>ts, <2>1, GrantKeeps
  <2> HIDE DEF after
  <2>4. ConflictFree(disk'.tasks) /\ PreemptedBegan(disk'.tasks, clock)
    BY <2>2, <2>3, StateFileKeeps
  <2>5. /\ ConflictFree(tasks') /\ PreemptedBegan(tasks', clock)
        /\ PreemptedBegan(tasks', timer')
    BY <1>0, <2>2, <2>3, UpdateKeeps
  <2> QED
    BY <2>1, <2>4, <2>5
<1>3. ASSUME NEW agent \in Agents, NEW id \in TaskIds,
             CancelTask(agent, id) \/ CrashInCancel(agent, id)
      PROVE  /\ ConflictFree(tasks') /\ PreemptedBegan(tasks', clock')
             /\ PreemptedBegan(tasks', timer')
             /\ ConflictFree(disk'.tasks) /\ PreemptedBegan(disk'.tasks, clock')
  <2> DEFINE left  == [tasks EXCEPT ![id] = NoTask]
             after == Cleanup(left, clock)
  <2>1. /\ left \in TaskTable
        /\ \A i \in Live(left) : i \in Live(tasks) /\ left[i] = tasks[i]
    BY <1>0 DEF TaskTable, Live
  <2> HIDE DEF left
  <2>2. ConflictFree(left) /\ PreemptedBegan(left, clock)
    BY <1>0, <2>1 DEF ConflictFree, PreemptedBegan, Contested
  <2>3. /\ after \in TaskTable /\ ConflictFree(after)
        /\ PreemptedBegan(after, clock)
    BY <1>0, <2>1, <2>2, CleanupFacts, CleanupKeeps
  <2>4. /\ disk' \in SaveState(after) /\ clock' = clock
        /\ UpdateDeviceStateAndSchedule(after, clock) \/ Stopped
    BY <1>3 DEF CancelTask, CrashInCancel, left
  <2> HIDE DEF after
  <2>5. ConflictFree(disk'.tasks) /\ PreemptedBegan(disk'.tasks, clock)
    BY <2>3, <2>4, StateFileKeeps
  <2>6. /\ ConflictFree(tasks') /\ PreemptedBegan(tasks', clock)
        /\ PreemptedBegan(tasks', timer')
    BY <1>0, <2>3, <2>4, UpdateKeeps
  <2> QED
    BY <2>4, <2>5, <2>6
<1>4. CASE TimerFires
  <2> DEFINE after == Cleanup(tasks, timer)
  <2>1. /\ after \in TaskTable /\ ConflictFree(after)
        /\ PreemptedBegan(after, clock) /\ PreemptedBegan(after, timer)
    BY <1>0, CleanupFacts, CleanupKeeps
  <2>2. UpdateDeviceStateAndSchedule(after, timer) /\ UNCHANGED <<clock, disk>>
    BY <1>4 DEF TimerFires
  <2> HIDE DEF after
  <2>3. /\ ConflictFree(tasks') /\ PreemptedBegan(tasks', clock)
        /\ PreemptedBegan(tasks', timer')
    BY <1>0, <2>1, <2>2, UpdateKeeps
  <2> QED
    BY <1>0, <2>2, <2>3
<1>5. CASE Restart
  <2> DEFINE after == LoadState(clock)
  <2>1. after \in TaskTable /\ ConflictFree(after) /\ PreemptedBegan(after, clock)
    BY StateFileKeeps
  <2>2. UpdateDeviceStateAndSchedule(after, clock) /\ UNCHANGED <<clock, disk>>
    BY <1>5 DEF Restart
  <2> HIDE DEF after
  <2>3. /\ ConflictFree(tasks') /\ PreemptedBegan(tasks', clock)
        /\ PreemptedBegan(tasks', timer')
    BY <1>0, <2>1, <2>2, UpdateKeeps
  <2> QED
    BY <1>0, <2>2, <2>3
<1>6. CASE Crash
  <2>1. tasks' = NoTasks /\ timer' = 0 /\ UNCHANGED <<clock, disk>>
    BY <1>6 DEF Crash, Stopped
  <2> QED
    BY <1>0, <2>1, NoTasksFree
<1>7. CASE Tick
  <2>1. clock' = clock + 1 /\ UNCHANGED <<tasks, timer, disk>>
    BY <1>7 DEF Tick
  <2>2. \A t \in TaskTable : PreemptedBegan(t, clock) => PreemptedBegan(t, clock')
    BY <1>0, <2>1 DEF PreemptedBegan, TaskTable, Live, Task, Slices
  <2> QED
    BY <1>0, <2>1, <2>2
<1>8. CASE ClockStepsBack
  BY <1>8 DEF ClockStepsBack
<1>9. CASE UNCHANGED vars
  BY <1>0, <1>9 DEF vars
<1> QED
  BY <1>1, <1>2, <1>3, <1>4, <1>5, <1>6, <1>7, <1>8, <1>9 DEF Next

\* Unless the clock is set back, two tasks claim a device at the same time only
\* while one of them is preempted by the other: for every set of agents,
\* devices and requests, any positive grace period, and through crashes,
\* torn and failed saves, and restarts.
THEOREM BookingSafe ==
  ASSUME Grace > 0, ~ClockMayStepBack
  PROVE  Spec => []NoDoubleBooking
<1>1. BookingInv => NoDoubleBooking
  BY DEF BookingInv, NoDoubleBooking
<1>2. BookingInv /\ [Next]_vars => BookingInv'
  BY NextBookingInv
<1> QED
  BY <1>1, <1>2, InitBookingInv, PTL DEF Spec

-----------------------------------------------------------------------------
(* The assertions of get_schedule_state. *)

\* No request asks for a slot of no length.
LastingRequests == \A request \in Requests : \A r \in request : r.start # r.end

\* No two tasks of a conflict-free table have the same state and a current
\* slot on the same device.
LEMMA NoAssertionFails ==
  ASSUME NEW ts \in TaskTable, NEW now \in Nat, ConflictFree(ts), WellFormed(ts)
  PROVE  ~AssertionFails(ts, now)
<1> SUFFICES ASSUME NEW d \in Devices, NEW state \in {"RUNNING", "PREEMPTED"},
                    NEW i \in CurrentOn(ts, d, state, now),
                    NEW j \in CurrentOn(ts, d, state, now), i # j
             PROVE  FALSE
  BY DEF AssertionFails
<1>1. \A k \in CurrentOn(ts, d, state, now) :
        /\ k \in Live(ts) /\ ts[k].state = state
        /\ \E x \in ts[k].slots[d] : x \in Slices /\ x.start <= now /\ now < x.end
  <2> SUFFICES ASSUME NEW k \in CurrentOn(ts, d, state, now)
               PROVE  /\ k \in Live(ts) /\ ts[k].state = state
                      /\ \E x \in ts[k].slots[d] :
                           x \in Slices /\ x.start <= now /\ now < x.end
    OBVIOUS
  <2>1. k \in Live(ts) /\ ts[k].state = state /\ CurrentSlot(ts[k].slots[d], now) # {}
    BY DEF CurrentOn
  <2>2. ts[k].slots[d] \in SUBSET Slices
    BY <2>1 DEF Live, TaskTable, Task
  <2>3. PICK x \in CurrentSlot(ts[k].slots[d], now) : TRUE
    BY <2>1
  <2>4. x \in ts[k].slots[d] /\ x.start <= now /\ (now < x.end \/ now = x.start)
    BY <2>2, CurrentSlotHolds
  <2>5. x \in Slices /\ x.start < x.end
    BY <2>1, <2>2, <2>4 DEF WellFormed, Lasting
  <2> QED
    BY <2>1, <2>4, <2>5
<1>2. PICK x \in ts[i].slots[d] : x \in Slices /\ x.start <= now /\ now < x.end
  BY <1>1
<1>3. PICK y \in ts[j].slots[d] : y \in Slices /\ y.start <= now /\ now < y.end
  BY <1>1
<1>4. Contested(ts, i, j)
  BY <1>2, <1>3, SameInstantConflicts DEF Contested
<1> QED
  BY <1>1, <1>4 DEF ConflictFree, WellFormed

LEMMA CleanupWellFormed ==
  ASSUME NEW ts \in TaskTable, NEW now \in Nat, WellFormed(ts)
  PROVE  WellFormed(Cleanup(ts, now))
<1> DEFINE c == Cleanup(ts, now)
<1> SUFFICES ASSUME NEW i \in Live(c)
             PROVE  /\ Lasting(c[i].slots)
                    /\ c[i].state = "PREEMPTED" => c[i].priority # "HIGH"
  BY DEF WellFormed
<1>1. i \in Live(ts) /\ c[i] = TaskMakeCurrent(ts[i], now)
  BY CleanupFacts
<1>2. ts[i] \in Task
  BY <1>1 DEF Live, TaskTable
<1>3. /\ Lasting(ts[i].slots)
      /\ ts[i].state = "PREEMPTED" => ts[i].priority # "HIGH"
  BY <1>1 DEF WellFormed
<1> HIDE DEF c
<1> QED
  BY <1>1, <1>2, <1>3, TaskMakeCurrentFacts DEF Lasting

\* A high-priority task is never a victim, and what is left of a slot lasts.
LEMMA GrantWellFormed ==
  ASSUME Grace > 0, LastingRequests,
         NEW ts \in TaskTable, NEW now \in Nat,
         NEW header \in Headers, NEW request \in Requests,
         Acceptable(ts, header, request), NEW span \in SpanOf(request),
         WellFormed(ts)
  PROVE  WellFormed(WithNewTask(ts, header.id, NewTask(header, request, span),
                                Conflicting(ts, request), now))
<1> DEFINE new     == NewTask(header, request, span)
           victims == Conflicting(ts, request)
           m       == Granted(ts, header.id, new, victims, now)
<1>1. /\ new \in Task /\ header.id \in TaskIds
      /\ new.slots = SlotsOf(request) /\ new.state = "PRE_RUN"
  BY NewTaskType DEF Acceptable, Headers, NewTask
<1>2. Lasting(new.slots)
  <2>1. request \in SUBSET RequestSlots
    BY ConstantsAssumption
  <2>2. \A r \in request : r.start < r.end
    BY <2>1 DEF LastingRequests, Acceptable, MalformedRequest, RequestSlots
  <2> QED
    BY <1>1, <2>2 DEF Lasting, SlotsOf, TimeSlice
<1>3. \A i \in victims : i \in Live(ts) /\ ts[i].priority # "HIGH"
  BY DEF Acceptable, CheckCanPreemptOther, Conflicting
<1>4. victims \in SUBSET Live(ts) /\ m \in TaskTable
  BY <1>1, <1>3, WithNewTaskType
<1>5. ASSUME NEW i \in Live(m)
      PROVE  /\ Lasting(m[i].slots)
             /\ m[i].state = "PREEMPTED" => m[i].priority # "HIGH"
  <2>1. m[i] = IF i = header.id THEN new
               ELSE IF i \in victims THEN Preempt(ts[i], now) ELSE ts[i]
    BY DEF Granted, Live
  <2>2. CASE i = header.id
    BY <1>1, <1>2, <2>1, <2>2
  <2>3. CASE i # header.id /\ i \in victims
    <3>1. /\ ts[i] \in Task /\ ts[i].priority # "HIGH"
          /\ Lasting(ts[i].slots) /\ m[i] = Preempt(ts[i], now)
      BY <1>3, <2>1, <2>3 DEF Live, TaskTable, WellFormed
    <3>2. /\ m[i].priority = ts[i].priority
          /\ \A d \in Devices : \A y \in m[i].slots[d] :
               \E x \in ts[i].slots[d] : LeftOf(y, x)
      BY <3>1, PreemptFacts
    <3>3. Lasting(m[i].slots)
      BY <3>1, <3>2 DEF Lasting, LeftOf
    <3> QED
      BY <3>1, <3>2, <3>3
  <2>4. CASE i # header.id /\ i \notin victims
    <3>1. m[i] = ts[i] /\ i \in Live(ts)
      BY <2>1, <2>4 DEF Live, TaskTable, Granted
    <3> QED
      BY <3>1 DEF WellFormed
  <2> QED
    BY <2>2, <2>3, <2>4
<1>6. WellFormed(m)
  BY <1>5 DEF WellFormed
<1>7. WithNewTask(ts, header.id, new, victims, now) = Cleanup(m, now)
  BY DEF WithNewTask, Granted
<1> HIDE DEF m, new, victims
<1>8. WellFormed(Cleanup(m, now))
  BY <1>4, <1>6, CleanupWellFormed
<1> QED
  BY <1>7, <1>8 DEF new, victims

LEMMA NoTasksWellFormed == WellFormed(NoTasks)
BY DEF WellFormed, Live, NoTasks

LEMMA StateFileWellFormed ==
  ASSUME AssertionInv
  PROVE  /\ \A ts : WellFormed(ts) => \A f \in SaveState(ts) : WellFormed(f.tasks)
         /\ WellFormed(LoadState(clock))
<1>1. clock \in Nat /\ disk.tasks \in TaskTable /\ WellFormed(disk.tasks)
  BY DEF AssertionInv, BookingInv, TypeOK
<1>2. WellFormed(Cleanup(disk.tasks, clock))
  BY <1>1, CleanupWellFormed
<1>3. WellFormed(LoadState(clock))
  BY <1>2, NoTasksWellFormed DEF LoadState
<1>4. ASSUME NEW ts, WellFormed(ts), NEW f \in SaveState(ts)
      PROVE  WellFormed(f.tasks)
  <2>1. f.tasks \in {disk.tasks, ts, NoTasks}
    BY <1>4 DEF SaveState, Saved, TornFile
  <2> QED
    BY <1>1, <1>4, <2>1, NoTasksWellFormed
<1> QED
  BY <1>3, <1>4

\* An update of a conflict-free, well-formed schedule does not fail.
LEMMA UpdateSucceeds ==
  ASSUME NEW ts \in TaskTable, NEW now \in Nat, ConflictFree(ts), WellFormed(ts),
         UpdateDeviceStateAndSchedule(ts, now) \/ (Stopped /\ UNCHANGED asserted)
  PROVE  WellFormed(tasks') /\ UNCHANGED asserted
<1>1. ~AssertionFails(ts, now)
  BY NoAssertionFails
<1>2. CASE UpdateDeviceStateAndSchedule(ts, now)
  BY <1>1, <1>2 DEF UpdateDeviceStateAndSchedule
<1>3. CASE Stopped /\ UNCHANGED asserted
  BY <1>3, NoTasksWellFormed DEF Stopped
<1> QED
  BY <1>2, <1>3

LEMMA InitAssertionInv == Init => AssertionInv
<1>1. Init => WellFormed(tasks) /\ WellFormed(disk.tasks) /\ ~asserted
  BY NoTasksWellFormed DEF Init, NoFile
<1> QED
  BY <1>1, InitBookingInv DEF AssertionInv, AssertionsHold

LEMMA NextAssertionInv ==
  ASSUME Grace > 0, ~ClockMayStepBack, LastingRequests
  PROVE  AssertionInv /\ [Next]_vars => AssertionInv'
<1> SUFFICES ASSUME AssertionInv, [Next]_vars
             PROVE  /\ WellFormed(tasks') /\ WellFormed(disk'.tasks)
                    /\ UNCHANGED asserted
  BY NextBookingInv DEF AssertionInv, AssertionsHold, WellFormed, Live
<1>0. /\ clock \in Nat /\ timer \in Nat /\ tasks \in TaskTable
      /\ ConflictFree(tasks) /\ PreemptedBegan(tasks, clock)
      /\ PreemptedBegan(tasks, timer)
      /\ WellFormed(tasks) /\ WellFormed(disk.tasks)
      /\ BookingInv
  BY DEF AssertionInv, BookingInv, TypeOK
<1> DEFINE ts == Cleanup(tasks, clock)
<1>ts. /\ ts \in TaskTable /\ ConflictFree(ts) /\ PreemptedBegan(ts, clock)
       /\ WellFormed(ts)
  BY <1>0, CleanupFacts, CleanupKeeps, CleanupWellFormed
<1>1. CASE RejectRequest
  BY <1>0, <1>ts, <1>1 DEF RejectRequest
<1>2. ASSUME NEW header \in Headers, NEW request \in Requests,
             AcceptRequest(header, request) \/ CrashInRequest(header, request)
      PROVE  WellFormed(tasks') /\ WellFormed(disk'.tasks) /\ UNCHANGED asserted
  <2> DEFINE after(span) == WithNewTask(ts, header.id, NewTask(header, request, span),
                                        Conflicting(ts, request), clock)
  <2>1. Acceptable(ts, header, request)
    BY <1>2 DEF AcceptRequest, CrashInRequest
  <2>2. PICK span \in SpanOf(request) :
          /\ disk' \in SaveState(after(span))
          /\ \/ UpdateDeviceStateAndSchedule(after(span), clock)
             \/ Stopped /\ UNCHANGED asserted
    BY <1>2 DEF AcceptRequest, CrashInRequest
  <2> HIDE DEF ts
  <2>3. after(span) \in TaskTable /\ ConflictFree(after(span))
    BY <1>0, <1>ts, <2>1, GrantKeeps
  <2>4. WellFormed(after(span))
    BY <1>0, <1>ts, <2>1, GrantWellFormed
  <2> HIDE DEF after
  <2>5. WellFormed(disk'.tasks)
    BY <2>2, <2>4, StateFileWellFormed
  <2>6. WellFormed(tasks') /\ UNCHANGED asserted
    BY <1>0, <2>2, <2>3, <2>4, UpdateSucceeds
  <2> QED
    BY <2>5, <2>6
<1>3. ASSUME NEW agent \in Agents, NEW id \in TaskIds,
             CancelTask(agent, id) \/ CrashInCancel(agent, id)
      PROVE  WellFormed(tasks') /\ WellFormed(disk'.tasks) /\ UNCHANGED asserted
  <2> DEFINE left  == [tasks EXCEPT ![id] = NoTask]
             after == Cleanup(left, clock)
  <2>1. /\ left \in TaskTable
        /\ \A i \in Live(left) : i \in Live(tasks) /\ left[i] = tasks[i]
    BY <1>0 DEF TaskTable, Live
  <2> HIDE DEF left
  <2>2. ConflictFree(left) /\ PreemptedBegan(left, clock) /\ WellFormed(left)
    BY <1>0, <2>1 DEF ConflictFree, PreemptedBegan, Contested, WellFormed
  <2>3. after \in TaskTable /\ ConflictFree(after) /\ WellFormed(after)
    BY <1>0, <2>1, <2>2, CleanupFacts, CleanupKeeps, CleanupWellFormed
  <2>4. /\ disk' \in SaveState(after)
        /\ \/ UpdateDeviceStateAndSchedule(after, clock)
           \/ Stopped /\ UNCHANGED asserted
    BY <1>3 DEF CancelTask, CrashInCancel, left
  <2> HIDE DEF after
  <2>5. WellFormed(disk'.tasks)
    BY <2>3, <2>4, StateFileWellFormed
  <2>6. WellFormed(tasks') /\ UNCHANGED asserted
    BY <1>0, <2>3, <2>4, UpdateSucceeds
  <2> QED
    BY <2>5, <2>6
<1>4. CASE TimerFires
  <2> DEFINE after == Cleanup(tasks, timer)
  <2>1. after \in TaskTable /\ ConflictFree(after) /\ WellFormed(after)
    BY <1>0, CleanupFacts, CleanupKeeps, CleanupWellFormed
  <2>2. UpdateDeviceStateAndSchedule(after, timer) /\ UNCHANGED disk
    BY <1>4 DEF TimerFires
  <2> HIDE DEF after
  <2>3. WellFormed(tasks') /\ UNCHANGED asserted
    BY <1>0, <2>1, <2>2, UpdateSucceeds
  <2> QED
    BY <1>0, <2>2, <2>3
<1>5. CASE Restart
  <2> DEFINE after == LoadState(clock)
  <2>1. after \in TaskTable /\ ConflictFree(after) /\ WellFormed(after)
    BY <1>0, StateFileKeeps, StateFileWellFormed
  <2>2. UpdateDeviceStateAndSchedule(after, clock) /\ UNCHANGED disk
    BY <1>5 DEF Restart
  <2> HIDE DEF after
  <2>3. WellFormed(tasks') /\ UNCHANGED asserted
    BY <1>0, <2>1, <2>2, UpdateSucceeds
  <2> QED
    BY <1>0, <2>2, <2>3
<1>6. CASE Crash
  <2>1. tasks' = NoTasks /\ UNCHANGED <<disk, asserted>>
    BY <1>6 DEF Crash, Stopped
  <2> QED
    BY <1>0, <2>1, NoTasksWellFormed
<1>7. CASE Tick
  BY <1>0, <1>7 DEF Tick
<1>8. CASE ClockStepsBack
  BY <1>8 DEF ClockStepsBack
<1>9. CASE UNCHANGED vars
  BY <1>0, <1>9 DEF vars
<1> QED
  BY <1>1, <1>2, <1>3, <1>4, <1>5, <1>6, <1>7, <1>8, <1>9 DEF Next

\* When no client asks for a slot of no length, the grace period is positive
\* and the clock is not set back: all slots in the schedule and in the state
\* file last, no high-priority task is preempted, and no two tasks clash.
THEOREM AssertionInvariant ==
  ASSUME Grace > 0, ~ClockMayStepBack, LastingRequests
  PROVE  Spec => []AssertionInv
<1>1. AssertionInv /\ [Next]_vars => AssertionInv'
  BY NextAssertionInv
<1> QED
  BY <1>1, InitAssertionInv, PTL DEF Spec

\* Under the same assumptions the assertions of get_schedule_state never fail
\* and the agent does not die of them, whatever crashes and restarts it goes
\* through.
THEOREM AssertionsNeverFail ==
  ASSUME Grace > 0, ~ClockMayStepBack, LastingRequests
  PROVE  Spec => []AssertionsHold
<1>1. AssertionInv => AssertionsHold
  BY DEF AssertionInv
<1> QED
  BY <1>1, AssertionInvariant, PTL

-----------------------------------------------------------------------------
(* The update timer. *)

\* The next event lies after now, or it is now that a slot of no length is.
LEMMA NextUpdateIsLater ==
  ASSUME NEW ts \in TaskTable, NEW now \in Nat, NEW t \in NextUpdate(ts, now)
  PROVE  \/ t > now
         \/ t >= now /\ \E i \in Live(ts), d \in Devices :
                          TimeSlice(now, now) \in ts[i].slots[d]
<1> DEFINE latest == RoundUp(now + PublishInterval)
           events == UNION {NextEventTime(ts[i].slots[d], now) :
                              i \in Live(ts), d \in Devices}
<1>1. t = latest \/ t \in events
  BY DEF NextUpdate
<1>2. latest > now
  <2>1. PublishInterval \in Nat /\ PublishInterval > 0
    BY ConstantsAssumption
  <2>2. latest \in Nat /\ latest >= now + PublishInterval
    BY <2>1, RoundUpBound
  <2> QED
    BY <2>1, <2>2
<1>3. ASSUME t \in events
      PROVE  \/ t > now
             \/ t >= now /\ \E i \in Live(ts), d \in Devices :
                              TimeSlice(now, now) \in ts[i].slots[d]
  <2>1. PICK i \in Live(ts), d \in Devices : t \in NextEventTime(ts[i].slots[d], now)
    BY <1>3
  <2>2. PICK x \in FirstSlot(ts[i].slots[d], now) :
          t = RoundUp(IF ContainsIncludeStart(x, now) THEN x.end ELSE x.start)
    BY <2>1 DEF NextEventTime
  <2>3. x \in MakeCurrent(ts[i].slots[d], now) /\ ts[i].slots[d] \in SUBSET Slices
    BY <2>2 DEF FirstSlot, Live, TaskTable, Task
  <2>4. x \in ts[i].slots[d] /\ x \in Slices /\ (x.end > now \/ x.start >= now)
    BY <2>3, MakeCurrentKeeps
  <2> DEFINE next == IF ContainsIncludeStart(x, now) THEN x.end ELSE x.start
  <2>5. next \in Nat /\ (next > now \/ (x.start = now /\ x.end = now /\ next = now))
    <3>1. x.start \in Nat /\ x.end \in Nat /\ x.start <= x.end
      BY <2>4 DEF Slices
    <3>2. CASE ContainsIncludeStart(x, now)
      BY <2>4, <3>1, <3>2 DEF ContainsIncludeStart
    <3>3. CASE ~ContainsIncludeStart(x, now)
      <4>1. ~(x.start < now /\ now < x.end) /\ x.start # now
        BY <3>3 DEF ContainsIncludeStart
      <4>2. next = x.start
        BY <3>3
      <4> QED
        BY <2>4, <3>1, <4>1, <4>2
    <3> QED
      BY <3>2, <3>3
  <2>6. RoundUp(next) \in Nat /\ RoundUp(next) >= next /\ t = RoundUp(next)
    BY <2>2, <2>5, RoundUpBound
  <2>7. CASE next > now
    BY <2>5, <2>6, <2>7
  <2>8. CASE x.start = now /\ x.end = now /\ next = now
    <3>1. x = TimeSlice(now, now)
      BY <2>4, <2>8 DEF Slices, TimeSlice
    <3> QED
      BY <2>4, <2>6, <2>8, <3>1
  <2> QED
    BY <2>5, <2>7, <2>8
<1> QED
  BY <1>1, <1>2, <1>3

\* Whatever clients ask for, through crashes, restarts and settings of the clock,
\* an update that does not end the agent never arms the next one for a time
\* before its own deadline, and for that deadline again only while a slot of no
\* length lies at it (_update_schedule_state).
THEOREM TimerMovesOn == Spec => TimerAdvances
<1> DEFINE Instant == \E i \in Live(tasks'), d \in Devices :
                        TimeSlice(timer, timer) \in tasks'[i].slots[d]
<1>1. ASSUME TypeOK, TimerFires, up'
      PROVE  timer' > timer \/ (timer' = timer /\ Instant)
  <2>1. timer \in Nat /\ tasks \in TaskTable
    BY <1>1 DEF TypeOK
  <2> DEFINE after == Cleanup(tasks, timer)
  <2>2. after \in TaskTable
    BY <2>1, CleanupFacts
  <2>3. timer' \in NextUpdate(after, timer) /\ tasks' = after
    BY <1>1 DEF TimerFires, UpdateDeviceStateAndSchedule, Stopped
  <2> HIDE DEF after
  <2>4. timer' > timer \/ (timer' >= timer /\ Instant)
    BY <2>1, <2>2, <2>3, NextUpdateIsLater
  <2>5. timer' \in Nat
    BY <1>1, NextTypeOK DEF Next, TypeOK
  <2> HIDE DEF Instant
  <2> QED
    BY <2>1, <2>4, <2>5
<1>2. TypeOK => [TimerFires /\ up' => timer' > timer \/ (timer' = timer /\ Instant)]_vars
  BY <1>1
<1> QED
  BY <1>2, TypeCorrect, PTL DEF Spec, TimerAdvances

-----------------------------------------------------------------------------
(* The table of device states. *)

\* A slot ends within the span of its task and starts within it too, unless the
\* task is preempted: then it began before; the slots of a task on one device
\* share no time.
SoundTask(task) ==
  /\ \A d \in Devices : Apart(task.slots[d])
  /\ \A d \in Devices : \A x \in task.slots[d] :
       /\ x.end <= task.span.end
       /\ task.state \in {"PRE_RUN", "RUNNING"} => task.span.start <= x.start
       /\ task.state = "PREEMPTED" => x.start <= task.span.start

Sound(ts) == \A i \in Live(ts) : SoundTask(ts[i])

\* At a time, no slot is over, and no task with a slot that is on waits to begin.
Settled(ts, now) ==
  \A i \in Live(ts), d \in Devices : \A x \in ts[i].slots[d] :
    /\ x.end > now \/ x.start >= now
    /\ x.start <= now /\ now < x.end => ts[i].state \in {"RUNNING", "PREEMPTED"}

\* Bringing a task up to date keeps every slot that has not ended, and does
\* not finish the task while it has one.
LEMMA TaskMakeCurrentSound ==
  ASSUME NEW task \in Task, NEW now \in Nat, SoundTask(task),
         task.state # "FINISHED",
         task.state = "PREEMPTED" => task.span.start <= now
  PROVE  LET c == TaskMakeCurrent(task, now)
         IN  /\ SoundTask(c)
             /\ task.state = "PREEMPTED" => c.state \in {"PREEMPTED", "FINISHED"}
             /\ \A d \in Devices : \A x \in task.slots[d] :
                  now < x.end => x \in c.slots[d] /\ c.state # "FINISHED"
             /\ \A d \in Devices : \A x \in c.slots[d] :
                  /\ x.end > now \/ x.start >= now
                  /\ x.start <= now /\ now < x.end => c.state \in {"RUNNING", "PREEMPTED"}
<1> DEFINE c == TaskMakeCurrent(task, now)
           state == IF ContainsIncludeStart(task.span, now)
                    THEN IF task.state = "PREEMPTED" THEN task.state ELSE "RUNNING"
                    ELSE IF task.span.start >= now THEN "PRE_RUN"
                    ELSE "FINISHED"
<1>1. /\ task.slots \in [Devices -> SUBSET Slices]
      /\ task.state \in TaskStates
      /\ task.span.start \in Nat /\ task.span.end \in Nat
  BY DEF Task, Slices
<1>2. /\ c.slots = [d \in Devices |-> MakeCurrent(task.slots[d], now)]
      /\ c.state = state /\ c.span = task.span
  BY DEF TaskMakeCurrent, Task
<1> HIDE DEF c
<1>3. \A d \in Devices :
        /\ c.slots[d] \subseteq task.slots[d]
        /\ \A x \in c.slots[d] : x.end > now \/ x.start >= now
  BY <1>1, <1>2, MakeCurrentKeeps
<1>4. ASSUME NEW d \in Devices, NEW x \in task.slots[d], now < x.end
      PROVE  /\ x \in c.slots[d] /\ state # "FINISHED"
             /\ x.start <= now => state \in {"RUNNING", "PREEMPTED"}
  <2>1. task.slots[d] \in SUBSET Slices /\ x \in Slices
    BY <1>1
  <2>2. x \in c.slots[d]
    BY <1>2, <1>4, <2>1, MakeCurrentLeaves
  <2>3. now < task.span.end
    BY <1>1, <1>4, <2>1 DEF SoundTask, Slices
  <2>4. state # "FINISHED"
    BY <1>1, <2>3 DEF ContainsIncludeStart
  <2>5. ASSUME x.start <= now
        PROVE  state \in {"RUNNING", "PREEMPTED"}
    <3>1. task.span.start <= now
      BY <1>1, <2>1, <2>5 DEF SoundTask, TaskStates, Slices
    <3> QED
      BY <1>1, <2>3, <3>1 DEF ContainsIncludeStart
  <2> QED
    BY <2>2, <2>4, <2>5
<1>5. task.state = "PREEMPTED" => state \in {"PREEMPTED", "FINISHED"}
  BY <1>1 DEF ContainsIncludeStart
<1>6. state \in {"PRE_RUN", "RUNNING"} => task.state \in {"PRE_RUN", "RUNNING"}
  BY <1>1, <1>5 DEF TaskStates
<1>7. state = "PREEMPTED" => task.state = "PREEMPTED"
  OBVIOUS
<1> HIDE DEF state
<1>8. SoundTask(c)
  BY <1>2, <1>3, <1>6, <1>7 DEF SoundTask, Apart
<1> QED
  BY <1>2, <1>3, <1>4, <1>5, <1>8 DEF c

LEMMA PreemptSound ==
  ASSUME NEW task \in Task, NEW now \in Nat, SoundTask(task),
         task.state # "FINISHED",
         task.state = "PREEMPTED" => task.span.start <= now
  PROVE  SoundTask(Preempt(task, now))
<1> DEFINE current == TaskMakeCurrent(task, now)
           pruned  == [d \in Devices |-> PruneToCurrent(current.slots[d], Grace, now)]
<1>1. current \in Task /\ SoundTask(current)
  BY TaskMakeCurrentFacts, TaskMakeCurrentSound
<1>2. current.slots \in [Devices -> SUBSET Slices] /\ Grace \in Nat
  BY <1>1, ConstantsAssumption DEF Task
<1> HIDE DEF current
<1>3. CASE current.state \in {"PREEMPTED", "FINISHED"}
  BY <1>1, <1>3 DEF Preempt, current
<1>4. CASE current.state \notin {"PREEMPTED", "FINISHED"}
  <2> DEFINE done  == [current EXCEPT !.slots = pruned, !.state = "FINISHED"]
             grace == [current EXCEPT !.slots = pruned, !.state = "PREEMPTED",
                                      !.span = TimeSlice(now, now + Grace)]
  <2>1. \/ Preempt(task, now) = done /\ \A d \in Devices : pruned[d] = {}
        \/ Preempt(task, now) = grace
    BY <1>4 DEF Preempt, current, pruned
  <2>2. ASSUME NEW d \in Devices
        PROVE  /\ Apart(pruned[d])
               /\ \A y \in pruned[d] : y.end <= now + Grace /\ y.start <= now
    <3>1. pruned[d] = PruneToCurrent(current.slots[d], Grace, now)
      BY DEF pruned
    <3>2. current.slots[d] \in SUBSET Slices
      BY <1>2
    <3>3. \A y \in pruned[d] : y.end <= now + Grace
      BY <1>2, <3>1, <3>2, PruneToCurrentLeaves
    <3>4. \A x, y \in CurrentSlot(current.slots[d], now) : x = y
      BY <3>2, FirstSlotUnique DEF CurrentSlot
    <3>5. \A x, y \in pruned[d] : x = y
      BY <3>1, <3>4 DEF PruneToCurrent
    <3>6. \A x \in CurrentSlot(current.slots[d], now) : x.start <= now
      BY <3>2, CurrentSlotHolds
    <3>7. \A y \in pruned[d] : y.start <= now
      BY <3>1, <3>6 DEF PruneToCurrent, TimeSlice
    <3> QED
      BY <3>3, <3>5, <3>7 DEF Apart
  <2>3. /\ done.slots = pruned /\ done.state = "FINISHED"
        /\ grace.slots = pruned /\ grace.state = "PREEMPTED"
        /\ grace.span.start = now /\ grace.span.end = now + Grace
    BY <1>1 DEF Task, TimeSlice
  <2> HIDE DEF done, grace, pruned
  <2> QED
    BY <2>1, <2>2, <2>3 DEF SoundTask
<1> QED
  BY <1>3, <1>4

LEMMA NewTaskSound ==
  ASSUME NEW header, NEW request \in Requests,
         ~MalformedRequest(request), NEW span \in SpanOf(request)
  PROVE  SoundTask(NewTask(header, request, span))
<1> DEFINE task == NewTask(header, request, span)
<1>1. /\ task.slots = SlotsOf(request) /\ task.state = "PRE_RUN" /\ task.span = span
  BY DEF NewTask
<1>2. \A r \in request : span.start <= r.start /\ r.end <= span.end
  BY DEF SpanOf
<1> HIDE DEF task
<1>3. ASSUME NEW d \in Devices, NEW x \in task.slots[d]
      PROVE  \E r \in request :
               r.device = d /\ x = TimeSlice(r.start, r.end)
  BY <1>1, <1>3 DEF SlotsOf
<1>4. ASSUME NEW d \in Devices, NEW x \in task.slots[d], NEW y \in task.slots[d], x # y
      PROVE  ~Conflict(x, y)
  <2>1. PICK r \in request : r.device = d /\ x = TimeSlice(r.start, r.end)
    BY <1>3
  <2>2. PICK q \in request : q.device = d /\ y = TimeSlice(q.start, q.end)
    BY <1>3
  <2>3. r # q
    BY <1>4, <2>1, <2>2
  <2>4. ~Conflict(r, q)
    BY <2>1, <2>2, <2>3 DEF MalformedRequest
  <2> QED
    BY <2>1, <2>2, <2>4 DEF Conflict, Before, TimeSlice
<1>5. ASSUME NEW d \in Devices, NEW x \in task.slots[d]
      PROVE  x.end <= span.end /\ span.start <= x.start
  BY <1>2, <1>3 DEF TimeSlice
<1> QED
  BY <1>1, <1>4, <1>5 DEF SoundTask, Apart, task

\* A clean-up keeps a table sound, drops no slot that has not ended, and
\* settles the tasks at the time it is made for.
LEMMA CleanupSound ==
  ASSUME NEW ts \in TaskTable, NEW now \in Nat, Sound(ts), PreemptedBegan(ts, now)
  PROVE  LET c == Cleanup(ts, now)
         IN  /\ Sound(c) /\ Settled(c, now)
             /\ \A i \in Live(ts) : ts[i].state # "FINISHED" =>
                  \A d \in Devices : \A x \in ts[i].slots[d] : now < x.end =>
                    /\ i \in Live(c) /\ x \in c[i].slots[d]
                    /\ c[i].agent = ts[i].agent
                    /\ ts[i].state = "PREEMPTED" => c[i].state = "PREEMPTED"
<1> DEFINE c == Cleanup(ts, now)
<1>1. ASSUME NEW i \in Live(ts), ts[i].state # "FINISHED"
      PROVE  LET m == TaskMakeCurrent(ts[i], now)
             IN  /\ ts[i] \in Task /\ m \in Task /\ m.agent = ts[i].agent
                 /\ SoundTask(m)
                 /\ ts[i].state = "PREEMPTED" => m.state \in {"PREEMPTED", "FINISHED"}
                 /\ \A d \in Devices : \A x \in ts[i].slots[d] :
                      now < x.end => x \in m.slots[d] /\ m.state # "FINISHED"
                 /\ \A d \in Devices : \A x \in m.slots[d] :
                      /\ x.end > now \/ x.start >= now
                      /\ x.start <= now /\ now < x.end => m.state \in {"RUNNING", "PREEMPTED"}
  <2>1. /\ ts[i] \in Task /\ SoundTask(ts[i])
        /\ ts[i].state = "PREEMPTED" => ts[i].span.start <= now
    BY DEF Live, TaskTable, Sound, PreemptedBegan
  <2> QED
    BY <1>1, <2>1, TaskMakeCurrentFacts, TaskMakeCurrentSound
<1>2. ASSUME NEW i \in Live(c)
      PROVE  /\ i \in Live(ts) /\ c[i] = TaskMakeCurrent(ts[i], now)
             /\ ts[i].state # "FINISHED"
  <2>1. /\ i \in Live(ts) /\ c[i] = TaskMakeCurrent(ts[i], now)
        /\ c[i].state # "FINISHED"
    BY CleanupFacts
  <2>2. ts[i] \in Task
    BY <2>1 DEF Live, TaskTable
  <2> HIDE DEF c
  <2> QED
    BY <2>1, <2>2, TaskMakeCurrentFacts
<1>3. ASSUME NEW i \in Live(ts), TaskMakeCurrent(ts[i], now).state # "FINISHED",
             ts[i].state # "FINISHED"
      PROVE  i \in Live(c) /\ c[i] = TaskMakeCurrent(ts[i], now)
  BY <1>1, <1>3, SentinelsAssumption DEF Cleanup, Live
<1> HIDE DEF c
<1>4. Sound(c) /\ Settled(c, now)
  BY <1>1, <1>2 DEF Sound, Settled
<1>5. ASSUME NEW i \in Live(ts), ts[i].state # "FINISHED", NEW d \in Devices,
             NEW x \in ts[i].slots[d], now < x.end
      PROVE  /\ i \in Live(c) /\ x \in c[i].slots[d]
             /\ c[i].agent = ts[i].agent
             /\ ts[i].state = "PREEMPTED" => c[i].state = "PREEMPTED"
  <2>1. TaskMakeCurrent(ts[i], now).state # "FINISHED"
    BY <1>1, <1>5
  <2> QED
    BY <1>1, <1>3, <1>5, <2>1
<1> QED
  BY <1>4, <1>5 DEF c

Unfinished(ts) == \A i \in Live(ts) : ts[i].state # "FINISHED"

LEMMA CleanupUnfinished ==
  ASSUME NEW ts \in TaskTable, NEW now \in Nat
  PROVE  Unfinished(Cleanup(ts, now))
BY CleanupFacts DEF Unfinished

LEMMA GrantedSound ==
  ASSUME NEW ts \in TaskTable, NEW now \in Nat,
         NEW header \in Headers, NEW request \in Requests,
         Acceptable(ts, header, request), NEW span \in SpanOf(request),
         Sound(ts), Unfinished(ts), PreemptedBegan(ts, now)
  PROVE  LET m == Granted(ts, header.id, NewTask(header, request, span),
                          Conflicting(ts, request), now)
         IN  m \in TaskTable /\ Sound(m) /\ PreemptedBegan(m, now)
<1> DEFINE new     == NewTask(header, request, span)
           victims == Conflicting(ts, request)
           m       == Granted(ts, header.id, new, victims, now)
<1>1. /\ new \in Task /\ new.state = "PRE_RUN" /\ SoundTask(new)
  BY NewTaskType, NewTaskSound DEF Acceptable, NewTask
<1>2. victims \in SUBSET Live(ts)
  BY DEF Conflicting
<1>3. m \in TaskTable
  BY <1>1, <1>2, WithNewTaskType
<1> HIDE DEF new
<1>4. ASSUME NEW i \in Live(m)
      PROVE  /\ SoundTask(m[i])
             /\ m[i].state = "PREEMPTED" => m[i].span.start <= now
  <2>1. m[i] = IF i = header.id THEN new
               ELSE IF i \in victims THEN Preempt(ts[i], now) ELSE ts[i]
    BY DEF Granted, Live
  <2>2. CASE i = header.id
    BY <1>1, <2>1, <2>2
  <2>3. CASE i # header.id
    <3>1. i \in Live(ts) /\ ts[i] \in Task /\ m[i] \in {Preempt(ts[i], now), ts[i]}
      BY <1>2, <2>1, <2>3 DEF Live, TaskTable
    <3>2. /\ SoundTask(ts[i]) /\ ts[i].state # "FINISHED"
          /\ ts[i].state = "PREEMPTED" => ts[i].span.start <= now
      BY <3>1 DEF Sound, Unfinished, PreemptedBegan
    <3>3. LET c == Preempt(ts[i], now)
          IN  /\ SoundTask(c)
              /\ c.state = "PREEMPTED" => c.span.start <= now
      <4>1. LET c == Preempt(ts[i], now)
            IN  c.state = "PREEMPTED" =>
                  \/ ts[i].state = "PREEMPTED" /\ c.span = ts[i].span
                  \/ c.span.start = now
        BY <3>1, PreemptFacts
      <4>2. now <= now
        OBVIOUS
      <4>3. SoundTask(Preempt(ts[i], now))
        BY <3>1, <3>2, PreemptSound
      <4> QED
        BY <3>2, <4>1, <4>2, <4>3
    <3> HIDE DEF m
    <3> QED
      BY <3>1, <3>2, <3>3
  <2> QED
    BY <2>2, <2>3
<1> HIDE DEF m
<1>5. Sound(m) /\ PreemptedBegan(m, now)
  BY <1>4 DEF Sound, PreemptedBegan
<1> QED
  BY <1>3, <1>5 DEF m, new

LEMMA GrantSound ==
  ASSUME NEW ts \in TaskTable, NEW now \in Nat,
         NEW header \in Headers, NEW request \in Requests,
         Acceptable(ts, header, request), NEW span \in SpanOf(request),
         Sound(ts), Unfinished(ts), PreemptedBegan(ts, now)
  PROVE  LET after == WithNewTask(ts, header.id, NewTask(header, request, span),
                                  Conflicting(ts, request), now)
         IN  Sound(after) /\ Settled(after, now) /\ Unfinished(after)
<1> DEFINE new == NewTask(header, request, span)
           m   == Granted(ts, header.id, new, Conflicting(ts, request), now)
<1>1. m \in TaskTable /\ Sound(m) /\ PreemptedBegan(m, now)
  BY GrantedSound
<1>2. WithNewTask(ts, header.id, new, Conflicting(ts, request), now) = Cleanup(m, now)
  BY DEF WithNewTask, Granted
<1> HIDE DEF m
<1> QED
  BY <1>1, <1>2, CleanupSound, CleanupUnfinished

\* An entry of the table of device states that is still to end stands for a
\* slot of a task that has begun, for the update event too, and that event
\* comes when the entry has to be taken back.
Backed(d) ==
  LET i == lock[d].task
  IN  /\ tasks[i] # NoTask
      /\ tasks[i].agent = lock[d].agent
      /\ \E x \in tasks[i].slots[d] :
           x.start <= clock /\ x.start <= timer /\ x.end = lock[d].until

LockInv ==
  up => \A d \in Devices : lock[d] # NoLock =>
          /\ timer <= RoundUp(lock[d].until)
          /\ clock < lock[d].until => Backed(d)

\* LockIsBacked is not inductive: it says nothing once the update is overdue,
\* and an accepted request may leave the task only because of its span.
SoundInv ==
  /\ BookingInv
  /\ Sound(tasks) /\ Unfinished(tasks) /\ Sound(disk.tasks)
  /\ LockInv

LEMMA NextUpdateFirst ==
  ASSUME NEW ts \in TaskTable, NEW now \in Nat, NEW t \in NextUpdate(ts, now),
         NEW i \in Live(ts), NEW d \in Devices,
         NEW u \in NextEventTime(ts[i].slots[d], now)
  PROVE  t <= u
BY DEF NextUpdate

\* The update enters slots that are on at its time, and is due again when the
\* first of them ends.
LEMMA UpdateLocks ==
  ASSUME NEW ts \in TaskTable, NEW now \in Nat, clock \in Nat, now <= clock,
         UpdateDeviceStateAndSchedule(ts, now) \/ Stopped, clock' = clock
  PROVE  LockInv'
<1>1. CASE Stopped
  BY <1>1 DEF Stopped, LockInv
<1>2. CASE ~Stopped
  <2>1. /\ tasks' = ts /\ lock' = ScheduleState(ts, now)
        /\ timer' \in NextUpdate(ts, now)
    BY <1>2 DEF UpdateDeviceStateAndSchedule
  <2>2. ASSUME NEW d \in Devices, lock'[d] # NoLock
        PROVE  timer' <= RoundUp(lock'[d].until) /\ Backed(d)'
    <3> DEFINE preempted == CurrentOn(ts, d, "PREEMPTED", now)
               holders == IF preempted # {} THEN preempted
                          ELSE CurrentOn(ts, d, "RUNNING", now)
               i == CHOOSE j \in holders : TRUE
               x == CHOOSE y \in CurrentSlot(ts[i].slots[d], now) : TRUE
    <3>1. /\ holders # {}
          /\ lock'[d] = [agent |-> ts[i].agent, task |-> i, until |-> x.end]
      BY <2>1, <2>2 DEF ScheduleState
    <3>2. i \in holders
      BY <3>1
    <3>3. i \in Live(ts) /\ CurrentSlot(ts[i].slots[d], now) # {}
      BY <3>2 DEF CurrentOn
    <3>4. ts[i] # NoTask /\ ts[i].slots[d] \in SUBSET Slices
      BY <3>3 DEF Live, TaskTable, Task
    <3>5. x \in CurrentSlot(ts[i].slots[d], now)
      BY <3>3
    <3> HIDE DEF i, x, holders
    <3>6. x \in ts[i].slots[d] /\ x \in Slices /\ x.start <= now
      BY <3>4, <3>5, CurrentSlotHolds
    <3>7. RoundUp(x.end) \in NextEventTime(ts[i].slots[d], now)
      BY <3>5 DEF CurrentSlot, NextEventTime
    <3>8. timer' <= RoundUp(x.end)
      BY <2>1, <3>3, <3>7, NextUpdateFirst
    <3>9. x.start <= clock' /\ x.start <= timer'
      <4>1. timer' \in Nat /\ timer' >= now
        BY <2>1, NextUpdateBound
      <4> QED
        BY <3>6, <4>1 DEF Slices
    <3> QED
      BY <2>1, <3>1, <3>4, <3>6, <3>8, <3>9 DEF Backed
  <2> QED
    BY <2>2 DEF LockInv
<1> QED
  BY <1>1, <1>2

LEMMA NoTasksSound == Sound(NoTasks) /\ Unfinished(NoTasks)
BY DEF Sound, Unfinished, Live, NoTasks

\* What a save leaves and what a restart loads is as sound as the schedule
\* saved and the file before.
LEMMA StateFileSound ==
  ASSUME SoundInv
  PROVE  /\ \A ts : Sound(ts) => \A f \in SaveState(ts) : Sound(f.tasks)
         /\ Sound(LoadState(clock)) /\ Settled(LoadState(clock), clock)
         /\ Unfinished(LoadState(clock))
<1>1. /\ clock \in Nat /\ disk.tasks \in TaskTable
      /\ Sound(disk.tasks) /\ PreemptedBegan(disk.tasks, clock)
  BY DEF SoundInv, BookingInv, TypeOK
<1>2. LET c == Cleanup(disk.tasks, clock)
      IN  Sound(c) /\ Settled(c, clock) /\ Unfinished(c)
  BY <1>1, CleanupSound, CleanupUnfinished
<1>3. Settled(NoTasks, clock)
  BY DEF Settled, Live, NoTasks
<1>4. /\ Sound(LoadState(clock)) /\ Settled(LoadState(clock), clock)
      /\ Unfinished(LoadState(clock))
  BY <1>2, <1>3, NoTasksSound DEF LoadState
<1>5. ASSUME NEW ts, Sound(ts), NEW f \in SaveState(ts)
      PROVE  Sound(f.tasks)
  <2>1. f.tasks \in {disk.tasks, ts, NoTasks}
    BY <1>5 DEF SaveState, Saved, TornFile
  <2> QED
    BY <1>1, <1>5, <2>1, NoTasksSound
<1> QED
  BY <1>4, <1>5

LEMMA InitSoundInv == Init => SoundInv
<1>1. ASSUME Init
      PROVE  LockInv
  BY <1>1 DEF Init, LockInv
<1>2. ASSUME Init
      PROVE  tasks = NoTasks /\ disk.tasks = NoTasks
  BY <1>2 DEF Init, NoFile
<1> QED
  BY <1>1, <1>2, InitBookingInv, NoTasksSound DEF SoundInv

\* The table a handler works on after its clean-up.
LEMMA CleanedUp ==
  ASSUME SoundInv
  PROVE  LET ts == Cleanup(tasks, clock)
         IN  /\ ts \in TaskTable /\ PreemptedBegan(ts, clock)
             /\ Sound(ts) /\ Settled(ts, clock) /\ Unfinished(ts)
<1>1. /\ clock \in Nat /\ tasks \in TaskTable /\ ConflictFree(tasks)
      /\ PreemptedBegan(tasks, clock) /\ Sound(tasks)
  BY DEF SoundInv, BookingInv, TypeOK
<1> QED
  BY <1>1, CleanupFacts, CleanupKeeps, CleanupSound, CleanupUnfinished

\* A clean-up leaves the entries that are still to end backed.
LEMMA RejectKeepsLocks ==
  ASSUME SoundInv, RejectRequest
  PROVE  LockInv'
<1>1. /\ clock \in Nat /\ tasks \in TaskTable /\ Sound(tasks) /\ Unfinished(tasks)
      /\ PreemptedBegan(tasks, clock) /\ LockInv /\ up
      /\ lock \in [Devices -> Lock \cup {NoLock}]
  BY DEF SoundInv, BookingInv, TypeOK, RejectRequest
<1> DEFINE c == Cleanup(tasks, clock)
<1>2. tasks' = c /\ UNCHANGED <<clock, up, lock, timer>>
  BY DEF RejectRequest
<1>3. \A i \in Live(tasks) : \A d \in Devices : \A x \in tasks[i].slots[d] :
        clock < x.end => i \in Live(c) /\ x \in c[i].slots[d]
                         /\ c[i].agent = tasks[i].agent
  BY <1>1, CleanupSound DEF Unfinished
<1> HIDE DEF c
<1>4. ASSUME NEW d \in Devices, lock[d] # NoLock, clock < lock[d].until
      PROVE  Backed(d)'
  <2>1. Backed(d) /\ lock[d].task \in TaskIds
    BY <1>1, <1>4 DEF LockInv, Lock
  <2>2. PICK x \in tasks[lock[d].task].slots[d] :
          x.start <= clock /\ x.start <= timer /\ x.end = lock[d].until
    BY <2>1 DEF Backed
  <2>3. lock[d].task \in Live(tasks)
    BY <2>1 DEF Backed, Live
  <2>4. /\ lock[d].task \in Live(c) /\ x \in c[lock[d].task].slots[d]
        /\ c[lock[d].task].agent = lock[d].agent
    BY <1>3, <1>4, <2>1, <2>2, <2>3 DEF Backed
  <2> QED
    BY <1>2, <2>2, <2>4 DEF Backed, Live
<1> QED
  BY <1>1, <1>2, <1>4 DEF LockInv

LEMMA NextSoundInv ==
  ASSUME Grace > 0, ~ClockMayStepBack
  PROVE  SoundInv /\ [Next]_vars => SoundInv'
<1> SUFFICES ASSUME SoundInv, [Next]_vars
             PROVE  Sound(tasks') /\ Unfinished(tasks') /\ Sound(disk'.tasks) /\ LockInv'
  BY NextBookingInv DEF SoundInv, Sound, Unfinished, Live
<1>0. /\ clock \in Nat /\ timer \in Nat /\ tasks \in TaskTable /\ ConflictFree(tasks)
      /\ PreemptedBegan(tasks, clock) /\ PreemptedBegan(tasks, timer)
      /\ Sound(tasks) /\ Unfinished(tasks) /\ Sound(disk.tasks) /\ LockInv
      /\ lock \in [Devices -> Lock \cup {NoLock}] /\ clock <= clock
  BY DEF SoundInv, BookingInv, TypeOK
<1> DEFINE ts == Cleanup(tasks, clock)
<1>ts. /\ ts \in TaskTable /\ PreemptedBegan(ts, clock)
       /\ Sound(ts) /\ Settled(ts, clock) /\ Unfinished(ts)
  BY CleanedUp
<1>u. ASSUME NEW after \in TaskTable, NEW now \in Nat, now <= clock,
             Sound(after), Unfinished(after), clock' = clock,
             UpdateDeviceStateAndSchedule(after, now) \/ Stopped
      PROVE  Sound(tasks') /\ Unfinished(tasks') /\ LockInv'
  <2>1. tasks' \in {after, NoTasks}
    BY <1>u DEF UpdateDeviceStateAndSchedule, Stopped
  <2> QED
    BY <1>0, <1>u, <2>1, UpdateLocks, NoTasksSound
<1>1. CASE RejectRequest
  BY <1>0, <1>ts, <1>1, RejectKeepsLocks DEF RejectRequest
<1>2. ASSUME NEW header \in Headers, NEW request \in Requests,
             AcceptRequest(header, request) \/ CrashInRequest(header, request)
      PROVE  Sound(tasks') /\ Unfinished(tasks') /\ Sound(disk'.tasks) /\ LockInv'
  <2> DEFINE after(span) == WithNewTask(ts, header.id, NewTask(header, request, span),
                                        Conflicting(ts, request), clock)
  <2>1. Acceptable(ts, header, request) /\ clock' = clock
    BY <1>2 DEF AcceptRequest, CrashInRequest
  <2>2. PICK span \in SpanOf(request) :
          /\ disk' \in SaveState(after(span))
          /\ UpdateDeviceStateAndSchedule(after(span), clock) \/ Stopped
    BY <1>2 DEF AcceptRequest, CrashInRequest
  <2>3. after(span) \in TaskTable
    BY <2>1, AcceptedTypes DEF SoundInv, BookingInv
  <2> HIDE DEF ts
  <2>4. Sound(after(span)) /\ Unfinished(after(span))
    BY <1>0, <1>ts, <2>1, GrantSound
  <2> HIDE DEF after
  <2>5. Sound(disk'.tasks)
    BY <2>2, <2>4, StateFileSound
  <2> QED
    BY <1>0, <1>u, <2>1, <2>2, <2>3, <2>4, <2>5
<1>3. ASSUME NEW agent \in Agents, NEW id \in TaskIds,
             CancelTask(agent, id) \/ CrashInCancel(agent, id)
      PROVE  Sound(tasks') /\ Unfinished(tasks') /\ Sound(disk'.tasks) /\ LockInv'
  <2> DEFINE left  == [tasks EXCEPT ![id] = NoTask]
             after == Cleanup(left, clock)
  <2>1. /\ left \in TaskTable
        /\ \A i \in Live(left) : i \in Live(tasks) /\ left[i] = tasks[i]
    BY <1>0 DEF TaskTable, Live
  <2> HIDE DEF left
  <2>2. Sound(left) /\ PreemptedBegan(left, clock)
    BY <1>0, <2>1 DEF Sound, PreemptedBegan
  <2>3. after \in TaskTable /\ Sound(after) /\ Unfinished(after)
    BY <1>0, <2>1, <2>2, CleanupFacts, CleanupSound, CleanupUnfinished
  <2>4. /\ disk' \in SaveState(after) /\ clock' = clock
        /\ UpdateDeviceStateAndSchedule(after, clock) \/ Stopped
    BY <1>3 DEF CancelTask, CrashInCancel, left
  <2> HIDE DEF after
  <2>5. Sound(disk'.tasks)
    BY <2>3, <2>4, StateFileSound
  <2> QED
    BY <1>0, <1>u, <2>3, <2>4, <2>5
<1>4. CASE TimerFires
  <2> DEFINE after == Cleanup(tasks, timer)
  <2>1. after \in TaskTable /\ Sound(after) /\ Unfinished(after)
    BY <1>0, CleanupFacts, CleanupSound, CleanupUnfinished
  <2>2. /\ UpdateDeviceStateAndSchedule(after, timer) /\ UNCHANGED <<clock, disk>>
        /\ timer <= clock
    BY <1>4 DEF TimerFires
  <2> HIDE DEF after
  <2> QED
    BY <1>0, <1>u, <2>1, <2>2
<1>5. CASE Restart
  <2> DEFINE after == LoadState(clock)
  <2>1. after \in TaskTable /\ Sound(after) /\ Unfinished(after)
    BY StateFileKeeps, StateFileSound DEF SoundInv
  <2>2. UpdateDeviceStateAndSchedule(after, clock) /\ UNCHANGED <<clock, disk>>
    BY <1>5 DEF Restart
  <2> HIDE DEF after
  <2> QED
    BY <1>0, <1>u, <2>1, <2>2
<1>6. CASE Crash
  <2>1. tasks' = NoTasks /\ up' = FALSE /\ UNCHANGED disk
    BY <1>6 DEF Crash, Stopped
  <2> QED
    BY <1>0, <2>1, NoTasksSound DEF LockInv
<1>7. CASE Tick
  <2>1. clock' = clock + 1 /\ UNCHANGED <<up, tasks, lock, timer, disk>>
    BY <1>7 DEF Tick
  <2>2. ASSUME NEW d \in Devices, up, lock[d] # NoLock
        PROVE  /\ timer <= RoundUp(lock[d].until)
               /\ clock + 1 < lock[d].until => Backed(d)'
    <3>1. lock[d].until \in Nat /\ lock[d].task \in TaskIds
      BY <1>0, <2>2 DEF Lock
    <3>2. /\ timer <= RoundUp(lock[d].until)
          /\ clock + 1 < lock[d].until => Backed(d)
      BY <1>0, <2>2, <3>1 DEF LockInv
    <3>3. ASSUME Backed(d)
          PROVE  Backed(d)'
      <4>1. PICK x \in tasks[lock[d].task].slots[d] :
              x.start <= clock /\ x.start <= timer /\ x.end = lock[d].until
        BY <3>3 DEF Backed
      <4>2. x \in Slices
        BY <1>0, <3>1, <3>3 DEF Backed, TaskTable, Task
      <4>3. x.start <= clock + 1
        BY <1>0, <4>1, <4>2 DEF Slices
      <4> QED
        BY <2>1, <3>3, <4>1, <4>3 DEF Backed
    <3> QED
      BY <3>2, <3>3
  <2>3. LockInv'
    BY <2>1, <2>2 DEF LockInv
  <2> QED
    BY <1>0, <2>1, <2>3
<1>8. CASE ClockStepsBack
  BY <1>8 DEF ClockStepsBack
<1>9. CASE UNCHANGED vars
  BY <1>0, <1>9 DEF vars, LockInv, Backed
<1> QED
  BY <1>1, <1>2, <1>3, <1>4, <1>5, <1>6, <1>7, <1>8, <1>9 DEF Next

\* For any agents, devices and requests, and through crashes and restarts: as
\* long as the update is not overdue, check_lock opens a device only to an
\* agent with a slot there that has begun, and for less than a second after
\* the slot ended.
THEOREM LocksBacked ==
  ASSUME Grace > 0, ~ClockMayStepBack
  PROVE  Spec => []LockIsBacked
<1>1. SoundInv => LockIsBacked
  <2> SUFFICES ASSUME SoundInv, NEW d \in Devices, up, clock < timer, lock[d] # NoLock
               PROVE  /\ clock < RoundUp(lock[d].until)
                      /\ clock < lock[d].until => Backed(d)
    BY DEF LockIsBacked, Backed
  <2>1. lock[d] \in Lock /\ clock \in Nat /\ timer \in Nat
    BY DEF SoundInv, BookingInv, TypeOK
  <2>2. RoundUp(lock[d].until) \in Nat
    BY <2>1, RoundUpBound DEF Lock
  <2> QED
    BY <2>1, <2>2 DEF SoundInv, LockInv
<1>2. SoundInv /\ [Next]_vars => SoundInv'
  BY NextSoundInv
<1> QED
  BY <1>1, <1>2, InitSoundInv, PTL DEF Spec

\* A slot that is on or to come is in the table, or waits for the next update
\* or for a preempted task in its grace period.
HolderInv ==
  up => \A i \in Live(tasks), d \in Devices : \A x \in tasks[i].slots[d] :
          clock < x.end =>
            \/ timer <= RoundUp(x.start)
            \/ /\ lock[d] # NoLock
               /\ \/ lock[d].until <= clock
                  \/ lock[d].task = i
                  \/ tasks[lock[d].task].state = "PREEMPTED"

\* The update is due again when the next slot of any task begins, and enters
\* the slots that are on: a preempted task's before a running one's.
LEMMA UpdateHolds ==
  ASSUME NEW ts \in TaskTable, NEW now \in Nat, clock \in Nat, now <= clock,
         ConflictFree(ts), WellFormed(ts), Sound(ts), Settled(ts, now),
         UpdateDeviceStateAndSchedule(ts, now) \/ Stopped, clock' = clock
  PROVE  HolderInv'
<1>1. CASE Stopped
  BY <1>1 DEF Stopped, HolderInv
<1>2. CASE ~Stopped
  <2>1. /\ tasks' = ts /\ lock' = ScheduleState(ts, now)
        /\ timer' \in NextUpdate(ts, now)
    BY <1>2 DEF UpdateDeviceStateAndSchedule
  <2> SUFFICES ASSUME NEW i \in Live(ts), NEW d \in Devices,
                      NEW x \in ts[i].slots[d], clock < x.end
               PROVE  \/ timer' <= RoundUp(x.start)
                      \/ /\ lock'[d] # NoLock
                         /\ \/ lock'[d].task = i
                            \/ ts[lock'[d].task].state = "PREEMPTED"
    BY <2>1 DEF HolderInv
  <2>2. /\ ts[i].slots[d] \in SUBSET Slices /\ x \in Slices
        /\ Apart(ts[i].slots[d])
        /\ \A y \in ts[i].slots[d] : y.start < y.end
    BY DEF Live, TaskTable, Task, Sound, SoundTask, WellFormed, Lasting
  <2>3. now < x.end
    BY <2>2 DEF Slices
  <2>4. PICK y \in FirstSlot(ts[i].slots[d], now) : y = x \/ y.end <= x.start
    BY <2>2, <2>3, FirstSlotExists
  <2>5. /\ y \in Slices /\ y.start < y.end
        /\ y.end > now \/ y.start >= now
    BY <2>2, MakeCurrentKeeps DEF FirstSlot
  <2>6. CASE now < x.start
    <3> DEFINE next == IF ContainsIncludeStart(y, now) THEN y.end ELSE y.start
    <3>1. next \in Nat /\ next <= x.start /\ x.start \in Nat
      BY <2>2, <2>4, <2>5, <2>6 DEF ContainsIncludeStart, Slices
    <3>2. RoundUp(next) <= RoundUp(x.start)
      BY <3>1, RoundUpMonotone
    <3>3. RoundUp(next) \in NextEventTime(ts[i].slots[d], now)
      BY DEF NextEventTime
    <3>4. timer' <= RoundUp(next)
      BY <2>1, <3>3, NextUpdateFirst
    <3>5. timer' \in Nat /\ RoundUp(next) \in Nat /\ RoundUp(x.start) \in Nat
      BY <2>1, <3>1, NextUpdateBound, RoundUpBound
    <3> QED
      BY <3>2, <3>4, <3>5
  <2>7. CASE x.start <= now
    <3> DEFINE on == CurrentOn(ts, d, ts[i].state, now)
    <3>1. x \in CurrentSlot(ts[i].slots[d], now)
      BY <2>2, <2>3, <2>4, <2>5, <2>7 DEF CurrentSlot, ContainsIncludeStart, Slices
    <3>2. ts[i].state \in {"RUNNING", "PREEMPTED"} /\ i \in on
      BY <2>3, <2>7, <3>1 DEF Settled, CurrentOn
    <3>3. \A j \in on : j = i
      BY <3>2, NoAssertionFails DEF AssertionFails
    <3> DEFINE preempted == CurrentOn(ts, d, "PREEMPTED", now)
               holders == IF preempted # {} THEN preempted
                          ELSE CurrentOn(ts, d, "RUNNING", now)
               h == CHOOSE j \in holders : TRUE
               slot == CHOOSE z \in CurrentSlot(ts[h].slots[d], now) : TRUE
    <3>4. lock'[d] = IF holders = {} THEN NoLock
            ELSE [agent |-> ts[h].agent, task |-> h, until |-> slot.end]
      BY <2>1 DEF ScheduleState
    <3>5. holders # {} /\ h \in holders
      BY <3>2
    <3>6. h = i \/ ts[h].state = "PREEMPTED"
      BY <3>2, <3>3, <3>5 DEF CurrentOn
    <3> HIDE DEF h, holders
    <3>7. /\ h \in TaskIds /\ ts[h].agent \in Agents
          /\ ts[h].slots[d] \in SUBSET Slices
          /\ slot \in CurrentSlot(ts[h].slots[d], now)
      <4>1. h \in Live(ts) /\ CurrentSlot(ts[h].slots[d], now) # {}
        BY <3>5 DEF CurrentOn, holders
      <4>2. h \in TaskIds /\ ts[h] \in Task
        BY <4>1 DEF Live, TaskTable
      <4> QED
        BY <4>1, <4>2 DEF Task
    <3> HIDE DEF slot
    <3>8. slot.end \in Nat
      BY <3>7, CurrentSlotHolds DEF Slices
    <3>9. [agent |-> ts[h].agent, task |-> h, until |-> slot.end] # NoLock
      BY <3>7, <3>8, SentinelsAssumption DEF Lock
    <3> QED
      BY <3>4, <3>5, <3>6, <3>9
  <2> QED
    BY <2>2, <2>6, <2>7 DEF Slices
<1> QED
  BY <1>1, <1>2

\* A clean-up leaves a preempted task preempted until its entry ends.
LEMMA RejectKeepsHolders ==
  ASSUME SoundInv, HolderInv, RejectRequest
  PROVE  HolderInv'
<1>1. /\ clock \in Nat /\ tasks \in TaskTable /\ Sound(tasks) /\ Unfinished(tasks)
      /\ PreemptedBegan(tasks, clock) /\ LockInv /\ up
      /\ lock \in [Devices -> Lock \cup {NoLock}]
  BY DEF SoundInv, BookingInv, TypeOK, RejectRequest
<1> DEFINE c == Cleanup(tasks, clock)
<1>2. tasks' = c /\ UNCHANGED <<clock, up, lock, timer>>
  BY DEF RejectRequest
<1>3. \A j \in Live(tasks) : \A d \in Devices : \A y \in tasks[j].slots[d] :
        clock < y.end /\ tasks[j].state = "PREEMPTED" => c[j].state = "PREEMPTED"
  BY <1>1, CleanupSound DEF Unfinished
<1>4. ASSUME NEW i \in Live(c), NEW d \in Devices, NEW x \in c[i].slots[d]
      PROVE  i \in Live(tasks) /\ x \in tasks[i].slots[d]
  <2>1. i \in Live(tasks) /\ c[i] = TaskMakeCurrent(tasks[i], clock)
    BY <1>1, CleanupFacts
  <2>2. tasks[i] \in Task
    BY <1>1, <2>1 DEF Live, TaskTable
  <2> HIDE DEF c
  <2> QED
    BY <1>1, <1>4, <2>1, <2>2, TaskMakeCurrentFacts
<1> HIDE DEF c
<1>5. ASSUME NEW d \in Devices, lock[d] # NoLock, ~(lock[d].until <= clock),
             tasks[lock[d].task].state = "PREEMPTED"
      PROVE  c[lock[d].task].state = "PREEMPTED"
  <2>1. lock[d] \in Lock
    BY <1>1, <1>5
  <2>2. clock < lock[d].until
    BY <1>1, <1>5, <2>1 DEF Lock
  <2>3. Backed(d)
    BY <1>1, <1>5, <2>2 DEF LockInv
  <2>4. /\ lock[d].task \in Live(tasks)
        /\ \E y \in tasks[lock[d].task].slots[d] : clock < y.end
    BY <2>1, <2>2, <2>3 DEF Backed, Live, Lock
  <2> QED
    BY <1>3, <1>5, <2>4
<1> QED
  BY <1>1, <1>2, <1>4, <1>5 DEF HolderInv

\* The steps of the agent: it stops, refuses a request, updates with a table in
\* good order, or waits.
UpdatesWith(ts, now) ==
  /\ ts \in TaskTable /\ now <= clock
  /\ ConflictFree(ts) /\ PreemptedBegan(ts, now) /\ WellFormed(ts)
  /\ Sound(ts) /\ Settled(ts, now)
  /\ UpdateDeviceStateAndSchedule(ts, now) /\ clock' = clock

LEMMA HandlersUpdate ==
  ASSUME Grace > 0, ~ClockMayStepBack, LastingRequests, AssertionInv, SoundInv
  PROVE  /\ \A header \in Headers, request \in Requests :
              AcceptRequest(header, request) =>
                LET ts == Cleanup(tasks, clock)
                IN  \E span \in SpanOf(request) :
                      UpdatesWith(WithNewTask(ts, header.id,
                                              NewTask(header, request, span),
                                              Conflicting(ts, request), clock), clock)
         /\ \A agent \in Agents, id \in TaskIds :
              CancelTask(agent, id) =>
                UpdatesWith(Cleanup([tasks EXCEPT ![id] = NoTask], clock), clock)
         /\ TimerFires => UpdatesWith(Cleanup(tasks, timer), timer)
         /\ Restart => UpdatesWith(LoadState(clock), clock)
<1>0. /\ clock \in Nat /\ timer \in Nat /\ tasks \in TaskTable /\ ConflictFree(tasks)
      /\ PreemptedBegan(tasks, clock) /\ PreemptedBegan(tasks, timer)
      /\ WellFormed(tasks) /\ Sound(tasks) /\ clock <= clock /\ BookingInv
  BY DEF AssertionInv, SoundInv, BookingInv, TypeOK
<1> DEFINE ts == Cleanup(tasks, clock)
<1>ts. /\ ts \in TaskTable /\ ConflictFree(ts) /\ PreemptedBegan(ts, clock)
       /\ WellFormed(ts) /\ Sound(ts) /\ Unfinished(ts)
  BY <1>0, CleanedUp, CleanupKeeps, CleanupWellFormed
<1>1. ASSUME NEW header \in Headers, NEW request \in Requests,
             AcceptRequest(header, request)
      PROVE  \E span \in SpanOf(request) :
               UpdatesWith(WithNewTask(ts, header.id, NewTask(header, request, span),
                                       Conflicting(ts, request), clock), clock)
  <2> DEFINE after(span) == WithNewTask(ts, header.id, NewTask(header, request, span),
                                        Conflicting(ts, request), clock)
  <2>1. Acceptable(ts, header, request) /\ clock' = clock
    BY <1>1 DEF AcceptRequest
  <2>2. PICK span \in SpanOf(request) : UpdateDeviceStateAndSchedule(after(span), clock)
    BY <1>1 DEF AcceptRequest
  <2> HIDE DEF ts
  <2>3. /\ after(span) \in TaskTable /\ ConflictFree(after(span))
        /\ PreemptedBegan(after(span), clock)
        /\ WellFormed(after(span)) /\ Sound(after(span)) /\ Settled(after(span), clock)
    BY <1>0, <1>ts, <2>1, GrantKeeps, GrantWellFormed, GrantSound
  <2>4. UpdatesWith(after(span), clock)
    <3> HIDE DEF after
    <3> QED
      BY <1>0, <2>1, <2>2, <2>3 DEF UpdatesWith
  <2> QED
    BY <2>4
<1>2. ASSUME NEW agent \in Agents, NEW id \in TaskIds, CancelTask(agent, id)
      PROVE  UpdatesWith(Cleanup([tasks EXCEPT ![id] = NoTask], clock), clock)
  <2> DEFINE left  == [tasks EXCEPT ![id] = NoTask]
             after == Cleanup(left, clock)
  <2>1. /\ left \in TaskTable
        /\ \A i \in Live(left) : i \in Live(tasks) /\ left[i] = tasks[i]
    BY <1>0 DEF TaskTable, Live
  <2>2. UpdateDeviceStateAndSchedule(after, clock) /\ clock' = clock
    BY <1>2 DEF CancelTask
  <2> HIDE DEF left
  <2>3. /\ ConflictFree(left) /\ PreemptedBegan(left, clock)
        /\ WellFormed(left) /\ Sound(left)
    BY <1>0, <2>1 DEF ConflictFree, PreemptedBegan, Contested, WellFormed, Sound
  <2>4. /\ after \in TaskTable /\ ConflictFree(after) /\ PreemptedBegan(after, clock)
        /\ WellFormed(after) /\ Sound(after) /\ Settled(after, clock)
    BY <1>0, <2>1, <2>3, CleanupFacts, CleanupKeeps, CleanupWellFormed, CleanupSound
  <2>5. UpdatesWith(after, clock)
    <3> HIDE DEF after
    <3> QED
      BY <1>0, <2>2, <2>4 DEF UpdatesWith
  <2> QED
    BY <2>5 DEF left
<1>3. ASSUME TimerFires
      PROVE  UpdatesWith(Cleanup(tasks, timer), timer)
  <2> DEFINE after == Cleanup(tasks, timer)
  <2>1. /\ after \in TaskTable /\ ConflictFree(after) /\ PreemptedBegan(after, timer)
        /\ WellFormed(after) /\ Sound(after) /\ Settled(after, timer)
    BY <1>0, CleanupFacts, CleanupKeeps, CleanupWellFormed, CleanupSound
  <2>2. /\ UpdateDeviceStateAndSchedule(after, timer) /\ clock' = clock
        /\ timer <= clock
    BY <1>3 DEF TimerFires
  <2> HIDE DEF after
  <2>3. UpdatesWith(after, timer)
    BY <2>1, <2>2 DEF UpdatesWith
  <2> QED
    BY <2>3 DEF after
<1>4. ASSUME Restart
      PROVE  UpdatesWith(LoadState(clock), clock)
  <2> DEFINE after == LoadState(clock)
  <2>1. /\ after \in TaskTable /\ ConflictFree(after) /\ PreemptedBegan(after, clock)
        /\ WellFormed(after) /\ Sound(after) /\ Settled(after, clock)
    BY <1>0, StateFileKeeps, StateFileWellFormed, StateFileSound
  <2>2. UpdateDeviceStateAndSchedule(after, clock) /\ clock' = clock
    BY <1>4 DEF Restart
  <2> HIDE DEF after
  <2>3. UpdatesWith(after, clock)
    BY <1>0, <2>1, <2>2 DEF UpdatesWith
  <2> QED
    BY <2>3 DEF after
<1> QED
  BY <1>1, <1>2, <1>3, <1>4

LEMMA StepsOfTheAgent ==
  ASSUME Grace > 0, ~ClockMayStepBack, LastingRequests,
         AssertionInv, SoundInv, [Next]_vars
  PROVE  \/ Stopped \/ RejectRequest \/ Tick \/ UNCHANGED vars
         \/ \E ts : \E now \in Nat : UpdatesWith(ts, now)
<1>1. clock \in Nat /\ timer \in Nat
  BY DEF SoundInv, BookingInv, TypeOK
<1>2. /\ Crash => Stopped
      /\ \A header \in Headers, request \in Requests :
           CrashInRequest(header, request) => Stopped
      /\ \A agent \in Agents, id \in TaskIds : CrashInCancel(agent, id) => Stopped
      /\ ~ClockStepsBack
  BY DEF Crash, CrashInRequest, CrashInCancel, ClockStepsBack
<1> QED
  BY <1>1, <1>2, HandlersUpdate DEF Next

LEMMA NextHolderInv ==
  ASSUME Grace > 0, ~ClockMayStepBack, LastingRequests,
         AssertionInv, SoundInv, HolderInv, [Next]_vars
  PROVE  HolderInv'
<1>1. CASE Stopped
  BY <1>1 DEF Stopped, HolderInv
<1>2. CASE RejectRequest
  BY <1>2, RejectKeepsHolders
<1>3. CASE Tick
  <2>1. clock' = clock + 1 /\ UNCHANGED <<up, tasks, lock, timer>>
    BY <1>3 DEF Tick
  <2>2. ASSUME NEW n \in Nat
        PROVE  (clock + 1 < n => clock < n) /\ (n <= clock => n <= clock + 1)
    BY DEF SoundInv, BookingInv, TypeOK
  <2>3. /\ \A i \in Live(tasks), d \in Devices : \A x \in tasks[i].slots[d] : x.end \in Nat
        /\ \A d \in Devices : lock[d] # NoLock => lock[d].until \in Nat
    BY DEF Live, TaskTable, Task, Slices, SoundInv, BookingInv, TypeOK, Lock
  <2> QED
    BY <2>1, <2>2, <2>3 DEF HolderInv, Live
<1>4. CASE UNCHANGED vars
  BY <1>4 DEF vars, HolderInv, Live
<1>5. ASSUME NEW ts, NEW now \in Nat, UpdatesWith(ts, now)
      PROVE  HolderInv'
  <2>1. clock \in Nat
    BY DEF SoundInv, BookingInv, TypeOK
  <2> QED
    BY <1>5, <2>1, UpdateHolds DEF UpdatesWith
<1> QED
  BY <1>1, <1>2, <1>3, <1>4, <1>5, StepsOfTheAgent

\* When no client asks for a slot of no length: as long as the update is not
\* overdue, an agent passes check_lock from the first whole second of its slot
\* to the end of it, unless a preempted task has, or just had, its grace period.
THEOREM HoldersServed ==
  ASSUME Grace > 0, ~ClockMayStepBack, LastingRequests
  PROVE  Spec => []HolderHasLock
<1> DEFINE Inv == AssertionInv /\ SoundInv /\ HolderInv
<1>1. Init => Inv
  <2>1. ASSUME Init
        PROVE  HolderInv
    BY <2>1 DEF Init, HolderInv, Live, NoTasks
  <2> QED
    BY <2>1, InitAssertionInv, InitSoundInv
<1>2. Inv /\ [Next]_vars => Inv'
  BY NextAssertionInv, NextSoundInv, NextHolderInv
<1>3. Inv => HolderHasLock
  <2> SUFFICES ASSUME Inv, NEW i \in Live(tasks), NEW d \in Devices,
                      NEW x \in tasks[i].slots[d],
                      up, clock < timer, RoundUp(x.start) <= clock, clock < x.end
               PROVE  \/ CheckLock(d, tasks[i].agent)
                      \/ lock[d] # NoLock /\ lock[d].until <= clock
                      \/ \E j \in Live(tasks) \ {i} :
                           /\ tasks[j].state = "PREEMPTED"
                           /\ CheckLock(d, tasks[j].agent)
    BY DEF HolderHasLock
  <2>1. /\ clock \in Nat /\ timer \in Nat /\ tasks \in TaskTable
        /\ lock \in [Devices -> Lock \cup {NoLock}]
    BY DEF SoundInv, BookingInv, TypeOK
  <2>2. x.start \in Nat
    BY <2>1 DEF Live, TaskTable, Task, Slices
  <2>3. ~(timer <= RoundUp(x.start))
    BY <2>1, <2>2, RoundUpBound
  <2>4. /\ lock[d] # NoLock
        /\ \/ lock[d].until <= clock
           \/ lock[d].task = i
           \/ tasks[lock[d].task].state = "PREEMPTED"
    BY <2>3 DEF HolderInv
  <2>5. lock[d] \in Lock
    BY <2>1, <2>4
  <2>6. lock[d].until <= clock \/ Backed(d)
    BY <2>1, <2>4, <2>5 DEF SoundInv, LockInv, Lock
  <2>7. ASSUME Backed(d)
        PROVE  lock[d].task \in Live(tasks) /\ CheckLock(d, tasks[lock[d].task].agent)
    BY <2>4, <2>5, <2>7 DEF Backed, Live, CheckLock, Lock
  <2> QED
    BY <2>4, <2>6, <2>7
<1> QED
  BY <1>1, <1>2, <1>3, PTL DEF Spec

-----------------------------------------------------------------------------
(* Locks are withdrawn fairly. *)

\* A task with a slot that is on is entered by an update, unless it is not
\* preempted and another task that is has its grace period on the device.
LEMMA UpdateEnters ==
  ASSUME NEW ts \in TaskTable, NEW now \in Nat,
         ConflictFree(ts), WellFormed(ts), Sound(ts), Settled(ts, now),
         UpdateDeviceStateAndSchedule(ts, now), up',
         NEW i \in Live(ts), NEW d \in Devices, NEW x \in ts[i].slots[d],
         x.start <= now, now < x.end,
         ts[i].state = "PREEMPTED" \/ CurrentOn(ts, d, "PREEMPTED", now) = {}
  PROVE  /\ lock'[d] # NoLock
         /\ lock'[d].task = i /\ lock'[d].until = x.end
<1>1. lock' = ScheduleState(ts, now)
  BY DEF UpdateDeviceStateAndSchedule, Stopped
<1>2. /\ i \in TaskIds /\ ts[i] \in Task
      /\ ts[i].slots[d] \in SUBSET Slices /\ x \in Slices
      /\ Apart(ts[i].slots[d])
      /\ \A y \in ts[i].slots[d] : y.start < y.end
  BY DEF Live, TaskTable, Task, Sound, SoundTask, WellFormed, Lasting
<1>3. CurrentSlot(ts[i].slots[d], now) = {x}
  BY <1>2, SlotIsCurrent
<1>4. ts[i].state \in {"RUNNING", "PREEMPTED"}
  BY DEF Settled
<1>5. \A j \in CurrentOn(ts, d, ts[i].state, now) : j = i
  <2>1. i \in CurrentOn(ts, d, ts[i].state, now)
    BY <1>3 DEF CurrentOn
  <2> QED
    BY <1>4, <2>1, NoAssertionFails DEF AssertionFails
<1> DEFINE preempted == CurrentOn(ts, d, "PREEMPTED", now)
           holders == IF preempted # {} THEN preempted
                      ELSE CurrentOn(ts, d, "RUNNING", now)
           h == CHOOSE j \in holders : TRUE
           slot == CHOOSE z \in CurrentSlot(ts[h].slots[d], now) : TRUE
<1>6. holders = {i}
  BY <1>3, <1>4, <1>5 DEF CurrentOn
<1>7. lock'[d] = IF holders = {} THEN NoLock
        ELSE [agent |-> ts[h].agent, task |-> h, until |-> slot.end]
  BY <1>1 DEF ScheduleState
<1>8. h = i
  BY <1>6
<1> HIDE DEF h, holders
<1>9. slot = x
  BY <1>3, <1>8
<1> HIDE DEF slot
<1>10. lock'[d] = [agent |-> ts[i].agent, task |-> i, until |-> x.end]
  BY <1>6, <1>7, <1>8, <1>9
<1>11. ts[i].agent \in Agents /\ x.end \in Nat
  BY <1>2 DEF Task, Slices
<1>12. [agent |-> ts[i].agent, task |-> i, until |-> x.end] # NoLock
  BY <1>2, <1>11, SentinelsAssumption DEF Lock
<1> QED
  BY <1>10, <1>12

\* While the agent runs, a preempted task holds every device it has a slot on.
ShownInv ==
  /\ up => \A j \in Live(tasks), d \in Devices :
             tasks[j].state = "PREEMPTED" /\ tasks[j].slots[d] # {} =>
               lock[d] # NoLock /\ lock[d].task = j
  /\ ~up => \A d \in Devices : lock[d] = NoLock

LEMMA UpdateShows ==
  ASSUME NEW ts \in TaskTable, NEW now \in Nat,
         ConflictFree(ts), PreemptedBegan(ts, now), WellFormed(ts),
         Sound(ts), Settled(ts, now),
         UpdateDeviceStateAndSchedule(ts, now) \/ Stopped
  PROVE  ShownInv'
<1>1. CASE Stopped
  BY <1>1 DEF Stopped, ShownInv
<1>2. CASE ~Stopped
  <2>1. UpdateDeviceStateAndSchedule(ts, now) /\ tasks' = ts /\ up' = TRUE
    BY <1>2 DEF UpdateDeviceStateAndSchedule
  <2>2. ASSUME NEW j \in Live(ts), NEW d \in Devices,
               ts[j].state = "PREEMPTED", NEW y \in ts[j].slots[d]
        PROVE  lock'[d] # NoLock /\ lock'[d].task = j
    <3>1. /\ y \in Slices /\ y.start < y.end /\ ts[j].span \in Slices
          /\ y.start <= ts[j].span.start /\ ts[j].span.start <= now
          /\ y.end > now \/ y.start >= now
      BY <2>2 DEF Live, TaskTable, Task, Sound, SoundTask, Settled, WellFormed,
                  Lasting, PreemptedBegan
    <3>2. y.start <= now /\ now < y.end
      BY <3>1 DEF Slices
    <3> QED
      BY <2>1, <2>2, <3>2, UpdateEnters
  <2> QED
    BY <2>1, <2>2 DEF ShownInv
<1> QED
  BY <1>1, <1>2

LEMMA InitShownInv == Init => ShownInv
BY DEF Init, ShownInv, Live, NoTasks

LEMMA NextShownInv ==
  ASSUME Grace > 0, ~ClockMayStepBack, LastingRequests,
         AssertionInv, SoundInv, ShownInv, [Next]_vars
  PROVE  ShownInv'
<1>1. CASE Stopped
  BY <1>1 DEF Stopped, ShownInv
<1>2. CASE RejectRequest
  <2>1. /\ clock \in Nat /\ tasks \in TaskTable
        /\ tasks' = Cleanup(tasks, clock) /\ up /\ UNCHANGED <<up, lock>>
    BY <1>2 DEF SoundInv, BookingInv, TypeOK, RejectRequest
  <2>2. ASSUME NEW j \in Live(tasks'), NEW d \in Devices,
               tasks'[j].state = "PREEMPTED", tasks'[j].slots[d] # {}
        PROVE  j \in Live(tasks) /\ tasks[j].state = "PREEMPTED" /\ tasks[j].slots[d] # {}
    <3>1. j \in Live(tasks) /\ tasks'[j] = TaskMakeCurrent(tasks[j], clock)
      BY <2>1, CleanupFacts
    <3>2. tasks[j] \in Task
      BY <2>1, <3>1 DEF Live, TaskTable
    <3> QED
      BY <2>1, <2>2, <3>1, <3>2, TaskMakeCurrentFacts
  <2> QED
    BY <2>1, <2>2 DEF ShownInv, Live
<1>3. CASE Tick \/ UNCHANGED vars
  BY <1>3 DEF Tick, vars, ShownInv, Live
<1>4. ASSUME NEW ts, NEW now \in Nat, UpdatesWith(ts, now)
      PROVE  ShownInv'
  BY <1>4, UpdateShows DEF UpdatesWith
<1> QED
  BY <1>1, <1>2, <1>3, <1>4, StepsOfTheAgent

\* What an update makes of an entry that is still to end, when the table it
\* works with has the task of the entry and no newly preempted one.
LEMMA EntryKept ==
  ASSUME AssertionInv, SoundInv, ShownInv, up, up',
         NEW ts, NEW now \in Nat, UpdatesWith(ts, now),
         NEW d \in Devices, lock[d] # NoLock, clock < lock[d].until,
         NEW x \in tasks[lock[d].task].slots[d],
         x.start <= now, x.end = lock[d].until,
         lock[d].task \in Live(ts), x \in ts[lock[d].task].slots[d],
         \A j \in Live(ts) : ts[j].state = "PREEMPTED" =>
           /\ j \in Live(tasks) /\ tasks[j].state = "PREEMPTED"
           /\ ts[j].slots[d] \subseteq tasks[j].slots[d]
  PROVE  /\ lock'[d] # NoLock
         /\ lock'[d].task = lock[d].task /\ lock'[d].until = lock[d].until
<1> DEFINE i == lock[d].task
<1>1. lock[d] \in Lock /\ clock \in Nat
  BY DEF SoundInv, BookingInv, TypeOK
<1>2. now < x.end
  BY <1>1 DEF UpdatesWith, Lock
<1>3. ASSUME NEW j \in CurrentOn(ts, d, "PREEMPTED", now)
      PROVE  j = i /\ ts[i].state = "PREEMPTED"
  <2>1. j \in Live(ts) /\ ts[j].state = "PREEMPTED" /\ ts[j].slots[d] # {}
    BY DEF CurrentOn, CurrentSlot, FirstSlot, MakeCurrent
  <2> QED
    BY <2>1 DEF ShownInv
<1>4. ts[i].state = "PREEMPTED" \/ CurrentOn(ts, d, "PREEMPTED", now) = {}
  BY <1>3
<1> QED
  BY <1>2, <1>4, UpdateEnters DEF UpdatesWith

\* Preempting a task with a slot that is on leaves it that slot, or the grace
\* period of it.
LEMMA PreemptLeaves ==
  ASSUME Grace > 0, NEW task \in Task, NEW now \in Nat,
         SoundTask(task), Lasting(task.slots), task.state # "FINISHED",
         task.state = "PREEMPTED" => task.span.start <= now,
         NEW d \in Devices, NEW x \in task.slots[d], x.start <= now, now < x.end
  PROVE  LET c == Preempt(task, now)
         IN  /\ c.state = "PREEMPTED"
             /\ \E y \in c.slots[d] :
                  /\ y.start = x.start /\ now < y.end
                  /\ y = x \/ (task.state # "PREEMPTED" /\ y.end = now + Grace)
<1> DEFINE current == TaskMakeCurrent(task, now)
           pruned  == [e \in Devices |-> PruneToCurrent(current.slots[e], Grace, now)]
           cut     == TimeSlice(x.start, IF x.end > now + Grace THEN now + Grace ELSE x.end)
<1>1. /\ current \in Task /\ SoundTask(current)
      /\ \A e \in Devices : current.slots[e] \subseteq task.slots[e]
      /\ task.state = "PREEMPTED" => current.state \in {"PREEMPTED", "FINISHED"}
      /\ x \in current.slots[d]
      /\ current.state \in {"RUNNING", "PREEMPTED"}
  BY TaskMakeCurrentFacts, TaskMakeCurrentSound
<1>2. current.slots[d] \in SUBSET Slices /\ x \in Slices /\ Grace \in Nat
  BY <1>1, ConstantsAssumption DEF Task
<1> HIDE DEF current
<1>3. CASE current.state = "PREEMPTED"
  <2>1. Preempt(task, now) = current
    BY <1>3 DEF Preempt, current
  <2> QED
    BY <1>1, <1>3, <2>1
<1>4. CASE current.state = "RUNNING"
  <2>1. Apart(current.slots[d]) /\ \A y \in current.slots[d] : y.start < y.end
    BY <1>1 DEF SoundTask, Lasting
  <2>2. CurrentSlot(current.slots[d], now) = {x}
    BY <1>1, <1>2, <2>1, SlotIsCurrent
  <2>3. pruned[d] = {cut}
    BY <2>2 DEF PruneToCurrent
  <2>4. /\ cut.start = x.start /\ now < cut.end
        /\ cut = x \/ cut.end = now + Grace
    BY <1>2 DEF TimeSlice, Slices
  <2> DEFINE grace == [current EXCEPT !.slots = pruned, !.state = "PREEMPTED",
                                      !.span = TimeSlice(now, now + Grace)]
  <2>5. Preempt(task, now) = grace
    BY <1>4, <2>3 DEF Preempt, current
  <2> HIDE DEF cut, pruned
  <2>6. grace.slots = pruned /\ grace.state = "PREEMPTED"
    BY <1>1 DEF Task
  <2> HIDE DEF grace
  <2> QED
    BY <1>1, <1>4, <2>3, <2>4, <2>5, <2>6
<1> QED
  BY <1>1, <1>3, <1>4

\* The slot and the task behind an entry that is still to end.
LEMMA EntryBacked ==
  ASSUME AssertionInv, SoundInv, up,
         NEW d \in Devices, lock[d] # NoLock, clock < lock[d].until
  PROVE  /\ lock[d].task \in Live(tasks) /\ lock[d].until \in Nat
         /\ tasks[lock[d].task] \in Task
         /\ tasks[lock[d].task].agent = lock[d].agent
         /\ \E x \in tasks[lock[d].task].slots[d] :
              /\ x \in Slices /\ x.start <= clock /\ x.start <= timer
              /\ x.end = lock[d].until
<1>1. lock[d] \in Lock /\ tasks \in TaskTable
  BY DEF SoundInv, BookingInv, TypeOK
<1>2. Backed(d)
  BY DEF SoundInv, LockInv
<1>3. lock[d].task \in Live(tasks)
  BY <1>1, <1>2 DEF Backed, Live, Lock
<1>4. tasks[lock[d].task] \in Task /\ tasks[lock[d].task].slots[d] \in SUBSET Slices
  BY <1>1, <1>3 DEF Live, TaskTable, Task
<1> QED
  BY <1>1, <1>2, <1>3, <1>4 DEF Backed, Lock

\* What a handler's clean-up leaves of the task behind an entry, and of the
\* preempted tasks.
LEMMA EntryCleanedUp ==
  ASSUME AssertionInv, SoundInv, ShownInv, up,
         NEW left \in TaskTable, NEW now \in Nat, now <= clock,
         Sound(left), PreemptedBegan(left, now),
         \A j \in Live(left) : j \in Live(tasks) /\ left[j] = tasks[j],
         NEW d \in Devices, lock[d] # NoLock, clock < lock[d].until,
         lock[d].task \in Live(left)
  PROVE  LET ts == Cleanup(left, now)
             i  == lock[d].task
         IN  /\ i \in Live(ts) /\ ts[i].priority = tasks[i].priority
             /\ \A x \in tasks[i].slots[d] : x.end = lock[d].until => x \in ts[i].slots[d]
             /\ \A j \in Live(ts) : ts[j].state = "PREEMPTED" =>
                  /\ j \in Live(tasks) /\ tasks[j].state = "PREEMPTED"
                  /\ ts[j].slots[d] \subseteq tasks[j].slots[d]
<1> DEFINE ts == Cleanup(left, now)
           i  == lock[d].task
<1>1. /\ lock[d].until \in Nat /\ clock \in Nat /\ left[i] = tasks[i]
      /\ \E x \in tasks[i].slots[d] : x.end = lock[d].until
  BY EntryBacked DEF SoundInv, BookingInv, TypeOK
<1>2. now < lock[d].until
  BY <1>1
<1>3. left[i].state # "FINISHED"
  BY DEF SoundInv, Unfinished
<1>4. \A x \in tasks[i].slots[d] : x.end = lock[d].until => i \in Live(ts) /\ x \in ts[i].slots[d]
  BY <1>1, <1>2, <1>3, CleanupSound
<1>5. ASSUME NEW j \in Live(ts)
      PROVE  /\ j \in Live(tasks) /\ ts[j].priority = tasks[j].priority
             /\ ts[j].state = "PREEMPTED" => tasks[j].state = "PREEMPTED"
             /\ ts[j].slots[d] \subseteq tasks[j].slots[d]
  <2>1. j \in Live(left) /\ ts[j] = TaskMakeCurrent(left[j], now)
    BY CleanupFacts
  <2>2. left[j] \in Task /\ left[j] = tasks[j] /\ j \in Live(tasks)
    BY <2>1 DEF Live, TaskTable
  <2> HIDE DEF ts
  <2> QED
    BY <2>1, <2>2, TaskMakeCurrentFacts
<1> HIDE DEF ts
<1> QED
  BY <1>1, <1>4, <1>5 DEF ts

\* The update event, at its deadline, keeps the entries that are still to end.
LEMMA TimerKeepsEntries ==
  ASSUME Grace > 0, ~ClockMayStepBack, LastingRequests,
         AssertionInv, SoundInv, ShownInv, TimerFires, up',
         NEW d \in Devices, lock[d] # NoLock, clock < lock[d].until
  PROVE  /\ lock'[d] # NoLock
         /\ lock'[d].task = lock[d].task /\ lock'[d].until = lock[d].until
<1>1. up /\ timer <= clock
  BY DEF TimerFires
<1>2. PICK x \in tasks[lock[d].task].slots[d] :
        x.start <= timer /\ x.end = lock[d].until
  BY <1>1, EntryBacked
<1>3. UpdatesWith(Cleanup(tasks, timer), timer)
  BY HandlersUpdate
<1>4. /\ tasks \in TaskTable /\ timer \in Nat
      /\ Sound(tasks) /\ PreemptedBegan(tasks, timer)
      /\ lock[d].task \in Live(tasks)
  BY <1>1, EntryBacked DEF SoundInv, BookingInv, TypeOK
<1> QED
  BY <1>1, <1>2, <1>3, <1>4, EntryCleanedUp, EntryKept

\* A cancellation of another task keeps them too.
LEMMA CancelKeepsEntries ==
  ASSUME Grace > 0, ~ClockMayStepBack, LastingRequests,
         AssertionInv, SoundInv, ShownInv, up',
         NEW agent \in Agents, NEW id \in TaskIds, CancelTask(agent, id),
         NEW d \in Devices, lock[d] # NoLock, clock < lock[d].until,
         lock[d].task # id
  PROVE  /\ lock'[d] # NoLock
         /\ lock'[d].task = lock[d].task /\ lock'[d].until = lock[d].until
<1> DEFINE left == [tasks EXCEPT ![id] = NoTask]
<1>1. up
  BY DEF CancelTask, Cancellable
<1>2. PICK x \in tasks[lock[d].task].slots[d] :
        x.start <= clock /\ x.end = lock[d].until
  BY <1>1, EntryBacked
<1>3. UpdatesWith(Cleanup(left, clock), clock)
  BY HandlersUpdate
<1>4. /\ tasks \in TaskTable /\ clock \in Nat /\ clock <= clock
      /\ Sound(tasks) /\ PreemptedBegan(tasks, clock)
      /\ lock[d].task \in Live(tasks)
  BY <1>1, EntryBacked DEF SoundInv, BookingInv, TypeOK
<1>5. /\ left \in TaskTable
      /\ \A j \in Live(left) : j \in Live(tasks) /\ left[j] = tasks[j]
      /\ lock[d].task \in Live(left)
  BY <1>4 DEF TaskTable, Live
<1> HIDE DEF left
<1>6. Sound(left) /\ PreemptedBegan(left, clock)
  BY <1>4, <1>5 DEF Sound, PreemptedBegan
<1> QED
  BY <1>1, <1>2, <1>3, <1>4, <1>5, <1>6, EntryCleanedUp, EntryKept

\* A granted request keeps an entry, or leaves its holder, a LOW_PREEMPT task,
\* the grace period.  The task that holds the device is preempted by no other
\* way, and no second task is preempted where it is still on.
LEMMA GrantRevokesFairly ==
  ASSUME Grace > 0, ~ClockMayStepBack, LastingRequests,
         AssertionInv, SoundInv, ShownInv, up',
         NEW header \in Headers, NEW request \in Requests,
         AcceptRequest(header, request),
         NEW d \in Devices, lock[d] # NoLock, clock < lock[d].until
  PROVE  /\ lock'[d] # NoLock /\ lock'[d].task = lock[d].task
         /\ \/ lock'[d].until = lock[d].until
            \/ /\ tasks[lock[d].task].priority = "LOW_PREEMPT"
               /\ lock'[d].until = clock + Grace
<1> DEFINE ts         == Cleanup(tasks, clock)
           i          == lock[d].task
           victims    == Conflicting(ts, request)
           new(span)  == NewTask(header, request, span)
           m(span)    == Granted(ts, header.id, new(span), victims, clock)
           after(span) == WithNewTask(ts, header.id, new(span), victims, clock)
<1>0. /\ clock \in Nat /\ clock <= clock /\ tasks \in TaskTable /\ up
      /\ Sound(tasks) /\ ConflictFree(tasks) /\ WellFormed(tasks)
      /\ PreemptedBegan(tasks, clock)
      /\ \A j \in Live(tasks) : j \in Live(tasks) /\ tasks[j] = tasks[j]
  BY DEF AssertionInv, SoundInv, BookingInv, TypeOK, AcceptRequest
<1>1. PICK x \in tasks[i].slots[d] :
        x \in Slices /\ x.start <= clock /\ x.end = lock[d].until
  BY <1>0, EntryBacked
<1>2. i \in Live(tasks) /\ lock[d].until \in Nat
  BY <1>0, EntryBacked
<1>3. /\ ts \in TaskTable /\ ConflictFree(ts) /\ PreemptedBegan(ts, clock)
      /\ WellFormed(ts) /\ Sound(ts) /\ Settled(ts, clock) /\ Unfinished(ts)
  BY <1>0, CleanedUp, CleanupKeeps, CleanupWellFormed
<1>4. /\ i \in Live(ts) /\ ts[i].priority = tasks[i].priority /\ x \in ts[i].slots[d]
      /\ \A j \in Live(ts) : ts[j].state = "PREEMPTED" =>
           /\ j \in Live(tasks) /\ tasks[j].state = "PREEMPTED"
           /\ ts[j].slots[d] \subseteq tasks[j].slots[d]
  BY <1>0, <1>1, <1>2, EntryCleanedUp
<1>5. \A j \in Live(ts) : ts[j].state = "PREEMPTED" /\ ts[j].slots[d] # {} => j = i
  BY <1>0, <1>4 DEF ShownInv
<1>6. PICK span \in SpanOf(request) : UpdatesWith(after(span), clock)
  BY HandlersUpdate
<1>7. Acceptable(ts, header, request)
  BY DEF AcceptRequest
<1> HIDE DEF ts
<1>8. m(span) \in TaskTable /\ Sound(m(span)) /\ PreemptedBegan(m(span), clock)
  BY <1>0, <1>3, <1>7, GrantedSound
<1>9. after(span) = Cleanup(m(span), clock)
  BY DEF WithNewTask, Granted
<1>10. /\ header.id \in TaskIds /\ ts[header.id] = NoTask /\ i # header.id
       /\ m(span)[header.id] = new(span) /\ new(span).state = "PRE_RUN"
       /\ victims \in SUBSET Live(ts)
  BY <1>4, <1>7 DEF Acceptable, Headers, Granted, NewTask, Live, Conflicting
<1>11. ASSUME NEW j \in Live(ts), j # header.id
       PROVE  /\ m(span)[j] = IF j \in victims THEN Preempt(ts[j], clock) ELSE ts[j]
              /\ ts[j] \in Task /\ SoundTask(ts[j]) /\ Lasting(ts[j].slots)
              /\ ts[j].state # "FINISHED" /\ j \in TaskIds
              /\ ts[j].state = "PREEMPTED" => ts[j].span.start <= clock
              /\ \A e \in Devices : ts[j].slots[e] \subseteq Slices
  BY <1>3, <1>11 DEF Granted, Live, TaskTable, Task, Sound, WellFormed, Unfinished,
                     PreemptedBegan
<1> HIDE DEF m, after, victims, new
\* What granting makes of the task behind the entry.
<1>12. PICK y \in m(span)[i].slots[d] :
         /\ y.start = x.start /\ clock < y.end
         /\ \/ y = x
            \/ ts[i].priority = "LOW_PREEMPT" /\ y.end = clock + Grace
         /\ m(span)[i].state # "FINISHED"
         /\ i \in victims => m(span)[i].state = "PREEMPTED"
         /\ i \notin victims => m(span)[i] = ts[i]
  <2>1. clock < x.end
    BY <1>1
  <2>2. CASE i \in victims
    <3>1. m(span)[i] = Preempt(ts[i], clock)
      BY <1>4, <1>10, <1>11, <2>2
    <3>2. PICK y \in m(span)[i].slots[d] :
            /\ y.start = x.start /\ clock < y.end
            /\ y = x \/ (ts[i].state # "PREEMPTED" /\ y.end = clock + Grace)
      BY <1>0, <1>1, <1>4, <1>10, <1>11, <2>1, <3>1, PreemptLeaves
    <3>3. m(span)[i].state = "PREEMPTED"
      BY <1>0, <1>1, <1>4, <1>10, <1>11, <2>1, <3>1, PreemptLeaves
    <3>4. ts[i].state \in {"RUNNING", "PREEMPTED"}
      BY <1>1, <1>3, <1>4, <2>1 DEF Settled
    <3>5. ts[i].state = "RUNNING" => ts[i].priority = "LOW_PREEMPT"
      BY <1>7, <2>2 DEF Acceptable, CheckCanPreemptOther, victims
    <3> QED
      BY <2>2, <3>2, <3>3, <3>4, <3>5
  <2>3. CASE i \notin victims
    <3>1. m(span)[i] = ts[i]
      BY <1>4, <1>10, <1>11, <2>3
    <3> QED
      BY <1>4, <1>10, <1>11, <2>1, <2>3, <3>1
  <2> QED
    BY <2>2, <2>3
<1>13. i \in Live(m(span))
  <2>1. /\ m(span)[i] \in {Preempt(ts[i], clock), ts[i]}
        /\ ts[i] \in Task /\ i \in TaskIds
    BY <1>4, <1>10, <1>11
  <2>2. m(span)[i] \in Task
    BY <1>0, <2>1, PreemptFacts
  <2> QED
    BY <2>1, <2>2, SentinelsAssumption DEF Live
<1>14. /\ i \in Live(after(span)) /\ y \in after(span)[i].slots[d]
       /\ m(span)[i].state = "PREEMPTED" => after(span)[i].state = "PREEMPTED"
  BY <1>0, <1>8, <1>9, <1>12, <1>13, CleanupSound
\* No other task has a grace period on the device now.
<1>15. ASSUME m(span)[i].state # "PREEMPTED",
              NEW j \in CurrentOn(after(span), d, "PREEMPTED", clock)
       PROVE  FALSE
  <2>1. /\ j \in Live(after(span)) /\ after(span)[j].state = "PREEMPTED"
        /\ CurrentSlot(after(span)[j].slots[d], clock) # {}
    BY DEF CurrentOn
  <2>2. j \in Live(m(span)) /\ after(span)[j] = TaskMakeCurrent(m(span)[j], clock)
    BY <1>0, <1>8, <1>9, <2>1, CleanupFacts
  <2>3. m(span)[j] \in Task
    BY <1>8, <2>2 DEF Live, TaskTable
  <2>4. /\ m(span)[j].state = "PREEMPTED"
        /\ after(span)[j].slots[d] \subseteq m(span)[j].slots[d]
    BY <1>0, <2>1, <2>2, <2>3, TaskMakeCurrentFacts
  <2>5. m(span)[j].slots[d] \subseteq Slices
    BY <2>3 DEF Task
  <2>6. PICK z \in CurrentSlot(after(span)[j].slots[d], clock) : TRUE
    BY <2>1
  <2>7. after(span)[j].slots[d] \in SUBSET Slices
    BY <2>4, <2>5
  <2>8. /\ z \in after(span)[j].slots[d] /\ z \in Slices /\ z.start <= clock
        /\ clock < z.end
    <3>1. /\ z \in after(span)[j].slots[d] /\ z.start <= clock
          /\ clock < z.end \/ clock = z.start
      BY <1>0, <2>6, <2>7, CurrentSlotHolds
    <3>2. z.start < z.end
      BY <1>6, <2>1, <3>1 DEF UpdatesWith, WellFormed, Lasting
    <3> QED
      BY <2>7, <3>1, <3>2
  <2>9. z \in m(span)[j].slots[d]
    BY <2>4, <2>8
  <2>10. j # header.id
    BY <1>10, <2>4
  <2>11. j \in Live(ts)
    BY <2>2, <2>10, <1>10 DEF Live, m, Granted
  <2>12. j # i
    BY <1>15, <2>4
  <2>13. ts[j].state # "PREEMPTED"
    <3>1. CASE j \in victims
      <4>1. m(span)[j] = Preempt(ts[j], clock) /\ ts[j] \in Task
        BY <1>11, <2>10, <2>11, <3>1
      <4>2. ts[j].slots[d] # {}
        BY <1>0, <2>9, <4>1, PreemptFacts
      <4> QED
        BY <1>5, <2>11, <2>12, <4>2
    <3>2. CASE j \notin victims
      BY <1>5, <1>11, <2>9, <2>10, <2>11, <2>12, <3>2
    <3> QED
      BY <3>1, <3>2
  <2>14. j \in victims
    BY <1>11, <2>4, <2>10, <2>11, <2>13
  <2>15. m(span)[j] = Preempt(ts[j], clock) /\ ts[j] \in Task
    BY <1>11, <2>10, <2>11, <2>14
  <2>16. PICK u \in ts[j].slots[d] : LeftOf(z, u)
    BY <1>0, <2>9, <2>15, PreemptFacts
  <2>17. u \in Slices /\ u.start <= clock /\ clock < u.end
    BY <1>0, <1>11, <2>8, <2>10, <2>11, <2>16 DEF LeftOf, Slices
  <2>18. Conflict(x, u)
    BY <1>0, <1>1, <2>17, SameInstantConflicts
  <2>19. Contested(ts, i, j)
    BY <1>4, <2>16, <2>18 DEF Contested
  <2>20. ts[i].state = "PREEMPTED"
    BY <1>3, <1>4, <2>11, <2>12, <2>13, <2>19 DEF ConflictFree
  <2> QED
    BY <1>12, <1>15, <2>20
<1>16. after(span)[i].state = "PREEMPTED" \/ CurrentOn(after(span), d, "PREEMPTED", clock) = {}
  BY <1>14, <1>15
<1>17. lock'[d] # NoLock /\ lock'[d].task = i /\ lock'[d].until = y.end
  BY <1>0, <1>1, <1>6, <1>12, <1>14, <1>16, UpdateEnters DEF UpdatesWith
<1> QED
  BY <1>1, <1>4, <1>12, <1>17

\* When no client asks for a slot of no length, a positive grace period is a
\* promise: an agent loses a device before the end of its slot only by its own
\* cancellation, or with a LOW_PREEMPT task and the grace period to go.
THEOREM RevocationFair ==
  ASSUME Grace > 0, ~ClockMayStepBack, LastingRequests
  PROVE  Spec => FairRevocation
<1> DEFINE Inv == AssertionInv /\ SoundInv /\ ShownInv
<1>1. Init => Inv
  BY InitAssertionInv, InitSoundInv, InitShownInv
<1>2. Inv /\ [Next]_vars => Inv'
  BY NextAssertionInv, NextSoundInv, NextShownInv
<1>3. Inv /\ [Next]_vars => [\A d \in Devices : RevokesFairly(d)]_vars
  <2> SUFFICES ASSUME Inv, Next, NEW d \in Devices,
                      lock[d] # NoLock, clock < lock[d].until, up'
               PROVE  \/ /\ lock'[d] # NoLock /\ lock'[d].task = lock[d].task
                         /\ lock'[d].until >= lock[d].until
                      \/ CancelTask(lock[d].agent, lock[d].task)
                      \/ /\ tasks[lock[d].task].priority = "LOW_PREEMPT"
                         /\ lock'[d] # NoLock /\ lock'[d].task = lock[d].task
                         /\ lock'[d].until >= clock + Grace
    BY DEF RevokesFairly
  <2>0. up
    BY DEF ShownInv
  <2>1. /\ lock[d].until \in Nat /\ lock[d].until >= lock[d].until
        /\ clock + Grace >= clock + Grace
        /\ lock[d].task \in Live(tasks)
        /\ tasks[lock[d].task].agent = lock[d].agent
    <3>1. clock + Grace \in Nat
      BY ConstantsAssumption DEF SoundInv, BookingInv, TypeOK
    <3> QED
      BY <2>0, <3>1, EntryBacked
  <2>2. CASE RejectRequest \/ Tick
    BY <2>1, <2>2 DEF RejectRequest, Tick
  <2>3. ASSUME NEW header \in Headers, NEW request \in Requests,
               AcceptRequest(header, request)
        PROVE  /\ lock'[d] # NoLock /\ lock'[d].task = lock[d].task
               /\ \/ lock'[d].until = lock[d].until
                  \/ /\ tasks[lock[d].task].priority = "LOW_PREEMPT"
                     /\ lock'[d].until = clock + Grace
    BY <2>3, GrantRevokesFairly
  <2>4. ASSUME NEW agent \in Agents, NEW id \in TaskIds, CancelTask(agent, id)
        PROVE  \/ /\ lock'[d] # NoLock /\ lock'[d].task = lock[d].task
                  /\ lock'[d].until = lock[d].until
               \/ CancelTask(lock[d].agent, lock[d].task)
    <3>1. CASE id = lock[d].task
      BY <2>1, <2>4, <3>1 DEF CancelTask, Cancellable
    <3>2. CASE id # lock[d].task
      BY <2>4, <3>2, CancelKeepsEntries
    <3> QED
      BY <3>1, <3>2
  <2>5. CASE TimerFires
    BY <2>1, <2>5, TimerKeepsEntries
  <2>6. /\ ~Crash /\ ~Restart /\ ~ClockStepsBack
        /\ \A header \in Headers, request \in Requests : ~CrashInRequest(header, request)
        /\ \A agent \in Agents, id \in TaskIds : ~CrashInCancel(agent, id)
    BY <2>0 DEF Crash, Restart, ClockStepsBack, CrashInRequest, CrashInCancel, Stopped
  <2> QED
    BY <2>1, <2>2, <2>3, <2>4, <2>5, <2>6 DEF Next
<1> QED
  BY <1>1, <1>2, <1>3, PTL DEF Spec, FairRevocation

=============================================================================
