--------------------------- MODULE ActuatorAgent ---------------------------
(***************************************************************************)
(* The actuator agent: one process that grants agents exclusive time slots *)
(* on devices.  It joins Agents/ActuatorAgent/actuator/scheduler.py (Task, *)
(* ScheduleManager) and agent.py (message handlers, update timer, cached   *)
(* table of device states).                                                *)
(*                                                                         *)
(* The agent is single threaded: a handler runs to its end before the next *)
(* message or timer, so one action is one handler.  What can happen inside *)
(* a handler is a crash, and a crash action names every point of the       *)
(* handler at which the process can die.                                   *)
(***************************************************************************)
EXTENDS Schedules

CONSTANTS
  Agents, Devices, TaskIds,
  NoTask, NoLock, NoPromise,
  Requests,            \* the slot lists clients send, as sets of slots
  MaxClock,            \* bound on the wall clock
  Grace,               \* preempt_grace_time, in ticks
  PublishInterval,     \* schedule_publish_interval, in ticks
  StateFile,           \* is schedule_state_file configured?
  MayCrash,            \* may the process die at any point?
  TornWrites,          \* may a save leave anything but the new schedule?
  ClockMayStepBack     \* may the wall clock be set back?

Priorities == {"HIGH", "LOW", "LOW_PREEMPT"}
TaskStates == {"PRE_RUN", "RUNNING", "PREEMPTED", "FINISHED"}
RequestSlots == [device : Devices, start : Nat, end : Nat]

\* The headers requesterID, taskID and priority of a NEW_SCHEDULE request.
Headers == [agent : Agents, id : TaskIds, priority : Priorities]

Task == [agent : Agents, priority : Priorities, state : TaskStates,
         span : Slices, slots : [Devices -> SUBSET Slices]]

\* What a client was promised: void once it is lost without a notice.
PromiseRecord == [agent : Agents, priority : Priorities, from : Nat,
                  slots : [Devices -> SUBSET Slices], void : BOOLEAN]

\* An entry of the table of device states.
Lock == [agent : Agents, task : TaskIds, until : Nat]

ASSUME ConstantsAssumption ==
  /\ Requests \subseteq SUBSET RequestSlots
  /\ MaxClock \in Nat
  /\ Grace \in Nat
  /\ PublishInterval \in Nat \ {0}
  /\ {StateFile, MayCrash, TornWrites, ClockMayStepBack} \subseteq BOOLEAN

ASSUME SentinelsAssumption ==
  NoTask \notin Task /\ NoLock \notin Lock /\ NoPromise \notin PromiseRecord

VARIABLES
  clock,      \* datetime.now(), in ticks
  up,         \* is the process running?
  asserted,   \* has an assertion of get_schedule_state ever failed?
  tasks,      \* ScheduleManager.tasks; empty while the process is down
  lock,       \* Agent._device_states, the table check_lock reads
  timer,      \* deadline of the one live update event
  disk,       \* the state file
  promises    \* history: the slots clients were promised, and not told
              \* they lost, that have not ended yet

vars == <<clock, up, asserted, tasks, lock, timer, disk, promises>>

-----------------------------------------------------------------------------
(* Task *)

SlotsOf(request) ==
  [d \in Devices |->
     {TimeSlice(r.start, r.end) : r \in {q \in request : q.device = d}}]

\* stretch_to_include over all slots: from the first start to the last end.
SpanOf(request) ==
  {TimeSlice(x.start, y.end) : x, y \in request} \cap
  {s \in Slices : \A r \in request : s.start <= r.start /\ r.end <= s.end}

\* Task.__init__ fails: no slots, a slot that ends before it starts, or two
\* slots of the request on one device that conflict.
MalformedRequest(request) ==
  \/ request = {}
  \/ \E r \in request : r.end < r.start
  \/ \E r, q \in request : r # q /\ r.device = q.device /\ Conflict(r, q)

\* Bug: a task that has begun is RUNNING, preempted or not.
FaultyTaskMakeCurrent(task, now) ==
  [task EXCEPT
     !.slots = [d \in Devices |-> MakeCurrent(task.slots[d], now)],
     !.state = IF ContainsIncludeStart(task.span, now) THEN "RUNNING"
               ELSE IF task.span.start >= now THEN "PRE_RUN"
               ELSE "FINISHED"]

\* Bug: a task is FINISHED in a gap between its slots.
HastyTaskMakeCurrent(task, now) ==
  LET slots == [d \in Devices |-> MakeCurrent(task.slots[d], now)]
  IN  [task EXCEPT
         !.slots = slots,
         !.state = IF \E d \in Devices : \E x \in slots[d] : ContainsIncludeStart(x, now)
                   THEN IF @ = "PREEMPTED" THEN @ ELSE "RUNNING"
                   ELSE IF task.span.start >= now THEN "PRE_RUN"
                   ELSE "FINISHED"]

TaskMakeCurrent(task, now) ==
  IF task.state = "FINISHED"
  THEN [task EXCEPT !.slots = [d \in Devices |-> {}]]
  ELSE [task EXCEPT
          !.slots = [d \in Devices |-> MakeCurrent(task.slots[d], now)],
          !.state = IF ContainsIncludeStart(task.span, now)
                    THEN IF @ = "PREEMPTED" THEN @ ELSE "RUNNING"
                    ELSE IF task.span.start >= now THEN "PRE_RUN"
                    ELSE "FINISHED"]

TaskConflicts(slots, task) ==
  \E d \in Devices : GetConflicts(task.slots[d], slots[d]) # {}

\* Bug: a LOW task may be preempted while it runs.
FaultyCheckCanPreemptOther(priority, other) ==
  priority = "HIGH" /\ other.priority # "HIGH"

\* Bug: a high-priority task may be preempted.
LaxCheckCanPreemptOther(priority, other) ==
  priority = "HIGH" /\ (other.state = "RUNNING" => other.priority # "LOW")

CheckCanPreemptOther(priority, other) ==
  /\ priority = "HIGH"
  /\ other.priority # "HIGH"
  /\ other.state = "RUNNING" => other.priority = "LOW_PREEMPT"

Preempt(task, now) ==
  LET current == TaskMakeCurrent(task, now)
      pruned  == [d \in Devices |->
                    PruneToCurrent(current.slots[d], Grace, now)]
  IN  IF current.state \in {"PREEMPTED", "FINISHED"} THEN current
      ELSE IF \A d \in Devices : pruned[d] = {}
      THEN [current EXCEPT !.slots = pruned, !.state = "FINISHED"]
      ELSE [current EXCEPT !.slots = pruned, !.state = "PREEMPTED",
                           !.span = TimeSlice(now, now + Grace)]

-----------------------------------------------------------------------------
(* ScheduleManager *)

NoTasks == [i \in TaskIds |-> NoTask]
Live(ts) == {i \in TaskIds : ts[i] # NoTask}

\* _cleanup: bring every task up to date, drop the finished ones.
Cleanup(ts, now) ==
  [i \in TaskIds |->
     IF ts[i] = NoTask THEN NoTask
     ELSE LET task == TaskMakeCurrent(ts[i], now)
          IN  IF task.state = "FINISHED" THEN NoTask ELSE task]

\* Bug: preempted tasks are not looked at.
FaultyConflicting(ts, request) ==
  {i \in Live(ts) : ts[i].state # "PREEMPTED" /\ TaskConflicts(SlotsOf(request), ts[i])}

\* The tasks a request conflicts with.
Conflicting(ts, request) ==
  {i \in Live(ts) : TaskConflicts(SlotsOf(request), ts[i])}

\* The checks of request_slots on the cleaned-up tasks, in its order.
Acceptable(ts, header, request) ==
  /\ ts[header.id] = NoTask
  /\ ~MalformedRequest(request)
  /\ \A i \in Conflicting(ts, request) : CheckCanPreemptOther(header.priority, ts[i])

NewTask(header, request, span) ==
  [agent |-> header.agent, priority |-> header.priority, state |-> "PRE_RUN",
   span |-> span, slots |-> SlotsOf(request)]

\* The tasks after an accepted request: the new one in, its victims preempted.
WithNewTask(ts, id, task, victims, now) ==
  Cleanup([i \in TaskIds |-> IF i = id THEN task
                             ELSE IF i \in victims THEN Preempt(ts[i], now)
                             ELSE ts[i]], now)

\* The tasks in a state with a current slot on a device, and the assertions
\* of get_schedule_state: never two of them on one device.
CurrentOn(ts, d, state, now) ==
  {i \in Live(ts) : ts[i].state = state /\ CurrentSlot(ts[i].slots[d], now) # {}}

AssertionFails(ts, now) ==
  \E d \in Devices, state \in {"RUNNING", "PREEMPTED"} :
    \E i, j \in CurrentOn(ts, d, state, now) : i # j

\* get_schedule_state: a preempted task in its grace period shadows the task
\* that preempted it.  An entry names the holder and when its slot ends.
ScheduleState(ts, now) ==
  [d \in Devices |->
     LET preempted == CurrentOn(ts, d, "PREEMPTED", now)
         holders   == IF preempted # {} THEN preempted
                      ELSE CurrentOn(ts, d, "RUNNING", now)
     IN  IF holders = {} THEN NoLock
         ELSE LET i == CHOOSE j \in holders : TRUE
                  x == CHOOSE y \in CurrentSlot(ts[i].slots[d], now) : TRUE
              IN  [agent |-> ts[i].agent, task |-> i, until |-> x.end]]

\* Bug: the events of the schedule are forgotten.
FaultyNextUpdate(ts, now) == {RoundUp(now + PublishInterval)}

\* Bug: the latest event instead of the next.
LateNextUpdate(ts, now) ==
  LET events == {RoundUp(now + PublishInterval)} \cup
                UNION {NextEventTime(ts[i].slots[d], now) :
                         i \in Live(ts), d \in Devices}
  IN  {t \in events : \A u \in events : u <= t}

\* The next event of any schedule, or the publish interval if that is sooner.
NextUpdate(ts, now) ==
  LET events == {RoundUp(now + PublishInterval)} \cup
                UNION {NextEventTime(ts[i].slots[d], now) :
                         i \in Live(ts), d \in Devices}
  IN  {t \in events : \A u \in events : t <= u}

-----------------------------------------------------------------------------
(* The state file *)

NoFile   == [status |-> "none",  tasks |-> NoTasks]
TornFile == [status |-> "torn",  tasks |-> NoTasks]
Saved(ts) == [status |-> "saved", tasks |-> ts]

\* Bug: the schedule is saved before it is changed.
FaultySaveState(ts) == {Saved(tasks)}

\* save_state opens the file for writing, which truncates it, and swallows
\* every error: a failed open leaves the old file, a failed dump a torn one.
SaveState(ts) ==
  IF ~StateFile THEN {disk}
  ELSE {Saved(ts)} \cup (IF TornWrites THEN {disk, TornFile} ELSE {})

\* Bug: no clean-up after reading from disk.
FaultyLoadState(now) == disk.tasks

\* A file that is torn reads as an empty schedule.  (Some of what cPickle raises
\* for one is no StandardError, and then the new process ends at once: it stays
\* down, as it may here for any time.)
LoadState(now) ==
  IF disk.status = "saved" THEN Cleanup(disk.tasks, now) ELSE NoTasks

-----------------------------------------------------------------------------
(* What clients have been promised (history, not state of the agent) *)

Unended(slots, now) == [d \in Devices |-> {x \in slots[d] : x.end > now}]

Promise(task, now) ==
  LET slots == Unended(task.slots, now)
  IN  IF \A d \in Devices : slots[d] = {} THEN NoPromise
      ELSE [agent |-> task.agent, priority |-> task.priority,
            from |-> task.span.start, slots |-> slots, void |-> FALSE]

Lapse(now) ==
  [i \in TaskIds |->
     LET p == promises[i]
     IN  IF p = NoPromise \/ (\A d \in Devices : Unended(p.slots, now)[d] = {})
         THEN NoPromise
         ELSE [p EXCEPT !.slots = Unended(p.slots, now)]]

\* The promises after the owners of told learned that they lost them, the
\* owners of untold lost theirs without being told, and id was promised new.
Withdraw(told, untold) ==
  [i \in TaskIds |-> IF promises[i] = NoPromise \/ i \in told THEN NoPromise
                     ELSE IF i \in untold THEN [promises[i] EXCEPT !.void = TRUE]
                     ELSE promises[i]]

-----------------------------------------------------------------------------
(* The agent *)

Stopped ==
  /\ up' = FALSE
  /\ tasks' = NoTasks
  /\ lock' = [d \in Devices |-> NoLock]
  /\ timer' = 0

\* update_device_state_and_schedule: refresh the table and re-arm the timer,
\* or leave the process through a failed assertion.
UpdateDeviceStateAndSchedule(ts, now) ==
  IF AssertionFails(ts, now)
  THEN Stopped /\ asserted' = TRUE
  ELSE /\ up' = TRUE
       /\ tasks' = ts
       /\ lock' = ScheduleState(ts, now)
       /\ timer' \in NextUpdate(ts, now)
       /\ UNCHANGED asserted

CheckLock(d, agent) == lock[d] # NoLock /\ lock[d].agent = agent

\* handle_new with a request that is refused: whatever is wrong with it, only
\* the clean-up remains.  A client can send one at any time (without a taskID,
\* say), so there is no other guard.
RejectRequest ==
  /\ up
  /\ tasks' = Cleanup(tasks, clock)
  /\ UNCHANGED <<clock, up, asserted, lock, timer, disk, promises>>

\* handle_new with a request that is granted: save, reply, update, and tell
\* the owners of the preempted tasks unless the update killed the process.
AcceptRequest(header, request) ==
  LET ts      == Cleanup(tasks, clock)
      victims == Conflicting(ts, request)
  IN  /\ up
      /\ Acceptable(ts, header, request)
      /\ \E span \in SpanOf(request) :
           LET new   == NewTask(header, request, span)
               after == WithNewTask(ts, header.id, new, victims, clock)
               told  == IF AssertionFails(after, clock) THEN {} ELSE victims
           IN  /\ disk' \in SaveState(after)
               /\ UpdateDeviceStateAndSchedule(after, clock)
               /\ promises' = [Withdraw(told, victims) EXCEPT
                                 ![header.id] = Promise(new, clock)]
      /\ UNCHANGED clock

\* The process dies inside a request it would have granted: before, during
\* or after the save; after the reply; after some of the notices.
CrashInRequest(header, request) ==
  LET ts      == Cleanup(tasks, clock)
      victims == Conflicting(ts, request)
  IN  /\ up /\ MayCrash
      /\ Acceptable(ts, header, request)
      /\ \E span \in SpanOf(request) :
           LET new   == NewTask(header, request, span)
               after == WithNewTask(ts, header.id, new, victims, clock)
           IN  \/ /\ disk' \in SaveState(after)
                  /\ promises' = Withdraw({}, victims)
               \/ /\ disk' \in SaveState(after)
                  /\ \E told \in SUBSET victims :
                       promises' = [Withdraw(told, victims) EXCEPT
                                      ![header.id] = Promise(new, clock)]
      /\ Stopped
      /\ UNCHANGED <<clock, asserted>>

\* What an agent that cancels a task gives up: its own promise only.
Given(agent, id) ==
  {i \in {id} : promises[i] # NoPromise /\ promises[i].agent = agent}

\* Bug: anyone may cancel.
FaultyCancellable(agent, id) == up /\ tasks[id] # NoTask

\* handle_cancel of a task by the agent that owns it.  (A refused cancel
\* changes nothing.)  cancel_task does not clean up before it looks.
Cancellable(agent, id) == up /\ tasks[id] # NoTask /\ tasks[id].agent = agent

CancelTask(agent, id) ==
  LET after == Cleanup([tasks EXCEPT ![id] = NoTask], clock)
  IN  /\ Cancellable(agent, id)
      /\ disk' \in SaveState(after)
      /\ UpdateDeviceStateAndSchedule(after, clock)
      /\ promises' = Withdraw(Given(agent, id), {})
      /\ UNCHANGED clock

CrashInCancel(agent, id) ==
  LET after == Cleanup([tasks EXCEPT ![id] = NoTask], clock)
  IN  /\ Cancellable(agent, id) /\ MayCrash
      /\ disk' \in SaveState(after)
      /\ promises' \in {Withdraw(Given(agent, id), {}), Withdraw({}, Given(agent, id))}
      /\ Stopped
      /\ UNCHANGED <<clock, asserted>>

\* _update_schedule_state: the event passes its deadline, not the time it is.
TimerFires ==
  /\ up
  /\ timer <= clock
  /\ UpdateDeviceStateAndSchedule(Cleanup(tasks, timer), timer)
  /\ UNCHANGED <<clock, disk, promises>>

\* The process dies between two handlers, or before it saved anything.
Crash ==
  /\ up /\ MayCrash
  /\ Stopped
  /\ UNCHANGED <<clock, asserted, disk, promises>>

\* setup_schedule of a new process.
Restart ==
  /\ ~up
  /\ UpdateDeviceStateAndSchedule(LoadState(clock), clock)
  /\ UNCHANGED <<clock, disk, promises>>

Tick ==
  /\ clock < MaxClock
  /\ clock' = clock + 1
  /\ promises' = Lapse(clock + 1)
  /\ UNCHANGED <<up, asserted, tasks, lock, timer, disk>>

ClockStepsBack ==
  /\ ClockMayStepBack
  /\ clock' \in 0 .. clock - 1
  /\ UNCHANGED <<up, asserted, tasks, lock, timer, disk, promises>>

Init ==
  /\ clock = 0
  /\ up = TRUE
  /\ asserted = FALSE
  /\ tasks = NoTasks
  /\ lock = [d \in Devices |-> NoLock]
  /\ timer = RoundUp(PublishInterval)
  /\ disk = NoFile
  /\ promises = [i \in TaskIds |-> NoPromise]

Next ==
  \/ RejectRequest
  \/ \E header \in Headers, request \in Requests :
       AcceptRequest(header, request) \/ CrashInRequest(header, request)
  \/ \E agent \in Agents, id \in TaskIds :
       CancelTask(agent, id) \/ CrashInCancel(agent, id)
  \/ TimerFires
  \/ Crash
  \/ Restart
  \/ Tick
  \/ ClockStepsBack

Spec == Init /\ [][Next]_vars

-----------------------------------------------------------------------------
(* Properties *)

TaskTable == [TaskIds -> Task \cup {NoTask}]

\* Every variable has its type.
TypeOK ==
  /\ clock \in Nat
  /\ up \in BOOLEAN
  /\ asserted \in BOOLEAN
  /\ tasks \in TaskTable
  /\ lock \in [Devices -> Lock \cup {NoLock}]
  /\ timer \in Nat
  /\ disk \in [status : {"none", "torn", "saved"}, tasks : TaskTable]
  /\ promises \in [TaskIds -> PromiseRecord \cup {NoPromise}]

\* Two tasks claim the same device at the same time only while one of them
\* is preempted and the other has high priority (request_slots rejects or
\* preempts every conflict, and nothing done to a task later, a restart from
\* the state file included, brings a conflict back).
Contested(ts, i, j) ==
  \E d \in Devices : \E x \in ts[i].slots[d], y \in ts[j].slots[d] : Conflict(x, y)

ConflictFree(ts) ==
  \A i, j \in Live(ts) :
    i # j /\ Contested(ts, i, j) =>
      \/ ts[i].state = "PREEMPTED" /\ ts[j].priority = "HIGH"
      \/ ts[j].state = "PREEMPTED" /\ ts[i].priority = "HIGH"

NoDoubleBooking == ConflictFree(tasks)

\* NoDoubleBooking is not inductive: a clean-up at a time before a preemption
\* began would make the preempted task PRE_RUN again.  The deadline the update
\* event passes as the time, and the time of a restart, are never that early.
PreemptedBegan(ts, now) ==
  \A i \in Live(ts) : ts[i].state = "PREEMPTED" => ts[i].span.start <= now

BookingInv ==
  /\ TypeOK
  /\ ConflictFree(tasks) /\ PreemptedBegan(tasks, clock) /\ PreemptedBegan(tasks, timer)
  /\ ConflictFree(disk.tasks) /\ PreemptedBegan(disk.tasks, clock)

\* The assertions of get_schedule_state, "device not in running_results" and
\* "device not in preempted_results", never fail: a failure escapes the
\* handler and ends the agent.
AssertionsHold == ~asserted

\* Why they hold when no request has a slot of no length: of two tasks with a
\* current slot on a device one is preempted, and the other has high priority
\* and so is never preempted itself.
Lasting(slots) == \A d \in Devices : \A x \in slots[d] : x.start < x.end

WellFormed(ts) ==
  \A i \in Live(ts) :
    Lasting(ts[i].slots) /\ (ts[i].state = "PREEMPTED" => ts[i].priority # "HIGH")

AssertionInv ==
  /\ BookingInv
  /\ WellFormed(tasks) /\ WellFormed(disk.tasks)
  /\ AssertionsHold

Stands(p) == p # NoPromise /\ ~p.void

\* A client that was told SUCCESS and not told otherwise holds all it was
\* promised: every slot that has not ended is still in the schedule under
\* its task id, through preemptions of others, clean-ups and restarts.
PromisesKept ==
  \A i \in TaskIds :
    up /\ Stands(promises[i]) =>
      /\ tasks[i] # NoTask
      /\ tasks[i].agent = promises[i].agent
      /\ \A d \in Devices : promises[i].slots[d] \subseteq tasks[i].slots[d]

\* The task a promise that stands is about was never preempted.
Honours(task, p) ==
  /\ task # NoTask
  /\ task.agent = p.agent /\ task.priority = p.priority
  /\ task.state \in {"PRE_RUN", "RUNNING"}
  /\ task.span.start = p.from
  /\ \A d \in Devices : /\ p.slots[d] \subseteq task.slots[d]
                        /\ \A x \in p.slots[d] : x.end <= task.span.end

Honoured(ts, ps) == \A i \in TaskIds : Stands(ps[i]) => Honours(ts[i], ps[i])

Unexpired(ps, now) ==
  \A i \in TaskIds : Stands(ps[i]) =>
    /\ \E d \in Devices : ps[i].slots[d] # {}
    /\ \A d \in Devices : \A x \in ps[i].slots[d] : x.end > now

Loadable(f) == IF f.status = "saved" THEN f.tasks ELSE NoTasks

\* Why promises are kept: the span of the task reaches beyond the clock as long
\* as a promised slot does, so that no clean-up finishes it, and the state file
\* always holds what a new process needs.
PromiseInv ==
  /\ TypeOK
  /\ Unexpired(promises, clock)
  /\ up => Honoured(tasks, promises)
  /\ Honoured(Loadable(disk), promises)

\* While the update event is not overdue, the cached table that check_lock
\* reads opens a device only to an agent with a slot there that has begun,
\* and for less than a second after the slot ended.
LockIsBacked ==
  \A d \in Devices :
    up /\ clock < timer /\ lock[d] # NoLock =>
      /\ clock < RoundUp(lock[d].until)
      /\ clock < lock[d].until =>
           LET i == lock[d].task
           IN  /\ tasks[i] # NoTask
               /\ tasks[i].agent = lock[d].agent
               /\ \E x \in tasks[i].slots[d] :
                    x.start <= clock /\ x.end = lock[d].until

\* While the update event is not overdue, an agent whose slot began a whole
\* second ago or earlier passes check_lock, unless a preempted task has its
\* grace period on the device, or had it until less than a second ago.
HolderHasLock ==
  \A i \in Live(tasks), d \in Devices :
    \A x \in tasks[i].slots[d] :
      up /\ clock < timer /\ RoundUp(x.start) <= clock /\ clock < x.end =>
        \/ CheckLock(d, tasks[i].agent)
        \/ lock[d] # NoLock /\ lock[d].until <= clock
        \/ \E j \in Live(tasks) \ {i} :
             /\ tasks[j].state = "PREEMPTED"
             /\ CheckLock(d, tasks[j].agent)

\* A lock is taken back before the end of its slot only by a cancellation of
\* its own task, or by a preemption that leaves the holder, a LOW_PREEMPT
\* task, at least the grace period.
RevokesFairly(d) ==
  LET old == lock[d]
      new == lock'[d]
  IN  old # NoLock /\ clock < old.until /\ up' =>
        \/ new # NoLock /\ new.task = old.task /\ new.until >= old.until
        \/ CancelTask(old.agent, old.task)
        \/ /\ tasks[old.task].priority = "LOW_PREEMPT"
           /\ new # NoLock /\ new.task = old.task
           /\ new.until >= clock + Grace

FairRevocation == [][\A d \in Devices : RevokesFairly(d)]_vars

\* An update works with its deadline as the time and arms the next one for
\* later, however late it ran, unless a slot of no length lies at the deadline:
\* that slot stays in the schedule and brings the update back to the same
\* deadline (_update_schedule_state, get_next_event_time).
TimerAdvances ==
  [][TimerFires /\ up' =>
       \/ timer' > timer
       \/ /\ timer' = timer
          /\ \E i \in Live(tasks'), d \in Devices :
               TimeSlice(timer, timer) \in tasks'[i].slots[d]]_vars

\* Whoever holds a device past the end of the slot loses it in the end: the
\* update event is always armed, and early enough.
LockReleased ==
  \A d \in Devices :
    (lock[d] # NoLock /\ RoundUp(lock[d].until) <= clock) ~>
      (lock[d] = NoLock \/ clock < RoundUp(lock[d].until))

\* The reactor runs a due event on every turn of its loop, before it polls
\* its sockets.
FairSpec == Spec /\ WF_vars(TimerFires)

=============================================================================
