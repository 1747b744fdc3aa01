--------------------- MODULE ActuatorRefinement_proofs ---------------------
(***************************************************************************)
(* With a state file whose writes succeed, the actuator agent keeps its    *)
(* promises and implements the calendar of DeviceReservations, whatever    *)
(* crashes it goes through, for every value of the constants.              *)
(***************************************************************************)
EXTENDS ActuatorRefinement, ActuatorAgent_proofs

-----------------------------------------------------------------------------
(* Clean-ups honour the promises that stand. *)

\* At any time before the last promised slot ends, make_current keeps the task
\* of a promise alive, with every promised slot.
LEMMA TaskMakeCurrentHonours ==
  ASSUME NEW task \in Task, NEW p \in PromiseRecord, Honours(task, p),
         NEW now \in Nat,
         \E d \in Devices : p.slots[d] # {},
         \A d \in Devices : \A x \in p.slots[d] : x.end > now
  PROVE  LET c == TaskMakeCurrent(task, now)
         IN  /\ Honours(c, p)
             /\ c.state = "PRE_RUN" => p.from > now
<1> DEFINE c == TaskMakeCurrent(task, now)
           current == [d \in Devices |-> MakeCurrent(task.slots[d], now)]
           state == IF ContainsIncludeStart(task.span, now)
                    THEN IF task.state = "PREEMPTED" THEN task.state ELSE "RUNNING"
                    ELSE IF task.span.start >= now THEN "PRE_RUN"
                    ELSE "FINISHED"
<1>1. /\ task.slots \in [Devices -> SUBSET Slices]
      /\ task.span \in Slices /\ task.span.start \in Nat /\ task.span.end \in Nat
      /\ p.slots \in [Devices -> SUBSET Slices]
  BY DEF Task, PromiseRecord, Slices
<1>2. \A d \in Devices : \A x \in p.slots[d] : x \in current[d]
  <2> SUFFICES ASSUME NEW d \in Devices, NEW x \in p.slots[d]
               PROVE  x \in MakeCurrent(task.slots[d], now)
    OBVIOUS
  <2>1. x \in task.slots[d] /\ x.end > now /\ task.slots[d] \in SUBSET Slices
    BY <1>1 DEF Honours
  <2> QED
    BY <2>1, MakeCurrentLeaves
<1>3. task.span.end > now
  <2>1. PICK d \in Devices : p.slots[d] # {}
    OBVIOUS
  <2>2. PICK x \in p.slots[d] : TRUE
    BY <2>1
  <2>3. x \in Slices /\ x.end > now /\ x.end <= task.span.end
    BY <1>1, <2>2 DEF Honours
  <2> QED
    BY <1>1, <2>3 DEF Slices
<1>4. /\ state \in {"PRE_RUN", "RUNNING"}
      /\ state = "PRE_RUN" => task.span.start > now
  BY <1>1, <1>3 DEF ContainsIncludeStart, Honours
<1>5. current \in [Devices -> SUBSET Slices]
  BY <1>1, MakeCurrentKeeps
<1>6. c = [task EXCEPT !.slots = current, !.state = state]
  BY DEF TaskMakeCurrent, Honours, Task
<1>7. /\ c.slots = current /\ c.state = state
      /\ c.agent = task.agent /\ c.priority = task.priority
      /\ c.span = task.span /\ c \in Task
  <2> HIDE DEF c, current, state
  <2>1. state \in TaskStates
    BY <1>4 DEF TaskStates
  <2> QED
    BY <1>5, <1>6, <2>1 DEF Task
<1>8. c # NoTask
  BY <1>7, SentinelsAssumption
<1> HIDE DEF c, current, state
<1> QED
  BY <1>2, <1>4, <1>7, <1>8 DEF Honours, c

\* The table of a clean-up honours the same promises, and the task of one that
\* is not RUNNING has not begun.
LEMMA CleanupHonours ==
  ASSUME NEW ts \in TaskTable, NEW ps \in PromiseTable, Honoured(ts, ps),
         NEW now \in Nat, NEW t \in Nat, now <= t, Unexpired(ps, t)
  PROVE  LET c == Cleanup(ts, now)
         IN  /\ Honoured(c, ps)
             /\ \A i \in TaskIds :
                  Stands(ps[i]) /\ c[i].state = "PRE_RUN" => ps[i].from > now
<1> DEFINE c == Cleanup(ts, now)
<1> SUFFICES ASSUME NEW i \in TaskIds, Stands(ps[i])
             PROVE  /\ Honours(c[i], ps[i])
                    /\ c[i].state = "PRE_RUN" => ps[i].from > now
  BY DEF Honoured
<1> DEFINE p == ps[i]
           m == TaskMakeCurrent(ts[i], now)
<1>1. p \in PromiseRecord
  BY DEF Stands, PromiseTable
<1>2. Honours(ts[i], p) /\ ts[i] \in Task
  BY DEF Honoured, Honours, TaskTable
<1>3. \E d \in Devices : p.slots[d] # {}
  BY DEF Unexpired
<1>4. \A d \in Devices : \A x \in p.slots[d] : x.end > now
  <2> SUFFICES ASSUME NEW d \in Devices, NEW x \in p.slots[d]
               PROVE  x.end > now
    OBVIOUS
  <2>1. x.end > t /\ x.end \in Nat
    BY <1>1 DEF Unexpired, PromiseRecord, Slices
  <2> QED
    BY <2>1
<1>5. Honours(m, p) /\ (m.state = "PRE_RUN" => p.from > now)
  BY <1>1, <1>2, <1>3, <1>4, TaskMakeCurrentHonours
<1>6. c[i] = m
  BY <1>2, <1>5 DEF Cleanup, Honours
<1> HIDE DEF c, m
<1> QED
  BY <1>5, <1>6

-----------------------------------------------------------------------------
(* What requests, cancellations and time do to promises. *)

LEMMA WithdrawFacts ==
  ASSUME promises \in PromiseTable, NEW told, NEW untold, NEW i \in TaskIds
  PROVE  LET p == Withdraw(told, untold)[i]
         IN  IF i \in told \cup untold THEN ~Stands(p) ELSE p = promises[i]
<1> DEFINE p == Withdraw(told, untold)[i]
<1>1. promises[i] \in PromiseRecord \cup {NoPromise}
  BY DEF PromiseTable
<1>2. CASE promises[i] = NoPromise \/ i \in told
  BY <1>2 DEF Withdraw, Stands
<1>3. CASE promises[i] # NoPromise /\ i \notin told /\ i \in untold
  <2>1. p = [promises[i] EXCEPT !.void = TRUE] /\ promises[i] \in PromiseRecord
    BY <1>1, <1>3 DEF Withdraw
  <2>2. p.void = TRUE
    BY <2>1 DEF PromiseRecord
  <2> QED
    BY <1>3, <2>2 DEF Stands
<1>4. CASE promises[i] # NoPromise /\ i \notin told /\ i \notin untold
  BY <1>4 DEF Withdraw
<1> QED
  BY <1>2, <1>3, <1>4

\* Only promises that stood before stand after a withdrawal.
LEMMA WithdrawKeeps ==
  ASSUME promises \in PromiseTable, NEW told, NEW untold, NEW ts, NEW t,
         Honoured(ts, promises), Unexpired(promises, t)
  PROVE  /\ Honoured(ts, Withdraw(told, untold))
         /\ Unexpired(Withdraw(told, untold), t)
<1> DEFINE ps == Withdraw(told, untold)
<1>1. \A i \in TaskIds : Stands(ps[i]) => ps[i] = promises[i]
  BY WithdrawFacts
<1> HIDE DEF ps
<1> QED
  BY <1>1 DEF Honoured, Unexpired, ps

\* A new task honours the promise it is granted with, which has not expired.
LEMMA NewPromise ==
  ASSUME NEW header \in Headers, NEW request \in Requests,
         ~MalformedRequest(request), NEW span \in SpanOf(request),
         NEW now \in Nat,
         Stands(Promise(NewTask(header, request, span), now))
  PROVE  LET new == NewTask(header, request, span)
             p   == Promise(new, now)
         IN  /\ p \in PromiseRecord
             /\ Honours(new, p)
             /\ p.agent = header.agent /\ p.priority = header.priority
             /\ \E d \in Devices : p.slots[d] # {}
             /\ \A d \in Devices : /\ p.slots[d] \subseteq SlotsOf(request)[d]
                                   /\ \A x \in p.slots[d] : x.end > now
<1> DEFINE new  == NewTask(header, request, span)
           p    == Promise(new, now)
           left == Unended(SlotsOf(request), now)
<1>1. /\ new \in Task /\ new # NoTask
      /\ new.agent = header.agent /\ new.priority = header.priority
      /\ new.state = "PRE_RUN" /\ new.span = span /\ new.slots = SlotsOf(request)
  BY NewTaskType, SentinelsAssumption DEF NewTask
<1>2. /\ ~(\A d \in Devices : left[d] = {})
      /\ p = [agent |-> header.agent, priority |-> header.priority,
              from |-> span.start, slots |-> left, void |-> FALSE]
  <2> HIDE DEF left
  <2>1. Unended(new.slots, now) = left
    BY <1>1 DEF left
  <2> QED
    BY <1>1, <2>1 DEF Promise, Stands
<1>3. SlotsOf(request) \in [Devices -> SUBSET Slices]
  BY SlotsOfType
<1>4. /\ left \in [Devices -> SUBSET Slices]
      /\ \A d \in Devices : /\ left[d] \subseteq SlotsOf(request)[d]
                            /\ \A x \in left[d] : x.end > now
  BY <1>3 DEF Unended
<1>5. \A d \in Devices : \A x \in SlotsOf(request)[d] : x.end <= span.end
  BY DEF SlotsOf, SpanOf, TimeSlice
<1>6. span \in Slices /\ span.start \in Nat
  BY DEF SpanOf, Slices
<1> HIDE DEF new, left
<1>7. p \in PromiseRecord
  BY <1>2, <1>4, <1>6 DEF PromiseRecord, Headers
<1>8. Honours(new, p)
  BY <1>1, <1>2, <1>4, <1>5 DEF Honours
<1> QED
  BY <1>2, <1>4, <1>7, <1>8 DEF new

\* What the handler of a new request does to the promises: those of the victims
\* fall, the others are left alone, and the new task may be promised.
PromisesGranted(ps, id, q, victims) ==
  /\ ps \in PromiseTable
  /\ \A i \in TaskIds : Stands(ps[i]) =>
       \/ i = id /\ ps[i] = q
       \/ i \notin victims /\ ps[i] = promises[i]
  /\ \A i \in TaskIds \ victims : i # id => ps[i] = promises[i]

LEMMA GrantedPromises ==
  ASSUME promises \in PromiseTable, NEW id \in TaskIds,
         NEW q \in PromiseRecord \cup {NoPromise},
         NEW victims, NEW told, told \subseteq victims
  PROVE  LET w == Withdraw(told, victims)
         IN  /\ PromisesGranted(w, id, q, victims)
             /\ PromisesGranted([w EXCEPT ![id] = q], id, q, victims)
<1> DEFINE w == Withdraw(told, victims)
           g == [w EXCEPT ![id] = q]
<1>1. w \in PromiseTable
  BY PromiseTypes
<1>2. \A i \in TaskIds : IF i \in victims THEN ~Stands(w[i]) ELSE w[i] = promises[i]
  BY WithdrawFacts
<1> HIDE DEF w
<1>3. g \in PromiseTable /\ \A i \in TaskIds : g[i] = IF i = id THEN q ELSE w[i]
  BY <1>1 DEF PromiseTable
<1> HIDE DEF g
<1>4. PromisesGranted(w, id, q, victims) /\ PromisesGranted(g, id, q, victims)
  BY <1>1, <1>2, <1>3 DEF PromisesGranted
<1> QED
  BY <1>4 DEF w, g

\* The effect of a granted request, whether the process survives it or not.
LEMMA RequestStep ==
  ASSUME TypeOK, NEW header \in Headers, NEW request \in Requests,
         AcceptRequest(header, request) \/ CrashInRequest(header, request)
  PROVE  LET ts      == Cleanup(tasks, clock)
             victims == Conflicting(ts, request)
         IN  /\ up /\ clock' = clock
             /\ Acceptable(ts, header, request)
             /\ \E span \in SpanOf(request) :
                  LET new   == NewTask(header, request, span)
                      after == WithNewTask(ts, header.id, new, victims, clock)
                  IN  /\ disk' \in SaveState(after)
                      /\ up' => tasks' = after
                      /\ PromisesGranted(promises', header.id, Promise(new, clock), victims)
<1> DEFINE ts      == Cleanup(tasks, clock)
           victims == Conflicting(ts, request)
           new(span)   == NewTask(header, request, span)
           after(span) == WithNewTask(ts, header.id, new(span), victims, clock)
           q(span)     == Promise(new(span), clock)
<1>1. up /\ clock' = clock /\ Acceptable(ts, header, request)
  BY DEF AcceptRequest, CrashInRequest
<1>2. PICK span \in SpanOf(request) :
        /\ disk' \in SaveState(after(span))
        /\ UpdateDeviceStateAndSchedule(after(span), clock) \/ Stopped
        /\ \E told \in SUBSET victims :
             promises' \in {Withdraw(told, victims),
                            [Withdraw(told, victims) EXCEPT ![header.id] = q(span)]}
  <2>1. CASE AcceptRequest(header, request)
    BY <2>1 DEF AcceptRequest
  <2>2. CASE CrashInRequest(header, request)
    BY <2>2 DEF CrashInRequest
  <2> QED
    BY <2>1, <2>2
<1>3. up' => tasks' = after(span)
  BY <1>2 DEF UpdateDeviceStateAndSchedule, Stopped
<1>4. promises \in PromiseTable /\ header.id \in TaskIds
  BY DEF TypeOK, PromiseTable, Headers
<1>5. q(span) \in PromiseRecord \cup {NoPromise}
  BY <1>1, <1>4, NewTaskType, PromiseTypes DEF Acceptable
<1> HIDE DEF ts, victims, new, after, q
<1>6. PromisesGranted(promises', header.id, q(span), victims)
  <2>1. PICK told \in SUBSET victims :
          promises' \in {Withdraw(told, victims),
                         [Withdraw(told, victims) EXCEPT ![header.id] = q(span)]}
    BY <1>2
  <2>2. /\ PromisesGranted(Withdraw(told, victims), header.id, q(span), victims)
        /\ PromisesGranted([Withdraw(told, victims) EXCEPT ![header.id] = q(span)],
                           header.id, q(span), victims)
    BY <1>4, <1>5, GrantedPromises
  <2> QED
    BY <2>1, <2>2
<1> QED
  BY <1>1, <1>2, <1>3, <1>6 DEF ts, victims, new, after, q

\* The id of an acceptable request has no promise that stands.
LEMMA FreshId ==
  ASSUME NEW ts, NEW header \in Headers, NEW request, NEW ps,
         Acceptable(ts, header, request), Honoured(ts, ps)
  PROVE  header.id \in TaskIds /\ ~Stands(ps[header.id])
BY DEF Acceptable, Honoured, Honours, Headers

\* A granted request honours the promises that stand after it.
LEMMA GrantHonours ==
  ASSUME NEW ts \in TaskTable, NEW now \in Nat,
         NEW header \in Headers, NEW request \in Requests,
         Acceptable(ts, header, request), NEW span \in SpanOf(request),
         Honoured(ts, promises), Unexpired(promises, now), NEW ps,
         PromisesGranted(ps, header.id, Promise(NewTask(header, request, span), now),
                         Conflicting(ts, request))
  PROVE  /\ Honoured(WithNewTask(ts, header.id, NewTask(header, request, span),
                                 Conflicting(ts, request), now), ps)
         /\ Unexpired(ps, now)
<1> DEFINE id      == header.id
           new     == NewTask(header, request, span)
           q       == Promise(new, now)
           victims == Conflicting(ts, request)
           m       == Granted(ts, id, new, victims, now)
<1>1. id \in TaskIds /\ ~Stands(promises[id]) /\ ~MalformedRequest(request)
  BY FreshId DEF Acceptable
<1>2. new \in Task /\ victims \in SUBSET Live(ts)
  BY <1>1, NewTaskType DEF Conflicting
<1>3. m \in TaskTable /\ WithNewTask(ts, id, new, victims, now) = Cleanup(m, now)
  BY <1>2, WithNewTaskType DEF WithNewTask, Granted
<1>4. Stands(q) => /\ Honours(new, q)
                   /\ \E d \in Devices : q.slots[d] # {}
                   /\ \A d \in Devices : \A x \in q.slots[d] : x.end > now
  BY <1>1, NewPromise
<1>5. m[id] = new /\ \A i \in TaskIds \ victims : i # id => m[i] = ts[i]
  BY <1>1 DEF Granted
<1>6. /\ ps \in PromiseTable
      /\ \A i \in TaskIds : Stands(ps[i]) =>
           \/ i = id /\ ps[i] = q
           \/ i \notin victims /\ ps[i] = promises[i]
  BY DEF PromisesGranted
<1> HIDE DEF id, new, q, victims, m
<1>7. Honoured(m, ps) /\ Unexpired(ps, now)
  BY <1>1, <1>4, <1>5, <1>6 DEF Honoured, Unexpired
<1>8. Honoured(Cleanup(m, now), ps)
  BY <1>3, <1>6, <1>7, CleanupHonours
<1> QED
  BY <1>3, <1>7, <1>8 DEF id, new, victims

\* A cancellation withdraws every promise that stood for the task.
LEMMA CancelStep ==
  ASSUME PromiseInv, NEW agent \in Agents, NEW id \in TaskIds,
         CancelTask(agent, id) \/ CrashInCancel(agent, id)
  PROVE  /\ up /\ clock' = clock
         /\ disk' \in SaveState(Cleanup([tasks EXCEPT ![id] = NoTask], clock))
         /\ up' => tasks' = Cleanup([tasks EXCEPT ![id] = NoTask], clock)
         /\ promises' \in PromiseTable /\ ~Stands(promises'[id])
         /\ \A i \in TaskIds : i # id => promises'[i] = promises[i]
<1>1. /\ promises \in PromiseTable
      /\ up /\ tasks[id] # NoTask /\ tasks[id].agent = agent
      /\ Honoured(tasks, promises)
  BY DEF PromiseInv, TypeOK, PromiseTable, CancelTask, CrashInCancel, Cancellable
<1>2. PICK told \in SUBSET {id}, untold \in SUBSET {id} :
        /\ promises' = Withdraw(told, untold)
        /\ told \cup untold = Given(agent, id)
  <2>1. Given(agent, id) \in SUBSET {id}
    BY DEF Given
  <2> QED
    BY <2>1 DEF CancelTask, CrashInCancel
<1>3. ~Stands(promises'[id])
  <2>1. CASE id \in Given(agent, id)
    BY <1>1, <1>2, <2>1, WithdrawFacts
  <2>2. CASE id \notin Given(agent, id)
    <3>1. ~Stands(promises[id])
      BY <1>1, <2>2 DEF Given, Honoured, Honours, Stands
    <3> QED
      BY <1>1, <1>2, <2>2, <3>1, WithdrawFacts
  <2> QED
    BY <2>1, <2>2
<1>4. \A i \in TaskIds : i # id => promises'[i] = promises[i]
  BY <1>1, <1>2, WithdrawFacts
<1>5. promises' \in PromiseTable
  BY <1>1, <1>2, PromiseTypes
<1>6. /\ clock' = clock
      /\ disk' \in SaveState(Cleanup([tasks EXCEPT ![id] = NoTask], clock))
      /\ up' => tasks' = Cleanup([tasks EXCEPT ![id] = NoTask], clock)
  BY DEF CancelTask, CrashInCancel, UpdateDeviceStateAndSchedule, Stopped
<1> QED
  BY <1>1, <1>3, <1>4, <1>5, <1>6

\* Time passes: promised slots lapse when they end, never before.
LEMMA LapseFacts ==
  ASSUME promises \in PromiseTable, NEW now, NEW i \in TaskIds
  PROVE  LET p    == promises[i]
             q    == Lapse(now)[i]
             left == Unended(p.slots, now)
         IN  IF ~Stands(p) \/ (\A d \in Devices : left[d] = {}) THEN ~Stands(q)
             ELSE /\ Stands(q) /\ q.slots = left
                  /\ q.agent = p.agent /\ q.priority = p.priority /\ q.from = p.from
<1> DEFINE p    == promises[i]
           q    == Lapse(now)[i]
           left == Unended(p.slots, now)
<1>1. CASE p = NoPromise \/ (\A d \in Devices : left[d] = {})
  <2>1. q = NoPromise
    BY <1>1 DEF Lapse
  <2> QED
    BY <1>1, <2>1 DEF Stands
<1>2. CASE p # NoPromise /\ ~(\A d \in Devices : left[d] = {})
  <2>1. q = [p EXCEPT !.slots = left]
    BY <1>2 DEF Lapse
  <2>2. p \in PromiseRecord
    BY <1>2 DEF PromiseTable
  <2>3. left \in [Devices -> SUBSET Slices]
    BY <2>2, UnendedType DEF PromiseRecord
  <2> HIDE DEF p, q, left
  <2>4. /\ q \in PromiseRecord /\ q.slots = left /\ q.void = p.void
        /\ q.agent = p.agent /\ q.priority = p.priority /\ q.from = p.from
    BY <2>1, <2>2, <2>3 DEF PromiseRecord
  <2>5. q # NoPromise
    BY <2>4, SentinelsAssumption
  <2> QED
    BY <1>2, <2>4, <2>5 DEF Stands, p, q, left
<1> QED
  BY <1>1, <1>2

-----------------------------------------------------------------------------
(* Promises are kept. *)

\* No write of the state file fails, so every new process finds the schedule.
ReliableFile == StateFile /\ ~TornWrites

LEMMA SaveWorks ==
  ASSUME ReliableFile, NEW ts, NEW f \in SaveState(ts)
  PROVE  Loadable(f) = ts
BY DEF ReliableFile, SaveState, Saved, Loadable

LEMMA InitPromiseInv == Init => PromiseInv
<1> SUFFICES ASSUME Init
             PROVE  PromiseInv
  OBVIOUS
<1>1. \A i \in TaskIds : ~Stands(promises[i])
  BY DEF Init, Stands
<1> QED
  BY <1>1, InitTypeOK DEF PromiseInv, Honoured, Unexpired

LEMMA NextPromiseInv ==
  ASSUME ReliableFile
  PROVE  PromiseInv /\ [Next]_vars => PromiseInv'
<1> SUFFICES ASSUME PromiseInv, [Next]_vars
             PROVE  PromiseInv'
  OBVIOUS
<1>0. /\ clock \in Nat /\ timer \in Nat /\ tasks \in TaskTable
      /\ promises \in PromiseTable /\ disk.tasks \in TaskTable
      /\ Unexpired(promises, clock)
      /\ up => Honoured(tasks, promises)
      /\ Honoured(Loadable(disk), promises)
  BY DEF PromiseInv, TypeOK, PromiseTable
<1> DEFINE Kept == /\ Unexpired(promises', clock')
                   /\ up' => Honoured(tasks', promises')
                   /\ Honoured(Loadable(disk'), promises')
<1>t. TypeOK'
  BY NextTypeOK DEF PromiseInv
<1>k. Kept => PromiseInv'
  BY <1>t DEF PromiseInv, Unexpired, Honoured, Honours, Stands, Loadable, NoTasks
<1>1. CASE RejectRequest
  <2>1. up /\ tasks' = Cleanup(tasks, clock) /\ UNCHANGED <<clock, disk, promises>>
    BY <1>1 DEF RejectRequest
  <2>2. Honoured(Cleanup(tasks, clock), promises)
    BY <1>0, <2>1, CleanupHonours
  <2> QED
    BY <1>0, <1>k, <2>1, <2>2
<1>2. ASSUME NEW header \in Headers, NEW request \in Requests,
             AcceptRequest(header, request) \/ CrashInRequest(header, request)
      PROVE  PromiseInv'
  <2> DEFINE ts      == Cleanup(tasks, clock)
             victims == Conflicting(ts, request)
             new(span)   == NewTask(header, request, span)
             after(span) == WithNewTask(ts, header.id, new(span), victims, clock)
  <2>1. up /\ clock' = clock /\ Acceptable(ts, header, request)
    BY <1>2, RequestStep DEF PromiseInv
  <2>2. PICK span \in SpanOf(request) :
          /\ disk' \in SaveState(after(span))
          /\ up' => tasks' = after(span)
          /\ PromisesGranted(promises', header.id, Promise(new(span), clock), victims)
    BY <1>2, RequestStep DEF PromiseInv
  <2>3. ts \in TaskTable /\ Honoured(ts, promises)
    BY <1>0, <2>1, CleanupFacts, CleanupHonours
  <2> HIDE DEF ts
  <2>4. Honoured(after(span), promises') /\ Unexpired(promises', clock)
    BY <1>0, <2>1, <2>2, <2>3, GrantHonours
  <2> HIDE DEF after
  <2>5. Loadable(disk') = after(span)
    BY <2>2, SaveWorks
  <2> QED
    BY <1>k, <2>1, <2>2, <2>4, <2>5
<1>3. ASSUME NEW agent \in Agents, NEW id \in TaskIds,
             CancelTask(agent, id) \/ CrashInCancel(agent, id)
      PROVE  PromiseInv'
  <2> DEFINE left  == [tasks EXCEPT ![id] = NoTask]
             after == Cleanup(left, clock)
  <2>1. /\ up /\ clock' = clock /\ disk' \in SaveState(after)
        /\ up' => tasks' = after
        /\ promises' \in PromiseTable /\ ~Stands(promises'[id])
        /\ \A i \in TaskIds : i # id => promises'[i] = promises[i]
    BY <1>3, CancelStep
  <2>2. left \in TaskTable /\ \A i \in TaskIds : i # id => left[i] = tasks[i]
    BY <1>0 DEF TaskTable
  <2> HIDE DEF left
  <2>3. Unexpired(promises', clock)
    BY <1>0, <2>1 DEF Unexpired
  <2>4. Honoured(left, promises')
    BY <1>0, <2>1, <2>2 DEF Honoured
  <2>5. Honoured(after, promises')
    BY <1>0, <2>1, <2>2, <2>3, <2>4, CleanupHonours
  <2> HIDE DEF after
  <2>6. Loadable(disk') = after
    BY <2>1, SaveWorks
  <2> QED
    BY <1>k, <2>1, <2>3, <2>5, <2>6
<1>4. CASE TimerFires
  <2>1. /\ up /\ timer <= clock /\ UNCHANGED <<clock, disk, promises>>
        /\ up' => tasks' = Cleanup(tasks, timer)
    BY <1>4 DEF TimerFires, UpdateDeviceStateAndSchedule, Stopped
  <2>2. Honoured(Cleanup(tasks, timer), promises)
    BY <1>0, <2>1, CleanupHonours
  <2> QED
    BY <1>0, <1>k, <2>1, <2>2
<1>5. CASE Restart
  <2>1. /\ UNCHANGED <<clock, disk, promises>>
        /\ up' => tasks' = LoadState(clock)
    BY <1>5 DEF Restart, UpdateDeviceStateAndSchedule, Stopped
  <2>2. Honoured(LoadState(clock), promises)
    BY <1>0, CleanupHonours DEF LoadState, Loadable
  <2> QED
    BY <1>0, <1>k, <2>1, <2>2
<1>6. CASE Crash
  BY <1>0, <1>k, <1>6 DEF Crash, Stopped
<1>7. CASE Tick
  <2>1. /\ clock' = clock + 1 /\ promises' = Lapse(clock + 1)
        /\ UNCHANGED <<up, tasks, disk>>
    BY <1>7 DEF Tick
  <2>2. ASSUME NEW i \in TaskIds, Stands(promises'[i])
        PROVE  /\ Stands(promises[i])
               /\ promises'[i].agent = promises[i].agent
               /\ promises'[i].priority = promises[i].priority
               /\ promises'[i].from = promises[i].from
               /\ \E d \in Devices : promises'[i].slots[d] # {}
               /\ \A d \in Devices :
                    /\ promises'[i].slots[d] \subseteq promises[i].slots[d]
                    /\ \A x \in promises'[i].slots[d] : x.end > clock'
    <3> DEFINE left == Unended(promises[i].slots, clock + 1)
    <3>1. /\ Stands(promises[i]) /\ promises'[i].slots = left
          /\ ~(\A d \in Devices : left[d] = {})
          /\ promises'[i].agent = promises[i].agent
          /\ promises'[i].priority = promises[i].priority
          /\ promises'[i].from = promises[i].from
      BY <1>0, <2>1, <2>2, LapseFacts
    <3>2. \A d \in Devices : /\ left[d] \subseteq promises[i].slots[d]
                             /\ \A x \in left[d] : x.end > clock'
      BY <2>1 DEF Unended
    <3> HIDE DEF left
    <3> QED
      BY <3>1, <3>2
  <2>3. \A ts : Honoured(ts, promises) => Honoured(ts, promises')
    BY <2>2 DEF Honoured, Honours
  <2>4. Unexpired(promises', clock')
    BY <2>2 DEF Unexpired
  <2> QED
    BY <1>0, <1>k, <2>1, <2>3, <2>4
<1>8. CASE ClockStepsBack
  <2>1. /\ clock' \in Nat /\ clock' < clock
        /\ UNCHANGED <<up, tasks, disk, promises>>
    BY <1>0, <1>8 DEF ClockStepsBack
  <2>2. Unexpired(promises, clock')
    <3> SUFFICES ASSUME NEW i \in TaskIds, Stands(promises[i]),
                        NEW d \in Devices, NEW x \in promises[i].slots[d]
                 PROVE  x.end > clock'
      BY <1>0 DEF Unexpired
    <3>1. x.end \in Nat /\ x.end > clock
      BY <1>0 DEF Unexpired, Stands, PromiseTable, PromiseRecord, Slices
    <3> QED
      BY <1>0, <2>1, <3>1
  <2> QED
    BY <1>0, <1>k, <2>1, <2>2
<1>9. CASE UNCHANGED vars
  BY <1>0, <1>k, <1>9 DEF vars
<1> QED
  BY <1>1, <1>2, <1>3, <1>4, <1>5, <1>6, <1>7, <1>8, <1>9 DEF Next

\* With a state file whose writes succeed, the schedule of a running agent and
\* the file honour the same promises, and no promise that stands has run out.
THEOREM PromiseInvariant ==
  ASSUME ReliableFile
  PROVE  Spec => []PromiseInv
<1>1. PromiseInv /\ [Next]_vars => PromiseInv'
  BY NextPromiseInv
<1> QED
  BY <1>1, InitPromiseInv, PTL DEF Spec

\* With a state file whose writes succeed, a client that was told SUCCESS and
\* not told otherwise has all its slots whenever the agent runs: through
\* crashes at any point, failed assertions, and clocks set back.
THEOREM PromisesAlwaysKept ==
  ASSUME ReliableFile
  PROVE  Spec => []PromisesKept
<1>1. PromiseInv => PromisesKept
  BY DEF PromiseInv, PromisesKept, Honoured, Honours
<1> QED
  BY <1>1, PromiseInvariant, PTL

-----------------------------------------------------------------------------
(* The agent implements the calendar. *)

LEMMA ReservationOfType ==
  ASSUME NEW p \in PromiseRecord, Stands(p)
  PROVE  ReservationOf(p) \in Reservations!Reservation /\ ReservationOf(p) # NoPromise
<1>1. [agent |-> p.agent, priority |-> p.priority, from |-> p.from, slots |-> p.slots]
        \in Reservations!Reservation
  BY DEF PromiseRecord, Priorities, Slices, Reservations!Reservation, Reservations!Slices
<1> QED
  BY <1>1, NoPromiseAssumption DEF ReservationOf

\* The calendar's reservations are the promises that stand.
LEMMA BookedIsStanding ==
  ASSUME promises \in PromiseTable
  PROVE  /\ Reservations!Booked = {i \in TaskIds : Stands(promises[i])}
         /\ \A i \in TaskIds : ~Stands(promises[i]) => Reserved[i] = NoPromise
         /\ \A i \in TaskIds : Reserved[i] = ReservationOf(promises[i])
<1>1. \A i \in TaskIds : Reserved[i] = ReservationOf(promises[i])
  BY DEF Reserved
<1>2. \A i \in TaskIds : Stands(promises[i]) => ReservationOf(promises[i]) # NoPromise
  <2> SUFFICES ASSUME NEW i \in TaskIds, Stands(promises[i])
               PROVE  ReservationOf(promises[i]) # NoPromise
    OBVIOUS
  <2>1. promises[i] \in PromiseRecord
    BY DEF PromiseTable, Stands
  <2> QED
    BY <2>1, ReservationOfType
<1>3. \A i \in TaskIds : ~Stands(promises[i]) => ReservationOf(promises[i]) = NoPromise
  BY DEF ReservationOf
<1> QED
  BY <1>1, <1>2, <1>3 DEF Reservations!Booked

\* A victim of an acceptable request has to yield: it has low priority and has
\* not begun, or may be preempted at any time.
LEMMA VictimYields ==
  ASSUME NEW ts, NEW header, NEW request, Acceptable(ts, header, request),
         Honoured(ts, promises), promises \in PromiseTable,
         \A i \in TaskIds :
           Stands(promises[i]) /\ ts[i].state = "PRE_RUN" => promises[i].from > clock,
         NEW i \in Conflicting(ts, request), Stands(promises[i])
  PROVE  header.priority = "HIGH" /\ Reservations!Yields(Reserved[i])
<1>1. i \in TaskIds
  BY DEF Conflicting, Live
<1>2. /\ header.priority = "HIGH" /\ ts[i].priority # "HIGH"
      /\ ts[i].state = "RUNNING" => ts[i].priority = "LOW_PREEMPT"
  BY DEF Acceptable, CheckCanPreemptOther
<1>3. /\ promises[i].priority = ts[i].priority
      /\ ts[i].state \in {"PRE_RUN", "RUNNING"}
  BY <1>1 DEF Honoured, Honours
<1>4. promises[i].priority \in {"HIGH", "LOW", "LOW_PREEMPT"}
  BY <1>1 DEF PromiseTable, PromiseRecord, Priorities, Stands
<1>5. /\ Reserved[i].priority = promises[i].priority
      /\ Reserved[i].from = promises[i].from
  BY <1>1 DEF Reserved, ReservationOf
<1> QED
  BY <1>1, <1>2, <1>3, <1>4, <1>5 DEF Reservations!Yields

\* A promise in nobody's way does not clash with the new one.
LEMMA OthersDoNotClash ==
  ASSUME NEW ts, NEW request, Honoured(ts, promises),
         NEW i \in TaskIds, Stands(promises[i]), i \notin Conflicting(ts, request),
         NEW p, Stands(p),
         \A d \in Devices : p.slots[d] \subseteq SlotsOf(request)[d]
  PROVE  ~Reservations!Clash(Reserved[i], ReservationOf(p))
<1>1. /\ Reserved[i].slots = promises[i].slots
      /\ ReservationOf(p).slots = p.slots
  BY DEF Reserved, ReservationOf
<1> SUFFICES ASSUME NEW d \in Devices, NEW x \in promises[i].slots[d],
                    NEW y \in p.slots[d], Conflict(x, y)
             PROVE  FALSE
  BY <1>1 DEF Reservations!Clash, Reservations!Conflict, Reservations!Before,
              Conflict, Before
<1>2. i \in Live(ts) /\ x \in ts[i].slots[d] /\ y \in SlotsOf(request)[d]
  BY DEF Honoured, Honours, Live
<1>3. TaskConflicts(SlotsOf(request), ts[i])
  BY <1>2 DEF TaskConflicts, GetConflicts, CheckAvailability
<1> QED
  BY <1>2, <1>3 DEF Conflicting

\* A granted request reserves; if its slots are past, or the process died
\* before the answer, its victims only give way.
LEMMA RequestRefines ==
  ASSUME PromiseInv, NEW header \in Headers, NEW request \in Requests,
         AcceptRequest(header, request) \/ CrashInRequest(header, request)
  PROVE  Reservations!Next
<1> DEFINE ts      == Cleanup(tasks, clock)
           victims == Conflicting(ts, request)
           id      == header.id
           q(span) == Promise(NewTask(header, request, span), clock)
<1>0. /\ clock \in Nat /\ tasks \in TaskTable /\ promises \in PromiseTable
      /\ Unexpired(promises, clock) /\ (up => Honoured(tasks, promises))
  BY DEF PromiseInv, TypeOK, PromiseTable
<1>1. up /\ clock' = clock /\ Acceptable(ts, header, request)
  BY RequestStep DEF PromiseInv
<1>2. PICK span \in SpanOf(request) :
        PromisesGranted(promises', id, q(span), victims)
  BY RequestStep DEF PromiseInv
<1>3. /\ Honoured(ts, promises)
      /\ \A i \in TaskIds :
           Stands(promises[i]) /\ ts[i].state = "PRE_RUN" => promises[i].from > clock
  BY <1>0, <1>1, CleanupHonours
<1> HIDE DEF ts
<1>4. id \in TaskIds /\ ~Stands(promises[id])
  BY <1>1, <1>3, FreshId
<1>5. \A i \in victims : Stands(promises[i]) =>
        header.priority = "HIGH" /\ Reservations!Yields(Reserved[i])
  BY <1>0, <1>1, <1>3, VictimYields
<1>6. ~MalformedRequest(request)
  BY <1>1 DEF Acceptable
<1> HIDE DEF victims, id, q
<1>7. /\ promises' \in PromiseTable
      /\ \A i \in TaskIds : Stands(promises'[i]) =>
           \/ i = id /\ promises'[i] = q(span)
           \/ i \notin victims /\ promises'[i] = promises[i]
      /\ \A i \in TaskIds \ victims : i # id => promises'[i] = promises[i]
  BY <1>2 DEF PromisesGranted
<1>8. /\ Reserved \in [TaskIds -> {ReservationOf(promises[i]) : i \in TaskIds}]
      /\ Reserved' \in [TaskIds -> {ReservationOf(promises'[i]) : i \in TaskIds}]
      /\ \A i \in TaskIds : /\ Reserved[i] = ReservationOf(promises[i])
                            /\ Reserved'[i] = ReservationOf(promises'[i])
  BY DEF Reserved
<1> DEFINE gone == {i \in victims : Stands(promises[i])}
<1>9. /\ gone \subseteq Reservations!Booked
      /\ \A i \in Reservations!Booked : i \in TaskIds /\ Stands(promises[i])
      /\ id \notin Reservations!Booked
      /\ \A i \in TaskIds : ~Stands(promises[i]) => Reserved[i] = NoPromise
      /\ \A i \in TaskIds : ~Stands(promises'[i]) => Reserved'[i] = NoPromise
  <2>1. victims \subseteq TaskIds
    BY DEF victims, Conflicting, Live
  <2>2. \A i \in TaskIds : ~Stands(promises'[i]) => ReservationOf(promises'[i]) = NoPromise
    BY DEF ReservationOf
  <2> QED
    BY <1>0, <1>4, <1>8, <2>1, <2>2, BookedIsStanding
<1>10. \A i \in TaskIds : i # id =>
         Reserved'[i] = IF i \in gone THEN NoPromise ELSE Reserved[i]
  <2> SUFFICES ASSUME NEW i \in TaskIds, i # id
               PROVE  Reserved'[i] = IF i \in gone THEN NoPromise ELSE Reserved[i]
    OBVIOUS
  <2>1. CASE i \in victims
    <3>1. ~Stands(promises'[i])
      BY <1>7, <2>1
    <3> QED
      BY <1>9, <2>1, <3>1
  <2>2. CASE i \notin victims
    BY <1>7, <1>8, <2>2
  <2> QED
    BY <2>1, <2>2
<1>11. CASE ~Stands(promises'[id])
  <2>1. Reserved'[id] = NoPromise /\ Reserved[id] = NoPromise
    BY <1>4, <1>9, <1>11
  <2>2. Reserved' = [i \in TaskIds |-> IF i \in gone THEN NoPromise ELSE Reserved[i]]
    BY <1>8, <1>10, <2>1
  <2>3. Reserved' = Reservations!Drop(gone)
    BY <2>2 DEF Reservations!Drop
  <2>4. \A i \in gone : Reservations!Yields(Reserved[i])
    BY <1>5
  <2> HIDE DEF gone
  <2>5. Reservations!GiveWay
    BY <1>1, <1>9, <2>3, <2>4 DEF Reservations!GiveWay
  <2> QED
    BY <2>5 DEF Reservations!Next
<1>12. CASE Stands(promises'[id])
  <2> DEFINE r    == Reserved'[id]
             lost == {j \in Reservations!Booked : Reserved'[j] = NoPromise}
  <2>1. promises'[id] = q(span)
    BY <1>4, <1>7, <1>12
  <2>2. Stands(q(span)) /\ r = ReservationOf(q(span))
    BY <1>4, <1>8, <1>12, <2>1
  <2>3. /\ q(span) \in PromiseRecord
        /\ q(span).priority = header.priority
        /\ \A d \in Devices : q(span).slots[d] \subseteq SlotsOf(request)[d]
    BY <1>0, <1>6, <2>2, NewPromise DEF q
  <2>4. r \in Reservations!Reservation /\ r.priority = header.priority
    <3>1. ReservationOf(q(span)) \in Reservations!Reservation
      BY <2>2, <2>3, ReservationOfType
    <3> QED
      BY <2>2, <2>3, <3>1 DEF ReservationOf
  <2>5. lost = gone
    <3>1. \A j \in Reservations!Booked : j # id /\ Reserved[j] # NoPromise
      BY <1>9 DEF Reservations!Booked
    <3> QED
      BY <1>9, <1>10, <3>1
  <2>6. Reserved' = [Reservations!Drop(gone) EXCEPT ![id] = r]
    BY <1>4, <1>8, <1>10 DEF Reservations!Drop
  <2>7. \A j \in gone : r.priority = "HIGH" /\ Reservations!Yields(Reserved[j])
    BY <1>5, <2>4
  <2>8. \A j \in Reservations!Booked \ gone : ~Reservations!Clash(Reserved[j], r)
    BY <1>3, <1>9, <2>2, <2>3, OthersDoNotClash DEF victims
  <2> HIDE DEF gone, r
  <2>9. Reservations!Reserve(id)
    <3>1. /\ Reserved' = [Reservations!Drop(lost) EXCEPT ![id] = r]
          /\ \A j \in lost : r.priority = "HIGH" /\ Reservations!Yields(Reserved[j])
          /\ \A j \in Reservations!Booked \ lost : ~Reservations!Clash(Reserved[j], r)
      BY <2>5, <2>6, <2>7, <2>8
    <3> QED
      BY <1>1, <1>9, <2>4, <3>1 DEF Reservations!Reserve, r
  <2> QED
    BY <1>4, <2>9 DEF Reservations!Next
<1> QED
  BY <1>11, <1>12

\* A cancellation cancels the reservation of the task, if it still has one.
LEMMA CancelRefines ==
  ASSUME PromiseInv, NEW agent \in Agents, NEW id \in TaskIds,
         CancelTask(agent, id) \/ CrashInCancel(agent, id)
  PROVE  Reservations!Next \/ UNCHANGED <<clock, Reserved>>
<1>1. /\ clock' = clock /\ ~Stands(promises'[id])
      /\ \A i \in TaskIds : i # id => promises'[i] = promises[i]
  BY CancelStep
<1>2. promises \in PromiseTable
  BY DEF PromiseInv, TypeOK, PromiseTable
<1>3. Reserved' = [i \in TaskIds |-> IF i = id THEN NoPromise ELSE Reserved[i]]
  BY <1>1 DEF Reserved, ReservationOf
<1>4. CASE Stands(promises[id])
  <2>1. id \in Reservations!Booked
    BY <1>2, <1>4, BookedIsStanding
  <2>2. Reserved' = Reservations!Drop({id})
    BY <1>3 DEF Reservations!Drop
  <2> QED
    BY <1>1, <2>1, <2>2 DEF Reservations!Cancel, Reservations!Next
<1>5. CASE ~Stands(promises[id])
  <2>1. Reserved' = Reserved
    BY <1>1, <1>5 DEF Reserved, ReservationOf
  <2> QED
    BY <1>1, <2>1
<1> QED
  BY <1>4, <1>5

\* Time passes for the calendar as it does for the agent.
LEMMA TickRefines ==
  ASSUME promises \in PromiseTable, Tick
  PROVE  Reservations!Pass
<1>1. clock' = clock + 1 /\ promises' = Lapse(clock + 1)
  BY DEF Tick
<1> DEFINE left(i) == [d \in Devices |-> {x \in Reserved[i].slots[d] : x.end > clock + 1}]
<1>2. ASSUME NEW i \in TaskIds
      PROVE  Reserved'[i] =
               IF i \notin Reservations!Booked \/ (\A d \in Devices : left(i)[d] = {})
               THEN NoPromise ELSE [Reserved[i] EXCEPT !.slots = left(i)]
  <2>1. Reserved[i] = ReservationOf(promises[i]) /\ Reserved'[i] = ReservationOf(promises'[i])
    BY DEF Reserved
  <2>2. i \in Reservations!Booked <=> Stands(promises[i])
    BY BookedIsStanding
  <2>3. CASE ~Stands(promises[i])
    <3>1. ~Stands(promises'[i])
      BY <1>1, <2>3, LapseFacts
    <3> QED
      BY <2>1, <2>2, <2>3, <3>1 DEF ReservationOf
  <2>4. CASE Stands(promises[i])
    <3> DEFINE rest == Unended(promises[i].slots, clock + 1)
    <3>1. Reserved[i] = [agent |-> promises[i].agent, priority |-> promises[i].priority,
                         from |-> promises[i].from, slots |-> promises[i].slots]
      BY <2>1, <2>4 DEF ReservationOf
    <3>2. left(i) = rest
      BY <3>1 DEF Unended
    <3> HIDE DEF left, rest
    <3>3. [Reserved[i] EXCEPT !.slots = rest]
            = [agent |-> promises[i].agent, priority |-> promises[i].priority,
               from |-> promises[i].from, slots |-> rest]
      BY <3>1
    <3>4. CASE \A d \in Devices : rest[d] = {}
      <4>1. ~Stands(promises'[i])
        BY <1>1, <3>4, LapseFacts DEF rest
      <4> QED
        BY <2>1, <3>2, <3>4, <4>1 DEF ReservationOf
    <3>5. CASE ~(\A d \in Devices : rest[d] = {})
      <4>1. /\ Stands(promises'[i]) /\ promises'[i].slots = rest
            /\ promises'[i].agent = promises[i].agent
            /\ promises'[i].priority = promises[i].priority
            /\ promises'[i].from = promises[i].from
        BY <1>1, <2>4, <3>5, LapseFacts DEF rest
      <4> QED
        BY <2>1, <2>2, <2>4, <3>2, <3>3, <3>5, <4>1 DEF ReservationOf
    <3> QED
      BY <3>4, <3>5
  <2> QED
    BY <2>3, <2>4
<1>3. Reserved' = [i \in TaskIds |->
        IF i \notin Reservations!Booked THEN NoPromise
        ELSE IF \A d \in Devices : left(i)[d] = {} THEN NoPromise
        ELSE [Reserved[i] EXCEPT !.slots = left(i)]]
  <2> HIDE DEF left
  <2>1. Reserved' = [i \in TaskIds |-> Reserved'[i]]
    BY DEF Reserved
  <2> QED
    BY <1>2, <2>1
<1> QED
  BY <1>1, <1>3 DEF Reservations!Pass

LEMMA NextRefines ==
  ASSUME ~ClockMayStepBack
  PROVE  PromiseInv /\ [Next]_vars => [Reservations!Next]_<<clock, Reserved>>
<1> SUFFICES ASSUME PromiseInv, [Next]_vars
             PROVE  Reservations!Next \/ UNCHANGED <<clock, Reserved>>
  OBVIOUS
<1>1. CASE UNCHANGED <<clock, promises>>
  BY <1>1 DEF Reserved
<1>2. ASSUME NEW header \in Headers, NEW request \in Requests,
             AcceptRequest(header, request) \/ CrashInRequest(header, request)
      PROVE  Reservations!Next
  BY <1>2, RequestRefines
<1>3. ASSUME NEW agent \in Agents, NEW id \in TaskIds,
             CancelTask(agent, id) \/ CrashInCancel(agent, id)
      PROVE  Reservations!Next \/ UNCHANGED <<clock, Reserved>>
  BY <1>3, CancelRefines
<1>4. CASE Tick
  <2>1. promises \in PromiseTable
    BY DEF PromiseInv, TypeOK, PromiseTable
  <2> QED
    BY <1>4, <2>1, TickRefines DEF Reservations!Next
<1>5. CASE RejectRequest \/ TimerFires \/ Crash \/ Restart \/ UNCHANGED vars
  BY <1>1, <1>5 DEF RejectRequest, TimerFires, Crash, Restart, vars
<1>6. CASE ClockStepsBack
  BY <1>6 DEF ClockStepsBack
<1> QED
  BY <1>2, <1>3, <1>4, <1>5, <1>6 DEF Next

\* With a state file whose writes succeed and a clock that is not set back, the
\* actuator agent implements the calendar of reservations: whatever crashes it
\* goes through, no two clients are left believing they have a device at one
\* time, and no promise gives way that should not.
THEOREM AgentImplementsCalendar ==
  ASSUME ReliableFile, ~ClockMayStepBack
  PROVE  Spec => Implements
<1>1. Init => Reservations!Init
  BY DEF Init, Reservations!Init, Reserved, ReservationOf, Stands
<1>2. PromiseInv /\ [Next]_vars => PromiseInv'
  BY NextPromiseInv
<1>3. PromiseInv /\ [Next]_vars => [Reservations!Next]_<<clock, Reserved>>
  BY NextRefines
<1> QED
  BY <1>1, <1>2, <1>3, InitPromiseInv, PTL DEF Spec, Implements, Reservations!Spec

=============================================================================
