# Verification of BEMOSS / VOLTTRON Lite

TLA+ models, TLC runs and TLAPS proofs kept beside the BEMOSS building-automation
code (Python 2.7 agents on the VOLTTRON Lite platform). `PROJECT.json` holds the
machine-readable index: components, runs, the lines every definition models, hazards,
findings, theorems.

## 1. The system

BEMOSS runs as a set of single-threaded agent processes around one message exchange.

| Part | Code | State it keeps | Operations |
|---|---|---|---|
| Actuator agent | `Agents/ActuatorAgent/actuator/{scheduler,agent}.py` | tasks with their slots per device, the lock table, one update event, a state file | new schedule, cancel, get/set under a lock, update event, load/save |
| Base agent | `volttron/lite/agent/{base,sched,green,multithreading}.py` | reactor, two event heaps, subscriptions | poll, schedule, dispatch |
| Message exchange | `volttron/lite/main.py` (`agent_exchange`) | the set of subscriptions | forward, add, remove, list |
| Agent instantiation | `volttron/lite/{aip,control,commands,resmon}.py` | installed and running agents, resource contracts | load, enable, start, stop, status |
| App launcher | `bemoss/Applications/code/AppLauncherAgent` | table `application_running` | launch, disable, restart apps |
| Scheduler apps | `bemoss/Applications/code/{Thermostat,Lighting,Plugload}_Scheduler` | current schedule, next change, day | clock tick, schedule update from the UI |
| Device discovery | `Agents/DeviceDiscoveryAgent` | tables of devices, launch files | scan, insert, launch, restart |
| Device agents | `Agents/{Thermostat,Lighting,Plugload}Agent` | the agent's view of its device, its database row, notifications sent | monitor, control, notify |
| Multi-building | `Agents/MultiBuilding` | publish and subscribe sockets per building | send, subscribe, clean up |
| Keep-alive, initiator | `bemoss/lite` | none | start, restart the platform |
| Drivers, archiver, examples | `volttron/drivers`, `Agents/*` | none to speak of | sMAP and field-bus I/O |

Agents interact only through published messages (topic, headers, body), the
PostgreSQL tables, files, and `volttron-ctrl` commands run through a shell. Nothing
acknowledges a message. Each agent handles one message or timer event at a time.

What makes it hard:

* *The actuator agent* arbitrates devices between agents. Its correctness is a matter
  of long sequences of requests, of time passing between updates, of a table that is
  cached, of a timer that works with its deadline instead of the time, and of a state
  file written in one place of a handler that also answers and notifies.
  *Correct* means: no double booking; a client that was told SUCCESS keeps its slots
  until it is told otherwise; only a holder passes `check_lock`, and it does while its
  slot lasts; a lock is not withdrawn without the grace period; a restart changes none
  of this; the agent survives every request.
* *The app launcher and discovery* act in steps on a shell, a database and a file, none
  of which is atomic with the others, while the platform under them may go down.
  *Correct* means: a device is recorded before its agent runs; a device in BEMOSS has its
  agent in the end, one that was taken out has none; an app launcher that is started runs the
  apps that are recorded as running.
* *Scheduler apps* poll the wall clock. *Correct* means: what they sent last is what
  today's list asks for, across day changes, new files, missed ticks and restarts; and no
  schedule with all its lists ends them.
* *Device agents* do slow device, database and mail calls on the thread that runs their
  loop. *Correct* means: neither messages nor timers starve; a mail is sent once per
  heartbeat and again after it.
* *The exchange and the multi-building agent* keep sets that must follow subscriptions
  made elsewhere, by add and remove messages and by lists that may cross them.
  *Correct* means: no topic is missed of a building the launch file knows, as long as no
  message is dropped; a PUSH socket is kept while it is in use.

The hazards of the code, with their lines, are listed in `PROJECT.json`.

## 2. Modules

```
Schedules ─── ScheduleLists                     (the list and bisect, against sets)
    │
ActuatorAgent ── ActuatorRefinement ── MCActuator
                       └─ INSTANCE DeviceReservations   (abstract calendar)

SchedulerApp ── MCScheduler                     (what to send to a device, and when)

AgentPlatform ── AgentLaunching ── MCPlatform   (commands, and who sends them)

EventLoop ── DeviceAgent ── MCDevice            (the loop, and an agent on it)

Exchange ── MultiBuilding ── MCBuildings        (the broker, and an agent on it)
```

Each line is a chain of EXTENDS; the proofs of module `M` are in `M_proofs`. The five
families meet in the code only through published messages, the database and shell
commands; each is composed with what the others can send it, in any order.

Operators named `Faulty...`, `Late...`, `Lax...`, `Hasty...`, `Careless...`,
`Stale...` and the like, each written before the definition it is a variant of, are
plausible bugs in it. No specification uses them; replacing the definition by the
variant shows that a property notices.

### The actuator

**Schedules** models `TimeSlice` and `Schedule`. Time is an integer number of ticks,
`TicksPerSecond` of them to a second, because the code rounds event times to whole
seconds and slots may not be whole. `Before` is `__cmp__`, including what it says of
slots of no length, which `__init__` accepts. A schedule is the *set* of its slots;
each method is an operator on sets.

**ScheduleLists** is the same class as it is coded: a list kept by `bisect.insort` and
searched by `bisect_left`/`bisect_right` through `__cmp__`, which is not a total order.
What the searches find is what the sets of `Schedules` say, for every list the methods
can build: TLC checks it over a small range of times, and it is proved for every range. This is
what entitles the other modules to use sets. (`bisect` is external: Python's library.)

**ActuatorAgent** is the agent: `Task`, `ScheduleManager`, the handlers and the update
event. One action is one handler run to its end, because the process is single threaded:

| Variable | Code |
|---|---|
| `clock` | `datetime.datetime.now()` |
| `up`, `asserted` | the process runs; an assertion of `get_schedule_state` ended it once |
| `tasks` | `ScheduleManager.tasks` (`running_tasks` and `preemted_tasks` are the task states, recomputed by `_cleanup` before each use) |
| `lock` | `Agent._device_states` |
| `timer` | the deadline of `_update_event` |
| `disk` | the pickle file of `save_state` |
| `promises` | history only: what clients were promised and not told they lost |

| Action | Code |
|---|---|
| `AcceptRequest` | `handle_new` with a request granted: clean-up, checks, preemption, save, reply, update, notices |
| `RejectRequest` | `handle_new` with a request refused: only the clean-up changes state |
| `CancelTask` | `handle_cancel`: remove, save, update |
| `TimerFires` | `_update_schedule_state`, which passes the event's deadline as the time |
| `Crash`, `CrashInRequest`, `CrashInCancel` | the process dies between handlers, or before, during or after the save, the reply and the notices of one |
| `Restart` | `setup_schedule`: load, clean up, update |
| `Tick`, `ClockStepsBack` | the wall clock |

The update itself (`UpdateDeviceStateAndSchedule`) is not an action: it is the last
step of every handler that changes the schedule, as in the code.
`promises[i].void` marks a promise whose owner lost it in a handler that died before
it published the notice; the code has no means to keep those.

**DeviceReservations** is what the agent promises, in four actions: a calendar of
reservations that never clash, given up only by their owner or to a high-priority
request they have to yield to. **ActuatorRefinement** maps the promises that stand to
that calendar; `Implements` says every step of the agent is a step of it.

### The scheduler apps

**SchedulerApp** is `Thermostat_Scheduler`, and with `Kind` also `Lighting_Scheduler` and
`Plugload_Scheduler`, whose handlers are the same but for the setting and one print. Times
are minutes: all entries stand at whole minutes, and the code compares seconds of the day.

| Variable | Code |
|---|---|
| `now` | `datetime.datetime.now()` |
| `appSetting` | column `app_setting` of the app's row in `application_running` |
| `connected` | `cur` and `con`: no statement of the process has failed |
| `schedule` | `current_schedule_object`, `active_scheduler_mode` |
| `newTimes`, `settings` | `newTimeScheduleChange`, `timeModeTemp` |
| `currentUse`, `firstRun`, `oldDay`, `nextTime` | `current_use_schedule`, `schedule_first_run`, `old_day`, `time_next_schedule_sec` |
| `message`, `commanded` | what the last step published, and the last setting sent |
| `read` | history: the time the last tick took the clock to show |

`ClockBehavior` is `clockBehavior` with `set_query_mode_all_day` and `schedule_action`;
`UpdateScheduleBehavior` is `updateScheduleBehavior`, which commits the row before it reads
the file; `Start` is `__init__` of a new process; `Kill` ends one anywhere, also after the
commit. `clockBehavior` reads the clock three times (hour, minute, day), so a tick may take
the minute from before and the day from after a change: `Straddled` says where. Any
statement to the database may fail, and as nothing rolls back, all later ones of the process fail
with it: in `__init__` the app then runs without a schedule; in `updateScheduleBehavior` the row may or
may not have changed; the query for holidays (`set_query_mode_all_day`, if the schedule has
the mode) stands outside any try in `clockBehavior` and ends the app there, and in the
other two is caught after the schedule was taken without its list (`TakeInVain`). The clock is
not set back. The row of the app exists, because the launcher inserts it, before the UI sends
anything.

### The platform and those who start agents

**AgentPlatform** is `AIPLite` (`aip.py`) under the commands of `control.py`: `load-agent`,
`start-agent`, `stop-agent`, the running agents of `list-agent`, the end of a process, and
the end and restart of the platform. Every command is a greenlet; only `stop-agent` waits,
and others act meanwhile. **AgentLaunching** composes it with its clients: the app
launcher, discovery and an operator. A handler is a queue `todo[c]` of steps, one for each
command or commit, because each takes a shell, a table or a file, and others may act
in between. `FindDevice`, `CheckDevice` and `RecordDevice` are `findDevicesbytype`; `LaunchApp`,
`DisableApp`, `RecordApp` and `AppLauncherInitiator` are the launcher; `Approve` is the UI
changing `device_info.bemoss`; `Down` and `KeepAlivePlatform` are a crash and
`keep_platform_alive.py`. That script restarts `volttron-lite` and calls
`runAgents/runDeviceDiscoveryAgent.sh`, which is not in `runAgents/`: that discovery is back after a
restart, on which `Served` and `Evicted` rest then, is taken from the call. Nothing starts the app launcher
again but somebody who runs `runAgents/runAppLauncherAgent.sh` (`RunAppLauncher`), for which no
fairness is assumed. (`runBEMOSS.sh`, once, is the first start. `platform_initiator_core.py`, which it
runs before, empties `application_running` and removes the autostart files, so that
no agent is started by the platform itself; a second installation is not modelled.)

| Variable | Code |
|---|---|
| `agents`, `installed`, `stopping` | `AIPLite.agents`, the files of `install_dir`, greenlets inside `stop_agent` |
| `row` | table `application_running` |
| `known`, `bemoss`, `typed`, `files` | table `device_info` and its column `bemoss`, the table of the device's type, `Agents_Launch_DIR` |
| `read` | `bemoss_status`, read before `list-agent` and used after it |
| `alive` | discovery has not raised |
| `launcherUp`, `initiated` | the app launcher runs; `already_started_previous_apps` |

### A device agent on its loop

**EventLoop** is `BaseAgent.poll`/`step` and the queue of `sched.py`: a poll runs at most
one due timer, with the time taken when the poll began (`lag` is how stale that is), then
waits for the sockets as long as the next timer allows (`wait`). Times are relative to
now, so that the model stays finite and the clock needs no bound. **DeviceAgent** puts the
thermostat agent on it (the lighting and plugload agents have the same handlers):
`DeviceMonitorBehavior` with the notifications, `DeviceControlBehavior`, `UpdateUIBehavior`,
`DeviceIdentifyBehavior`, `AddNotificationEvent`, `RemoveNotificationEvent`. Each takes a time
from `Durations`, and the device and the database may fail in each. What the API answers to a
setting says nothing of the device: it is True for every request that came back, so the model lets the
device take the setting or not, whatever is answered. `ClockIsSet` sets the wall clock, from
which the notifications are timed, while the loop's clock is monotonic.

| Variable | Code |
|---|---|
| `left`, `lag`, `wait`, `phase` | the heap, the age of `mono_time`, what is left of the delay, where poll is |
| `known` | `self.variables` |
| `row`, `aborted` | the device's database row; a failed statement left the transaction aborted |
| `eventIds`, `sent` | `event_ids`, `time_sent_notifications` (as the `.seconds` since, by the wall clock) |
| `mailed`, `quiet` | history: events the last step tried to mail (`sendEmail` hides its errors), time since their mail before |
| `clockSets` | bound: how often the wall clock was set |

### The exchange and the multi-building agent

**Exchange** is `agent_exchange` of `main.py`: the XPUB socket that tells a topic with its
first subscriber and its last (`changes`), the set kept of that (`subscriptions`), the PULL socket
(`requests`), the answers to `subscriptions/list`, and the broadcasts (`bus`). An XPUB socket drops what
its subscriber has no room for: `Broadcast` does when `HighWater` messages wait for the agent, and `lost`
counts how many since the agent joined. ZeroMQ's mark is 1000 by default; it is a constant.
A topic is given up by `unsubscribe_all` or by the end of an agent (`Unsubscribe`), because
`unsubscribe` (`base.py:381-400`) raises TypeError for a handler it finds. **MultiBuilding** is the
agent's local side: `OnSubscribe`, `OnUnsubscribe`, `OnSubscriptionInit`, `OnSubscriptionList`, `OnSend`,
`OnCleanup`, and the failure of `handle_republish`. `subs` and `pubs` are its socket caches,
`sequence` is `self.sequence`; `idle` is history, cleanups since a PUSH socket was last used.
`joined` says that the agent's own subscription reached the exchange, before which
what it is sent is dropped. `hosts` are the buildings with an address in the launch file, which
`add_subscription` and `on_send` read anew at every call and which may be edited (`EditHosts`) or, being
written or broken, unreadable (`HostsUnreadable`, which ends the agent); a socket that is there is used without an
address. `steady` is history: the buildings that had an address ever since the agent started.

## 3. Runs

The MC modules give the instances; each .cfg picks the bounds and the faults.

| Run | Asks | Result |
|---|---|---|
| `actuator_steady` | the safety properties and `FairRevocation`; 2 agents, 2 devices, 3 tasks, half-second ticks | hold |
| `actuator_crash` | death at any point of any handler, restarts, saves that work, slots of no length | promises kept, no double booking, `Implements`, `TimerAdvances` |
| `actuator_torn` | saves that fail or leave a torn file | `AssertionInv`, `HolderHasLock` hold |
| `actuator_clock_set` | wall clock set back, failed assertions, restarts, a fair update event | `PromiseInv`, `LockReleased` hold |
| `schedule_lists` | list with bisect against set | agree |
| `scheduler_days` | a scheduler app over three days, four files, a failing database, kills and restarts | all hold |
| `platform_launching` | launcher, discovery and operator on a platform that may go down | all hold |
| `device_loop` | a device agent with slow handlers, failing calls and a wall clock that is set | all hold |
| `buildings_exchange` | exchange with dropped messages, two subscribers, the multi-building agent, edits of its launch file and restarts | all hold |
| `same_instant` | `AssertionsHold` with slots of no length | violated |
| `discovery_gap` | `Served` when the platform may go down between the commits for a device | violated |
| `device_refusal` | `RefusalHarmless`: a refused request does not end the agent | violated |

The properties, in words. Each module also has one `TypeOK`.

*Actuator*
* `NoDoubleBooking`: two tasks claim a device at one time only while one is preempted
  and the other has high priority.
* `AssertionsHold`: the assertions of `get_schedule_state` never fail.
* `PromisesKept`: every promised slot that has not ended is in the schedule under its id.
* `LockIsBacked`, `HolderHasLock`: while the update is not overdue, the lock table opens
  a device to nobody without a begun slot (up to the rounding to seconds) and to
  everybody with one (up to the rounding, and to a predecessor's grace period).
* `FairRevocation`: a lock ends early only by its owner's cancel, or for a LOW_PREEMPT
  task with the grace period left.
* `TimerAdvances`: an update arms the next one for later than its own deadline, or for the deadline
  again while a slot of no length lies there; never before it, however late it runs.
* `LockReleased`: a lock whose slot is over is taken back in the end.
* `Implements`: the agent implements the calendar.
* `AvailabilityIsExact`, `MethodsAgree`, `ListInOrder`: the list is the set.

*Scheduler apps*
* `AppSurvives`: an exception ends the app only if its schedule lacks the list of a day, or if it has
  to ask the database about holidays after a statement failed.
* `OnSchedule`: after a tick that read the clock right, the last setting sent is the entry
  of today's list that is due, whatever was missed, taken over or restarted before. This and
  the next are claimed of a schedule that has a list for today, and with a database that
  can be asked if it must be (`ServesToday`).
* `WakesForNext`: that tick leaves the app waiting for exactly the next entry.
* `RowInForce`: the schedule in force is the one the row names, so a restart resumes it, unless the
  file cannot be read or the database failed the app.

*Platform*
* `RecordedFirst`: the agent of a device runs only when the device is in both tables.
* `Served`, `Evicted`: a discovered device has its agent in the end, unless it is taken out
  of BEMOSS, and then it has none.
* `Resumed`: an app launcher that was started runs every app again that its row calls running, as
  long as it lives. It assumes, of the code's statements, that none fails: the initiator's try
  covers them all, and one that fails would skip the apps after it.

*Device agent*
* `Spaced`, `Renotified`: two mails for an event are more than a heartbeat apart, as long as the wall
  clock is not set, and from the second mail after it was set on; an event that stays
  triggered is mailed again and again.
* `Responsive`, `MonitorRuns`: timers do not starve the socket, nor messages the timers.

*Exchange and multi-building*
* `SubscriptionsExact`: the set of the exchange is what its clients are subscribed to.
* `Connected`: when nothing is on its way and no message was dropped, each such topic of a
  building that was in the launch file all the while is set on a socket.
* `PubsFresh`: a PUSH socket is open exactly while it was used since the last cleanup but one.
* `Heard`: a topic that stays subscribed is set on a socket in the end, unless a message is
  dropped, the agent ends or the building is taken out of the launch file.

**Bounds, and why they are enough.**
*Actuator*: `MaxClock` bounds the clock (3 or 4 seconds, or 6 half-second ticks); requests come from
a fixed set per run, with slots that overlap, touch, nest, leave a gap, take two devices,
start between whole seconds, have no length, or are malformed. A preemption, its grace
period and its end fit in the range, and an id is used again after its task ended. Two
tasks suffice for two-party conflicts; the steady run has a third, so that a task can be
preempted by one and contested by another.
*Scheduler*: days of two hours of two minutes: every boundary between hours and days, and
lists with zero to two entries at either end of a day; a weekday, a holiday and a weekend
day in one week (`LastDay`); files with shared minutes, without a list for some day, and unreadable.
*Platform*: one app, one device, three clients, `MaxRestarts` = 1. All interleavings of commands on one
agent are of these three; a second restart starts from states of the same kind.
*Device*: handlers take one or two units where the monitor period is two, so that timers fall
behind, as far as `Backlog`, beyond which lateness is clipped (only its sign is used); a day is ten units and
the heartbeat four, so that `.seconds` wraps; `InboxLimit` 1 (an arrival follows each turn),
`ListLimit` 2 (an event twice in the list); the wall clock is set at most once (`MaxClockSets`), by an
amount of `ClockShifts`, backwards by less than the heartbeat or forward: a second setting starts from
states of the same kind.
*Buildings*: two clients that share a topic, of a building whose address comes and goes;
`QueueLimit` 2 lets announcements, answers and sends cross, `HighWater` 2 lets two messages wait
for the agent before the next is dropped, `MaxLost` 1 is enough to miss an announcement of either
kind; `LastCleanup` 2 is enough for a socket to be kept by one and dropped by the next. The properties
speak of one topic and one building at a time; the theorems hold for any number.
Symmetry is used for the actuator's agents and ids in the runs without liveness.
Deadlock is checked in every run.

**Fairness.**
*Actuator*: weak fairness of `TimerFires`. `BaseAgent.poll` executes a due wall-clock event on every
turn of its loop before it polls the sockets. Clients need not act, the clock may stop.
*Platform*: every client's command runs on (greenlets are scheduled); the launcher's timer and
its handlers do; each scan meets every device, which is strong fairness of `FindDevice`, as the
scan needs discovery to be idle and alive; a signalled process ends (SIGKILL comes last);
`keep_platform_alive.py` looks every minute. Nothing makes the operator, the UI or a crash happen.
*Device*: weak fairness of the loop's `Step`. This assumes every device, database and mail call
returns: `urllib2` is called without a timeout, so a device that accepts a connection and
never answers does block the agent for ever. No other process need act.
*Buildings*: the exchange's thread serves both of its sockets at each poll, and the agent its one.
Weak fairness of the two handlers of the exchange and of the agent's is enough: none of them waits for room.
The bound `MaxLost` stops the exchange only after a loss, of which `Heard` claims nothing.

## 4. Findings

1. *Slots of no length break the actuator* (`same_instant`). `[t, t]` and `[t, e)` on one
   device do not conflict for `__cmp__`, but both are current at `t`; the assertion in
   `get_schedule_state` fails and ends the agent.
2. *A crash between the commits for a new device ends discovery for good* (`discovery_gap`).
   The device is then in `device_info` without a row in the table of its type; every later scan
   takes it for known, wants to restart its agent, and raises TypeError, which nothing catches.
3. *A refused request ends the device agent* (`device_refusal`). The refusal is published to the
   topic of the request, to which the agent is subscribed; it comes back, is not JSON, and
   `json.loads` raises. The UI never gets the refusal.

Behaviours met on the way, which the models contain but no run claims to be wrong:

* A slot of no length also makes `get_next_event_time` answer `now`, against its
  docstring: the update event is due again at once. `poll` runs one event a turn and then looks at the
  sockets, so the agent still handles messages; it stops turning when a request brings a
  clean-up with a later time, which removes the slot. `TimerAdvances` excepts just this.
* A clock set back turns PREEMPTED tasks into PRE_RUN, then RUNNING beside the preemptor.
* The UI is told success for every setting the API sent, or did not send (an API it does not know
  returns True, modes it does not know are dropped): a TODO in `deviceControlBehavior` says so, and no
  property claims otherwise.
* A day's first tick of a scheduler app whose schedule has the mode "holiday" ends it when the database fails.
* The app launcher is not started again after a crash of the platform, nor are the apps.
* A topic announced before its building is in the launch file gets no socket when the file is completed.
* A wall clock that is set back lets the next mail go at once: the difference is negative and
  its `.seconds` near a day.
* An app that was disabled and is launched again keeps its row at "disabled": it can be
  neither disabled nor resumed after a restart.
* The lighting scheduler raises TypeError in a print when it falls back on an earlier entry
  (`Kind = "lighting"`; the theorem `NeverDies` excludes it).
* When a device refuses a setting, the radio-thermostat API raises UnboundLocalError, and the
  reading after a setting is not guarded: in both cases the agent ends without an answer.
* A failed database statement leaves the agent's transaction aborted for good; from then on the
  query for a notification event ends the agent. Removing an event id that is not listed
  ends it too.
* `.seconds` of a time difference leaves the days out: with a heartbeat of a day or more no
  event is mailed a second time.
* The first answer to a cleanup that finds an open SUB socket raises TypeError and ends the
  multi-building agent (the loop over `self.subs.values()` unpacks pairs). An error in
  `handle_republish` ends it as well, since `reactor.unregister` registers the reactor itself.
* A list answer that crosses an add message sets a topic twice on its socket; one remove then
  leaves it set. Messages are received in excess, none is missed.

## 5. Proofs

All theorems hold for every value of the constants under the named assumptions of the
modules. Every safety invariant and action property of the passing runs is among them; what
is left to TLC is liveness, which is beyond the prover.

Bounds on counters (`ListLimit`, `QueueLimit`, `HighWater`, `MaxLost`, `MaxTime`, `LastCleanup`, ...) are assumed to be
natural numbers, nothing more. Where a proof counts, it takes the least counterexample
(`LeastNat`, from the well-foundedness of `<`), since rules of induction that take an operator cannot
be used.

About `Len`: the prover's encoding of sequences takes `Len(S) = N` and `DOMAIN S = 1..N` to be the same for
every `S`, which says more than the library's definition does of values that are not
sequences. The obligations of the proofs have also been discharged with that fact weakened to what holds,
`DOMAIN S = 1..Len(S)` for sequences `S`. The proofs do not rest on it.

### The actuator

For any sets of agents, devices, ids and requests, any clock bound and any combination of
crashes and failing saves (`ConstantsAssumption`, `SentinelsAssumption`, and for the refinement
`NoPromiseAssumption`: the sentinels are not records):

* `TypeCorrect`: `Spec => []TypeOK`.
* `BookingSafe`: `Spec => []NoDoubleBooking`, if `Grace > 0` and the clock is not set
  back. `NoDoubleBooking` is not inductive: a clean-up with a time before a preemption
  began would undo it. `BookingInv` adds that every preemption in the schedule began by
  the clock *and by the deadline of the update event*, which that event will pass as the
  time, and the same of the state file. Its key lemmas: what pruning leaves of a slot
  conflicts with nothing the slot did not (`LeftOfConflict`, false for `Grace = 0`); a
  granted request conflicts only with its victims (`GrantKeeps`); a clean-up only
  removes (`CleanupKeeps`); an update is never armed for the past (`NextUpdateBound`).
* `AssertionsNeverFail`: `Spec => []AssertionsHold` if moreover no request has a slot of no
  length. `AssertionInv` adds that all slots last and no high-priority task is ever
  preempted; two current slots on a device then conflict (`SameInstantConflicts`), so
  one of the tasks is preempted and the other is not.
* `TimerMovesOn`: `Spec => TimerAdvances`, without any of these assumptions: for a slot that does not
  lie at the time of the update, the next event is later, and rounding up keeps it so (`NextUpdateBound`).
* `AssertionInvariant`, `PromiseInvariant`: the strengthenings of the above are themselves
  properties of the runs.
* `LocksBacked`: `Spec => []LockIsBacked`, if `Grace > 0` and the clock is not set back, slots of
  no length included. `SoundInv` says that the slots of a task lie apart and in its span;
  `LockInv` that an entry of the lock table that has not ended comes from a slot still in the
  schedule, which began by the clock and by the deadline of the update, and that the update
  comes no later than the second in which that slot ends (`RoundUpMonotone`).
* `HoldersServed`: `Spec => []HolderHasLock`, if moreover no request has a slot of no length.
  `HolderInv` says of every slot that is on or to come either that the update comes by the second
  in which it begins, or that the device has an entry: the slot's own, one that has ended, or
  that of a preempted task. That the update is armed for the first such time needs that a first slot exists (`FirstSlotExists`, from
  `LeastNat`, since a set of naturals has a least member) and that only one slot can be the
  current one, which a slot of no length would break.
* `RevocationFair`: `Spec => FairRevocation`, under the same assumptions. `ShownInv` says that a
  preempted task in its grace period still holds every device it has a slot on; a granted
  request that takes a device away then does so from a task it preempts (`GrantRevokesFairly`).
* `PromisesAlwaysKept`: `Spec => []PromisesKept`, if there is a state file and its writes
  succeed (`ReliableFile`), whatever the grace period, the requests and the clock.
  `PromiseInv` says that the task of a promise that stands was never preempted, that its
  span reaches beyond the clock (so no clean-up finishes it, `TaskMakeCurrentHonours`), and
  that the state file always honours the same promises as the schedule, so that a
  restart loads them (`CleanupHonours`).
* `AgentImplementsCalendar`: `Spec => Implements` if moreover the clock is not set back
  (time does not go back in the calendar). The argument that matters is in
  `RequestRefines`: a victim of a granted request has to yield (`VictimYields`: a clean-up
  leaves a task PRE_RUN only if its span is still to come), and a promise that is no
  victim does not clash with the new one (`OthersDoNotClash`).
* `ReservationsNeverClash`: the calendar itself satisfies `Spec => []NoClash`. With the
  refinement: no two clients ever both have standing promises of a device at one time.

The run `same_instant` shows why requests must not have slots of no length; a clock set back
would make a preempted task run again; `ReliableFile` is needed because a process that starts without
its file has forgotten every promise.

Of the list of a device's slots (`ScheduleLists_proofs`), for any bounds on the times:

* `AvailabilityExact`: `Spec => []AvailabilityIsExact`; `MethodsAgreeAlways`: `Spec => []MethodsAgree`;
  `InsertionKeepsOrder`: `Spec => []ListInOrder`. Both searches of `bisect` are one loop, a recursive
  function. That there is such a function has to be proved: each value
  depends on values for a shorter `lo .. hi` only (`OneMoreTurn`), so one exists for every length
  (`LoopEnds`). The loop then stops where the answers change from "right" to "left", if they
  change once (`BisectFinds`). `__cmp__` is no total order, but its "less" is a strict partial order on
  the slots `__init__` accepts (`BeforeIsStrict`), and a list in which each slot is before every later one
  is cut by it, for every slice asked about, into the slots before it, those that conflict
  with it and those after it. That the list stays so is the invariant `ListInv`: a slot is inserted
  only where nothing conflicts (`InsertKeepsSorted`), and pruning leaves an end of the list.

### The scheduler apps

* `TypeCorrect`: `Spec => []TypeOK`. The invariant `CoreInv` adds that every time kept and the
  entry in use are in the table of settings, which is only ever added to.
* `NeverDies`: `Spec => []AppSurvives`, if `Kind # "lighting"`. From `CoreInv`, looking up an entry
  cannot fail; what is left is a list that is not there, and the query for holidays.
* `RowAgrees`: `Spec => []RowInForce`, which is inductive: once a statement failed it claims nothing, and until then row and schedule change together.
* `KeepsSchedule`: `Spec => [](OnSchedule /\ WakesForNext)`, if no tick straddles midnight
  (`WithinDay`). `DayInv` says that while the times kept are today's, `nextTime` is the next entry
  after the minute of the last action and the setting sent is the entry due then; a tick before
  `nextTime` has passed no entry, so what was due still is. The assumption is
  needed: a tick that takes 23:59 from before midnight and the day from after it reads a
  time that has not come yet. `WakesInTime` states its second half, `Spec => []WakesForNext`, by itself.

### Agents on the platform

* `RecordsOrdered`: `Spec => []TypeOK`, whose last conjuncts order the records of a device. Since the
  steps of discovery are queued, `OrderInv` speaks of the queue: whatever in it relies on a
  record finds the record made, or made by an earlier step of the queue (`Ordered`);
  lemmas show that taking the first step (`Popped`) and pushing what a handler pushes
  (`Pushed`) keep it.
* `RunsRecorded`: `Spec => []RecordedFirst`. `LoadedInv` adds that what runs was loaded, and that a
  device's agent is loaded from its launch file only, which is written last.

### The device agent

* `LoopTyped`: `Spec => []TypeOK`, which bounds the times of the loop. `LoopInv` says that `lag` is 0 when poll
  begins, and that while it waits, `lag + wait` is at most the interval and the longest handler; a
  due timer is armed again within its period in the step that takes it off. The length of the list of
  events is bounded together with the add requests that wait (`ListInv`), counted
  by the finite-set theorems. It assumes that `Durations` has a greatest member.
* `MailsSpaced`: `Spec => []Spaced`. `SpacedInv` ties `sent`, which wraps at a day, to `quiet`, which
  does not: an event mailed within a heartbeat, by a clock that was not set since, has its time stored and
  not wrapped yet. It needs `Heartbeat < SecondsPerDay - 1`; the wall clock may be set at any time by any amount.

### The exchange and the multi-building agent

* `ExchangeExact`: `Spec => []SubscriptionsExact`. The invariant says what the set will be when
  the waiting changes are applied (`WillHave`): exactly what the clients hold.
* `PubsStayFresh`: `Spec => []PubsFresh`. `PubsInv` relates the period stored with a socket to
  `sequence` and `idle`.
* `NoTopicMissed`: `Spec => []Connected`. `CoveredInv` holds, while nothing was dropped and for a `steady` building, once the answer to the agent's request
  is on the bus or was taken (`Informed`): for every topic of the exchange's set, either something
  on the bus sets it and nothing after that clears it, or nothing on the bus clears it and it is
  set on its socket already. The lemmas follow a message onto the bus (`Sent`) and off it (`Read`).
* `SocketsTyped`: `Spec => []TypeOK`, whose bound on how often a topic is set on a socket is the point.
  `TurnInv`: what the XPUB socket tells of a topic, and the announcements on the bus, take turns,
  an add after each remove, and the last of them agrees with where they come from. `CountInv`: how
  often a topic is set and the lists still to come are together at most `QueueLimit`, and one more
  if the next the agent hears of the topic is its removal (`Ahead`). Without the turns, two
  adds in a row would count it twice; that is what a dropped removal brings about, so the bound is
  claimed while nothing was dropped.

### Only model-checked

Liveness: `LockReleased`, `Served`, `Evicted`, `Resumed`, `Renotified`, `Responsive`, `MonitorRuns`,
`Heard`. Their proofs need fairness, hence ENABLED, which the prover does not
support. The three violations are TLC's as well. The MC modules' constants are instances
of the theorems' assumptions, which TLC evaluates in every run.

## 6. Not modelled

* *Actuator*: `handle_get`/`handle_set` beyond `check_lock` (HTTP to sMAP), the heartbeat, JSON and
  date parsing (a request that does not parse is one `RejectRequest` covers), the contents of replies.
  A state file that is torn reads as an empty schedule; some of what `cPickle` raises for one
  (`UnpicklingError` is no `StandardError` in Python 2, so `load_state` does not catch it) may instead
  end the new process, which then stays down, as it may in the model for any time.
* *Scheduler apps*: files whose only active mode is the holiday (`FilesAssumption`): such a file has
  no list for other days. Weeks other than one. A wall clock that is set back. The run takes the thermostat app.
* *Platform*: enabling and autostart, packaging, `resmon` (it grants every request); the three
  signals of `stop-agent` are one; processes that outlive a killed platform are not
  counted; exit statuses of `load-agent` and `start-agent` are ignored, as in the launcher, and
  commands reach a platform that is up; statements of the launcher and of discovery do not fail. The network scan, `zone_id` and other nodes, the dummy
  scan, unsupported models.
* *Device agents*: sMAP publishing, the column of overrides, setpoint validation beyond valid or not,
  the APIs of devices other than the radio thermostat. `identify` blocks the loop for ten
  seconds; it is a handler like the others here. The device is not changed by others during a
  handler. Messages from the UI are JSON (others end the agent as the refusal does).
  Cancelled events that stay in the heap; agents do not cancel the monitor.
* *Exchange*: topics outside `building/recv/` and subscribers to prefixes. *Multi-building*: the proxy in the
  same file, which serves the sockets of other buildings. `Connected` and `Heard` are
  claimed once the list asked for in `setup` arrived (`listed`): an answer that comes before the
  agent's subscription was established is lost, and nothing asks again until a cleanup.
* The clients' side of the schedule protocol: the example clients do not retry and keep no state.
* Archiver, data logging, sMAP and field-bus drivers, OpenADR, weather, AFDD and demand
  response: I/O to remote services with no state that others rely on.
* Vendored eggs, generated settings, the web UI's static files.

What could follow: the liveness properties restated as
safety (how many steps of the loop until a waiting message is handled), which could be proved; a run of the
lighting app; the proxy of the multi-building agent with lost connections.
