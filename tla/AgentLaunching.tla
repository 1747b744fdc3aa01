--------------------------- MODULE AgentLaunching ---------------------------
(***************************************************************************)
(* Who starts and stops agents on a platform: the app launcher, on request *)
(* of the UI and once after it starts; the device discovery agent, on each *)
(* of its scans; and an operator.  The first two are agents themselves and *)
(* die with the platform.  keep_platform_alive restarts the platform and   *)
(* discovery; the app launcher is started again by hand, if ever.          *)
(* What a handler does between two points where others may act is one      *)
(* step: a command, a decision on the reply of list-agent, a commit.       *)
(***************************************************************************)
EXTENDS AgentPlatform, FiniteSets, SequencesExt

CONSTANTS
  Apps, Devices,  \* the names: apps for an agent, agents of devices
  Commands,       \* what the operator sends
  Gap,            \* discovery may be killed before a device's launch file is written
  MaxRestarts     \* bound on the restarts of the platform

Launcher == "launcher"
Discovery == "discovery"
Operator == "operator"

ASSUME ClientsAssumption ==
  /\ Clients = {Launcher, Discovery, Operator}
  /\ Names = Apps \cup Devices /\ Apps \cap Devices = {} /\ IsFiniteSet(Apps)
  /\ Commands \subseteq [op : {"load-agent", "start-agent", "stop-agent"}, name : Names]
  /\ MaxRestarts \in Nat

VARIABLES
  todo,         \* of each client, the steps its handler has yet to take
  alive,        \* discovery has not died of an exception
  launcherUp,   \* the app launcher runs
  initiated,    \* already_started_previous_apps
  row,          \* application_running: status of an app, or "none"
  known,        \* device_info: the devices with a row
  typed,        \* the devices with a row in the table of their type
  bemoss,       \* device_info.bemoss, which the UI changes
  read,         \* the flag a scan has read and not used yet
  files,        \* Agents_Launch_DIR: the launch files that were written
  restarts

launching == <<alive, launcherUp, initiated, row, known, typed, bemoss, read, files, restarts>>
vars == <<platform, todo, launching>>

Do(op, n) == [op |-> op, name |-> n]
Idle(c) == todo[c] = <<>>
Then(c, steps) == todo' = [todo EXCEPT ![c] = steps \o Tail(@)]
Doing(c, op) == up /\ ~Idle(c) /\ Head(todo[c]).op = op
Given(c, steps) == up /\ Idle(c) /\ todo' = [todo EXCEPT ![c] = steps]

-----------------------------------------------------------------------------
\* The commands, for any client.

Load(c) ==
  /\ Doing(c, "load-agent") /\ Then(c, <<>>)
  /\ LoadAgent(files \cup Apps, Head(todo[c]).name)
  /\ UNCHANGED launching

Start(c) ==
  /\ Doing(c, "start-agent") /\ Then(c, <<>>)
  /\ StartAgent(Head(todo[c]).name)
  /\ UNCHANGED launching

Stop(c) ==
  /\ Doing(c, "stop-agent") /\ UNCHANGED launching
  /\ \/ /\ stopping[c] = NoCall
        /\ IF IsRunning(Head(todo[c]).name)
             THEN StopAgent(c, Head(todo[c]).name) /\ UNCHANGED todo
             ELSE Then(c, <<>>) /\ UNCHANGED platform
     \/ StopReturns(c) /\ Then(c, <<>>)

-----------------------------------------------------------------------------
\* The app launcher.

\* on_match, a message from the UI.
OnMatch(app, op) ==
  /\ launcherUp
  /\ Given(Launcher, <<Do(op, app)>>)
  /\ UNCHANGED <<platform, launching>>

NeverDisabled == { a \in Apps : row[a] = "none" }
PreviousApps == { a \in Apps : row[a] = "running" }

AppLauncherInitiator ==
  /\ launcherUp /\ ~initiated /\ initiated' = TRUE
  /\ \E apps \in SetToSeqs(PreviousApps) :
       Given(Launcher, [i \in DOMAIN apps |-> Do("launch", apps[i])])
  /\ UNCHANGED <<platform, alive, launcherUp, row, known, typed, bemoss, read, files, restarts>>

\* launch_app: an app that runs already is only recorded.  The row of an app
\* that was launched before is left as it is.
LaunchApp ==
  /\ Doing(Launcher, "launch")
  /\ LET app == Head(todo[Launcher]).name
     IN  IF IsRunning(app)
           THEN row' = [row EXCEPT ![app] = "running"] /\ Then(Launcher, <<>>)
           ELSE /\ Then(Launcher, <<Do("load-agent", app), Do("start-agent", app)>>
                        \o IF row[app] = "none" THEN <<Do("insert", app)>> ELSE <<>>)
                /\ UNCHANGED row
  /\ UNCHANGED <<platform, alive, launcherUp, initiated, known, typed, bemoss, read, files, restarts>>

DisableApp ==
  /\ Doing(Launcher, "disable")
  /\ LET app == Head(todo[Launcher]).name
     IN  Then(Launcher, IF IsRunning(app) /\ row[app] = "running"
                          THEN <<Do("stop-agent", app), Do("disabled", app)>> ELSE <<>>)
  /\ UNCHANGED <<platform, launching>>

\* The last statement of launch_new_app and disable_app.
RecordApp ==
  /\ \/ /\ Doing(Launcher, "insert")
        /\ row' = [row EXCEPT ![Head(todo[Launcher]).name] = "running"]
     \/ /\ Doing(Launcher, "disabled")
        /\ row' = [row EXCEPT ![Head(todo[Launcher]).name] = "disabled"]
  /\ Then(Launcher, <<>>)
  /\ UNCHANGED <<platform, alive, launcherUp, initiated, known, typed, bemoss, read, files, restarts>>

-----------------------------------------------------------------------------
\* Device discovery.

UnloadedLaunch(d) == <<Do("stop-agent", d), Do("start-agent", d)>>
LaunchAgent(d) == <<Do("stop-agent", d), Do("load-agent", d), Do("start-agent", d)>>

TypeFirst(d) == <<Do("type", d), Do("info", d), Do("file", d)>>
NewDevice(d) == <<Do("info", d), Do("type", d), Do("file", d)>>

\* findDevicesbytype meets a device.
FindDevice(d) ==
  /\ alive
  /\ IF d \in known
       THEN Given(Discovery, <<Do("check", d)>>) /\ read' = (d \in bemoss)
       ELSE /\ Given(Discovery, NewDevice(d) \o LaunchAgent(d))
            /\ UNCHANGED read
  /\ UNCHANGED <<platform, alive, launcherUp, initiated, row, known, typed, bemoss, files, restarts>>

\* What to do with a known device, by list-agent and the flag read before.
RestartOnly(d) == IF read /\ ~IsRunning(d) THEN LaunchAgent(d) ELSE <<>>
CheckSteps(d) ==
  CASE read /\ ~IsRunning(d) -> LaunchAgent(d)
    [] ~read /\ IsRunning(d) -> <<Do("stop-agent", d)>>
    [] OTHER -> <<>>

\* A device to restart that is not in the table of its type raises TypeError.
CheckDevice ==
  /\ Doing(Discovery, "check")
  /\ LET d == Head(todo[Discovery]).name
         raises == read /\ ~IsRunning(d) /\ d \notin typed
     IN  /\ Then(Discovery, IF raises THEN <<>> ELSE CheckSteps(d))
         /\ alive' = ~raises
  /\ read' = FALSE
  /\ UNCHANGED <<platform, launcherUp, initiated, row, known, typed, bemoss, files, restarts>>

RecordDevice ==
  /\ \/ /\ Doing(Discovery, "info")
        /\ known' = known \cup {Head(todo[Discovery]).name}
        /\ bemoss' = bemoss \cup {Head(todo[Discovery]).name}
        /\ UNCHANGED <<typed, files>>
     \/ /\ Doing(Discovery, "type")
        /\ typed' = typed \cup {Head(todo[Discovery]).name}
        /\ UNCHANGED <<known, bemoss, files>>
     \/ /\ Doing(Discovery, "file")
        /\ files' = files \cup {Head(todo[Discovery]).name}
        /\ UNCHANGED <<known, bemoss, typed>>
  /\ Then(Discovery, <<>>)
  /\ UNCHANGED <<platform, alive, launcherUp, initiated, row, read, restarts>>

-----------------------------------------------------------------------------
\* The others.

Approve(d) ==
  /\ d \in known
  /\ bemoss' = IF d \in bemoss THEN bemoss \ {d} ELSE bemoss \cup {d}
  /\ UNCHANGED <<platform, todo, alive, launcherUp, initiated, row, known, typed, read, files, restarts>>

Command(command) ==
  /\ Given(Operator, <<command>>)
  /\ UNCHANGED <<platform, launching>>

AgentEnds(n) == ProcessEnds(n) /\ UNCHANGED <<todo, launching>>

\* Without Gap, discovery is not between the first commit for a device and
\* its launch file when the platform goes down.
Recording == ~Idle(Discovery) /\ Head(todo[Discovery]).op \in {"type", "file"}

Down ==
  /\ Gap \/ ~Recording
  /\ restarts < MaxRestarts /\ restarts' = restarts + 1
  /\ PlatformEnds
  /\ todo' = [c \in Clients |-> <<>>] /\ read' = FALSE
  /\ launcherUp' = FALSE
  /\ UNCHANGED <<alive, initiated, row, known, typed, bemoss, files>>

\* It starts the platform, and discovery by a script of runAgents.
KeepAlivePlatform ==
  /\ PlatformStarts
  /\ alive' = TRUE
  /\ UNCHANGED <<todo, launcherUp, initiated, row, known, typed, bemoss, read, files, restarts>>

\* Somebody runs runAppLauncherAgent.sh.
RunAppLauncher ==
  /\ up /\ ~launcherUp /\ launcherUp' = TRUE
  /\ initiated' = FALSE
  /\ UNCHANGED <<platform, todo, alive, row, known, typed, bemoss, read, files, restarts>>

Init ==
  /\ PlatformInit
  /\ todo = [c \in Clients |-> <<>>]
  /\ alive = TRUE /\ launcherUp = TRUE /\ initiated = FALSE
  /\ row = [a \in Apps |-> "none"]
  /\ known = {} /\ typed = {} /\ bemoss = {} /\ read = FALSE /\ files = {}
  /\ restarts = 0

LauncherStep == AppLauncherInitiator \/ LaunchApp \/ DisableApp \/ RecordApp
DiscoveryStep == CheckDevice \/ RecordDevice
ClientStep(c) == Load(c) \/ Start(c) \/ Stop(c)

Next ==
  \/ \E c \in Clients : ClientStep(c)
  \/ \E app \in Apps, op \in {"launch", "disable"} : OnMatch(app, op)
  \/ LauncherStep
  \/ \E d \in Devices : FindDevice(d) \/ Approve(d)
  \/ DiscoveryStep
  \/ \E command \in Commands : Command(command)
  \/ \E n \in Names : AgentEnds(n)
  \/ Down
  \/ KeepAlivePlatform
  \/ RunAppLauncher

Spec == Init /\ [][Next]_vars

\* Every handler runs on; the launcher's timer comes before its messages; each
\* scan meets every device; a process that was signalled ends some time; and
\* keep_platform_alive looks every minute.  Nobody need run the app launcher.
FairSpec ==
  /\ Spec
  /\ \A c \in Clients : WF_vars(ClientStep(c))
  /\ SF_vars(AppLauncherInitiator) /\ WF_vars(LauncherStep)
  /\ WF_vars(DiscoveryStep) /\ \A d \in Devices : SF_vars(FindDevice(d))
  /\ \A n \in Names : WF_vars(agents[n] = "signalled" /\ AgentEnds(n))
  /\ WF_vars(KeepAlivePlatform)

-----------------------------------------------------------------------------

\* Every variable keeps its type; a device is in device_info before it is in
\* the table of its type, and there before its launch file is written.
TypeOK ==
  /\ PlatformTypeOK
  /\ \A c \in Clients : \A i \in DOMAIN todo[c] : todo[c][i].name \in Names
  /\ {alive, launcherUp, initiated} \subseteq BOOLEAN /\ read \in BOOLEAN
  /\ row \in [Apps -> {"none", "running", "disabled"}]
  /\ typed \subseteq known /\ known \subseteq Devices /\ bemoss \subseteq known
  /\ files \subseteq typed
  /\ restarts \in 0 .. MaxRestarts

\* The agent of a device runs only when the device is in both tables, whose rows
\* the agent updates and the UI shows: whoever starts it, and whatever went
\* down between the steps of discovery.
RecordedFirst == \A d \in Devices : IsRunning(d) => d \in known \cap typed

\* A device that was discovered gets its agent, after the agent died or was
\* stopped and across restarts, unless it is taken out of BEMOSS.
Served ==
  \A d \in Devices : d \in known ~> (IsRunning(d) \/ d \notin bemoss)

\* The agent of a device that was taken out of BEMOSS is stopped, even when
\* a scan that had read the old flag starts it.
Evicted ==
  \A d \in Devices : d \in known \ bemoss ~> (~IsRunning(d) \/ d \in bemoss)

\* Once the app launcher is started (by hand, after a restart of the platform)
\* and while it lives, every app is run again that its row calls running,
\* whatever is asked of the launcher meanwhile (appLauncherInitiator, launch_app).
Resumed ==
  \A a \in Apps :
    launcherUp /\ ~initiated /\ row[a] = "running" ~>
      (IsRunning(a) \/ row[a] # "running" \/ ~launcherUp)

=============================================================================
