---------------------------- MODULE AgentPlatform ---------------------------
(***************************************************************************)
(* The agent processes of a platform and the commands on them (AIPLite in  *)
(* volttron/lite/aip.py): load-agent, start-agent, stop-agent and the      *)
(* running agents that list-agent prints.  Each command is a greenlet of   *)
(* the platform: all but stop-agent run without a break, and stop-agent    *)
(* waits for the end of the process while others go on.  Clients send one  *)
(* command at a time and wait for it.                                      *)
(***************************************************************************)
CONSTANTS
  Names,      \* launch files of agents
  Clients,    \* who sends commands
  NoCall, Over

ASSUME CallsAssumption == NoCall \notin Names /\ Over \notin Names /\ NoCall # Over

VARIABLES
  up,         \* the platform runs
  installed,  \* the launch files in install_dir
  agents,     \* the state of the last process started for each name
  stopping    \* the agent whose process a client's stop-agent waits for, or
              \* Over when that process has ended

platform == <<up, installed, agents, stopping>>

\* poll() is None: what list-agent prints as running.
IsRunning(n) == agents[n] # "ended"

LoadAgent(files, n) ==
  /\ installed' = IF n \in files THEN installed \cup {n} ELSE installed
  /\ UNCHANGED <<up, agents, stopping>>

\* start-agent of an agent that runs, or was never loaded, is an error.
CarelessStartFails(n) == IsRunning(n)
StartFails(n) == n \notin installed \/ IsRunning(n)

StartAgent(n) ==
  /\ UNCHANGED <<up, installed, stopping>>
  /\ IF StartFails(n)
       THEN UNCHANGED agents
       ELSE agents' = [agents EXCEPT ![n] = "running"]

\* stop-agent sends SIGINT to a running process and waits for its end.
StopAgent(c, n) ==
  /\ IsRunning(n)
  /\ stopping' = [stopping EXCEPT ![c] = n]
  /\ agents' = [agents EXCEPT ![n] = "signalled"]
  /\ UNCHANGED <<up, installed>>

\* It returns when the process ended; or with an error, when it did not three
\* seconds after each of SIGINT, SIGTERM and SIGKILL.
StopReturns(c) ==
  /\ stopping[c] # NoCall
  /\ stopping' = [stopping EXCEPT ![c] = NoCall]
  /\ UNCHANGED <<up, installed, agents>>

\* An agent ends, of a signal, an exception or a lost connection.
ProcessEnds(n) ==
  /\ IsRunning(n)
  /\ agents' = [agents EXCEPT ![n] = "ended"]
  /\ stopping' = [c \in Clients |-> IF stopping[c] = n THEN Over ELSE stopping[c]]
  /\ UNCHANGED <<up, installed>>

\* The platform ends.  finish() signals the agents without waiting, a platform
\* that is killed leaves them, and their output pipes are broken: they are not
\* counted any more.
PlatformEnds ==
  /\ up /\ up' = FALSE
  /\ agents' = [n \in Names |-> "ended"]
  /\ stopping' = [c \in Clients |-> NoCall]
  /\ UNCHANGED installed

PlatformStarts ==
  /\ ~up /\ up' = TRUE
  /\ UNCHANGED <<installed, agents, stopping>>

PlatformInit ==
  /\ up = TRUE
  /\ installed = {}
  /\ agents = [n \in Names |-> "ended"]
  /\ stopping = [c \in Clients |-> NoCall]

PlatformTypeOK ==
  /\ up \in BOOLEAN /\ installed \subseteq Names
  /\ agents \in [Names -> {"running", "signalled", "ended"}]
  /\ stopping \in [Clients -> Names \cup {NoCall, Over}]

=============================================================================
