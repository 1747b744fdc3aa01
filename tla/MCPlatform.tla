----------------------------- MODULE MCPlatform -----------------------------
(* A small platform for TLC: an app and a device. *)
EXTENDS AgentLaunching, TLC

CONSTANTS app1, dev1

MCCommands == [op : {"stop-agent"}, name : Names] \cup {Do("start-agent", dev1)}
=============================================================================
