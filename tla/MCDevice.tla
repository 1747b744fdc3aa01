------------------------------ MODULE MCDevice ------------------------------
(* Two settings, of which "heat" triggers the one notification event.      *)
EXTENDS DeviceAgent

TwoTimers == [first |-> 0, monitor |-> 2]
FirstDelays == [first |-> 1, monitor |-> 2]
ShortAndLong == {1, 2}
HeatTriggers == [e \in Events |-> {"heat"}]
BackAndForward == {-1, 6}
=============================================================================
