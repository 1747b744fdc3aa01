---------------------------- MODULE MCBuildings -----------------------------
(* A building whose address comes and goes, and a topic of it.             *)
EXTENDS MultiBuilding, TLC

CONSTANTS near, t1
TopicBuildings == t1 :> near
=============================================================================
