----------------------------- MODULE MCDebugPod -----------------------------
(***************************************************************************)
(* Instances of DebugPod for TLC: two concurrent calls, of which one has a *)
(* deadline, and a name for each pod they can create.                      *)
(***************************************************************************)
EXTENDS DebugPod

CONSTANTS c1, c2, p1, p2

MCCalls     == {c1, c2}
MCPods      == {p1, p2}
MCDeadlined == {c1}
MCAllFaults == FaultKinds
MCNoFaults  == {}
=============================================================================
