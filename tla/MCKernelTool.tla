---------------------------- MODULE MCKernelTool ----------------------------
(***************************************************************************)
(* An instance of KernelTool for TLC: one tool call, every kind of input,  *)
(* its two invocations of DebugNode and a pod for each.                    *)
(***************************************************************************)
EXTENDS KernelTool

CONSTANTS t1, p1, p2

MCTools  == {t1}
MCCalls  == MCTools \X {"probe", "command"}
MCPods   == {p1, p2}
MCFaults == FaultKinds \ {"delete"}
=============================================================================
