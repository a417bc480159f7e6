--------------------------- MODULE KernelToolProofs --------------------------
(***************************************************************************)
(* Invariants of the kernel tools for any number of tool calls.  The       *)
(* invariant of DebugPod carries over to the invocations that the handlers *)
(* make; what is added is how the two invocations of a call follow each    *)
(* other, and where the handler keeps what it has decided.                 *)
(***************************************************************************)
EXTENDS KernelTool, DebugPodProofs

\* Type correctness of the handlers' own state.
ToolTypeOK ==
    /\ stage \in [Tools -> {"idle", "probing", "running", "done"}]
    /\ input \in [Tools -> Inputs]
    /\ mode \in [Tools -> {"none", "utility", "file"}]
    /\ filtered \subseteq Tools
    /\ result \in [Tools -> {"none", "error", "utility", "file"}]

\* The command is invoked only when the probe is back.
ProbeFirst ==
    \A t \in Tools :
        /\ stage[t] = "idle" => pc[Probe(t)] = "idle"
        /\ stage[t] \in {"idle", "probing"} => pc[Command(t)] = "idle"
        /\ stage[t] \in {"running", "done"} => pc[Probe(t)] = "returned"

\* Without the name of a node no invocation gets past DebugNode's checks.
NodeNeeded ==
    \A t \in Tools : ~input[t].node =>
        \A c \in {Probe(t), Command(t)} :
            pc[c] \in {"idle", "returned"} /\ outcome[c] \in {"none", "invalid"}

\* A probe that ends well has run the utility, which is then in the image.
ProbeTells ==
    \A t \in Tools : outcome[Probe(t)] = "ok" => input[t].equipped

\* What the handler has checked before it runs the command still holds when the
\* command is back.
Decided ==
    \A t \in Tools : stage[t] = "running" =>
        /\ input[t].valid
        /\ mode[t] \in {"utility", "file"}
        /\ mode[t] = "file" => input[t].conntrack /\ input[t].listing
        /\ mode[t] = "utility" => outcome[Probe(t)] = "ok"
        /\ t \in filtered <=> Filters(t, mode[t])

\* The filter is decided on together with the command.
FilterWithCommand ==
    \A t \in Tools : stage[t] \in {"idle", "probing"} => t \notin filtered

\* A tool call has a result when its handler has returned.
ResultWhenDone ==
    \A t \in Tools :
        /\ stage[t] # "done" => result[t] = "none"
        /\ (stage[t] = "done" /\ result[t] # "error") => pc[Command(t)] = "returned"

\* The inductive strengthening of OnePodAtATime and AnswerFitsRequest.
ToolIInv ==
    /\ IInv
    /\ ToolTypeOK
    /\ ProbeFirst
    /\ NodeNeeded
    /\ ProbeTells
    /\ Decided
    /\ FilterWithCommand
    /\ ResultWhenDone
    /\ AnswerFitsRequest

-----------------------------------------------------------------------------

\* The two invocations of a tool call, and those of different tool calls, are
\* different invocations.
LEMMA Invocations ==
    /\ \A t \in Tools : Probe(t) \in Calls /\ Command(t) \in Calls
    /\ \A t, u \in Tools : Probe(t) # Command(u)
    /\ \A t, u \in Tools : t # u => Probe(t) # Probe(u) /\ Command(t) # Command(u)
  BY KernelAssumption DEF Probe, Command

\* The inductive invariant holds initially.
LEMMA InitToolIInv == ToolInit => ToolIInv
<1> SUFFICES ASSUME ToolInit PROVE ToolIInv
  OBVIOUS
<1>1. IInv
  BY InitIInv DEF ToolInit
<1> QED BY <1>1, Invocations DEF ToolInit, Init, ToolIInv, ToolTypeOK, ProbeFirst,
    NodeNeeded, ProbeTells, Decided, FilterWithCommand, ResultWhenDone, AnswerFitsRequest

\* What a step of an invocation leaves of the control state: an invocation that
\* is over stays as it is, the others are not touched, and only a command that
\* ends brings a good end.
LEMMA CallStepLocal ==
    ASSUME NEW c \in Calls, TypeOK, CallStep(c)
    PROVE  /\ pc[c] # "returned"
           /\ pc' = [pc EXCEPT ![c] = pc'[c]]
           /\ outcome' = [outcome EXCEPT ![c] = outcome'[c]]
           /\ pc'[c] # "idle"
           /\ outcome'[c] = "ok" => outcome[c] = "ok" \/ pc[c] = "executing"
  BY DEF CallStep, TypeOK, At, Return, CleanUpAndReturn, Reject, Invoke, CreateOK,
     CreateError, PollRunning, PollGivesUp, FetchRunning, FetchFails, ExecOK,
     ExecFails, CleanupOK, CleanupFails

\* Every step of a handler or of one of its invocations keeps the invariant.
LEMMA ToolStepIInv ==
    ASSUME NEW t \in Tools, ToolIInv, ToolStep(t)
    PROVE  ToolIInv'
<1> USE Invocations DEF ToolIInv, ToolTypeOK, ProbeFirst, NodeNeeded, ProbeTells,
        Decided, FilterWithCommand, ResultWhenDone, AnswerFitsRequest, Filters
<1>0. TypeOK
  BY DEF IInv
<1>1. ASSUME NEW c \in Calls, runDebugNodeCommand(t, c)
      PROVE  /\ IInv'
             /\ pc[c] = "idle"
             /\ pc' = [pc EXCEPT ![c] = IF input[t].node THEN "creating" ELSE "returned"]
             /\ outcome' = [outcome EXCEPT ![c] = IF input[t].node THEN @ ELSE "invalid"]
  <2>1. CallStep(c)
    BY <1>1 DEF runDebugNodeCommand, CallStep
  <2>2. IInv'
    BY <2>1, CallStepIInv
  <2> QED BY <1>0, <1>1, <2>2 DEF runDebugNodeCommand, Invoke, Reject, Return, At, TypeOK
<1>2. CASE StartProbe(t)
  <2>1. runDebugNodeCommand(t, Probe(t))
    BY <1>2 DEF StartProbe
  <2> QED BY <1>0, <1>1, <1>2, <2>1 DEF StartProbe, TypeOK
<1>3. ASSUME NEW clean \in BOOLEAN, ProbeReturns(t, clean), Accepted(t, clean)
      PROVE  ToolIInv'
  <2> DEFINE m == IF Available(t, clean) THEN "utility" ELSE "file"
  <2>1. RunCommand(t, m)
    BY <1>3 DEF ProbeReturns
  <2>2. runDebugNodeCommand(t, Command(t))
    BY <2>1 DEF RunCommand
  <2>3. /\ stage[t] = "probing" /\ pc[Probe(t)] = "returned"
        /\ input[t].valid
        /\ m = "file" => input[t].conntrack /\ input[t].listing
        /\ m = "utility" => outcome[Probe(t)] = "ok"
    BY <1>3 DEF ProbeReturns, Accepted, Available
  <2> QED BY <1>0, <1>1, <2>1, <2>2, <2>3 DEF RunCommand, TypeOK
<1>4. ASSUME NEW res \in {"error", "utility", "file"}, ToolReturns(t, res)
      PROVE  /\ IInv'
             /\ UNCHANGED <<pc, outcome, input, mode, filtered>>
             /\ stage' = [stage EXCEPT ![t] = "done"]
             /\ result' = [result EXCEPT ![t] = res]
  <2>1. UNCHANGED vars
    BY <1>4 DEF ToolReturns
  <2>2. IInv'
    BY <2>1, StepIInv
  <2> QED BY <1>4, <2>2 DEF ToolReturns, vars, callVars
<1>5. ASSUME NEW clean \in BOOLEAN, ProbeReturns(t, clean), ~Accepted(t, clean)
      PROVE  ToolIInv'
  <2>1. ToolReturns(t, "error") /\ stage[t] = "probing" /\ pc[Probe(t)] = "returned"
    BY <1>5 DEF ProbeReturns
  <2> QED BY <1>4, <2>1
<1>6. ASSUME NEW clean \in BOOLEAN, CommandReturns(t, clean) PROVE ToolIInv'
  <2> DEFINE res == IF outcome[Command(t)] = "ok" /\ clean THEN mode[t] ELSE "error"
  <2>1. ToolReturns(t, res) /\ stage[t] = "running" /\ pc[Command(t)] = "returned"
    BY <1>6 DEF CommandReturns
  <2>2. res \in {"error", "utility", "file"}
    BY <2>1
  <2>3. res # "error" => outcome[Command(t)] = "ok" /\ res = mode[t] /\ input[t].node
    OBVIOUS
  <2> QED BY <1>4, <2>1, <2>2, <2>3
<1>7. CASE PodStep(t)
  <2>1. PICK c \in {Probe(t), Command(t)} :
          /\ pc[c] # "idle"
          /\ CallStep(c)
          /\ (pc[c] = "executing" /\ outcome'[c] = "ok")
               => input[t].equipped \/ (c = Command(t) /\ mode[t] = "file")
    BY <1>7 DEF PodStep
  <2>2. IInv'
    BY <2>1, CallStepIInv
  <2>3. UNCHANGED <<stage, input, mode, filtered, result>>
    BY <1>7 DEF PodStep, toolVars
  <2>4. /\ pc[c] # "returned" /\ pc'[c] # "idle"
        /\ pc' = [pc EXCEPT ![c] = pc'[c]]
        /\ outcome' = [outcome EXCEPT ![c] = outcome'[c]]
    BY <1>0, <2>1, CallStepLocal
  <2>5. input[t].node
    BY <2>1, <2>4
  <2>6. outcome'[Probe(t)] = "ok" => input[t].equipped
    <3>1. outcome'[c] = "ok" => outcome[c] = "ok" \/ pc[c] = "executing"
      BY <1>0, <2>1, CallStepLocal
    <3>2. CASE c = Probe(t)
      BY <2>1, <3>1, <3>2
    <3>3. CASE c = Command(t)
      BY <1>0, <2>4, <3>3 DEF TypeOK
    <3> QED BY <3>2, <3>3
  <2> QED BY <1>0, <2>1, <2>2, <2>3, <2>4, <2>5, <2>6 DEF TypeOK
<1> QED BY <1>2, <1>3, <1>5, <1>6, <1>7 DEF ToolStep

\* Every step keeps the inductive invariant.
LEMMA StepToolIInv == ToolIInv /\ [ToolNext]_toolAll => ToolIInv'
<1> SUFFICES ASSUME ToolIInv, [ToolNext]_toolAll PROVE ToolIInv'
  OBVIOUS
<1>1. ASSUME IInv', UNCHANGED <<pc, outcome, toolVars>> PROVE ToolIInv'
  BY <1>1 DEF ToolIInv, ToolTypeOK, ProbeFirst, NodeNeeded, ProbeTells, Decided,
     FilterWithCommand, ResultWhenDone, AnswerFitsRequest, Filters, toolVars
<1>2. ASSUME NEW t \in Tools, ToolExpires(t) PROVE ToolIInv'
  <2>1. IInv'
    BY <1>2, Invocations
    DEF ToolExpires, ToolIInv, podVars, IInv, TypeOK, OwnedIffCreated, OwnersCommitted,
        HoldersKnow, Accounted, OwnPodOnly, CreateFailedReturned, InflightAwaited,
        CleanupIgnoresExpiry, Kept
  <2> QED BY <1>1, <1>2, <2>1 DEF ToolExpires
<1>3. CASE (ClusterStep \/ Exit) /\ UNCHANGED toolVars
  <2>1. IInv'
    BY <1>3, StepIInv DEF ToolIInv, Next
  <2>2. UNCHANGED <<pc, outcome>>
    BY <1>3 DEF ClusterStep, CommitCreate, RefuseCreate, StartPod, EndPod, Evict,
       RemovePod, Exit, callVars
  <2> QED BY <1>1, <1>3, <2>1, <2>2
<1>4. CASE UNCHANGED toolAll
  <2>1. IInv'
    BY <1>4, StepIInv DEF ToolIInv, toolAll
  <2> QED BY <1>1, <1>4, <2>1 DEF toolAll, vars, callVars
<1> QED
  BY <1>2, <1>3, <1>4, ToolStepIInv DEF ToolNext, AllDone

\* The inductive invariant holds in every reachable state.
THEOREM ToolInvariance == ToolSpec => []ToolIInv
  BY InitToolIInv, StepToolIInv, PTL DEF ToolSpec

\* A tool call never has the pod of its probe and the pod of its command at the
\* same time, unless the log or the probe's error tells of the first.
THEOREM OnePodPerCall == ToolSpec => []OnePodAtATime
<1>1. ToolIInv => OnePodAtATime
  <2> SUFFICES ASSUME ToolIInv, NEW t \in Tools, NEW p \in Pods, NEW q \in Pods,
                      Kept(p), owner[p] = Probe(t), owner[q] = Command(t)
               PROVE  logged[Probe(t)] \/ outcome[Probe(t)] = "createFailed"
    BY DEF OnePodAtATime
  <2>1. pc[Command(t)] # "idle"
    BY Invocations, ConstantsAssumption DEF ToolIInv, IInv, OwnersCommitted, HoldersKnow
  <2>2. pc[Probe(t)] = "returned"
    BY <2>1 DEF ToolIInv, ProbeFirst, ToolTypeOK
  <2> QED BY <2>2 DEF ToolIInv, IInv, Accounted, Holding
<1> QED BY <1>1, ToolInvariance, PTL

\* Every answer of a kernel tool is one to its own request: from where the request
\* allows, after the checks, and filtered if the utility was asked to.
THEOREM AnswersFitRequests == ToolSpec => []AnswerFitsRequest
<1>1. ToolIInv => AnswerFitsRequest
  BY DEF ToolIInv
<1> QED BY <1>1, ToolInvariance, PTL

\* What DebugPodProofs shows of single invocations holds of the two invocations of
\* every tool call, which share one context: no pod is left silently, pods are
\* not shared, and a late context does not stop the cleanup.
THEOREM ToolsKeepPodInvariants ==
    ToolSpec => [](NoSilentLeak /\ OwnPodOnly /\ CleanupIgnoresExpiry)
<1>1. ToolIInv => NoSilentLeak /\ OwnPodOnly /\ CleanupIgnoresExpiry
  BY DEF ToolIInv, IInv, NoSilentLeak, Accounted, Holding
<1> QED BY <1>1, ToolInvariance, PTL
=============================================================================
