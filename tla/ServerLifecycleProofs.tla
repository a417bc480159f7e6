------------------------ MODULE ServerLifecycleProofs ------------------------
(***************************************************************************)
(* Shutdown and debug pods, for any number of calls, pods and signals.     *)
(* The invariant of DebugPod accounts for every pod by the control state   *)
(* of its call; what is added here is in which control states the process  *)
(* can leave its calls when it ends.                                       *)
(***************************************************************************)
EXTENDS ServerLifecycle, DebugPodProofs

\* Type correctness of the process's own state.
LifeTypeOK ==
    /\ transport \in Transports
    /\ main \in {"setup", "started", "assigned", "serving", "draining", "ended"}
    /\ waiter \in {"absent", "waiting", "shutdown", "done"}
    /\ queued \in BOOLEAN
    /\ sent \in 0 .. MaxSignals
    /\ server \in BOOLEAN
    /\ cancelled \in BOOLEAN
    /\ eof \in BOOLEAN

\* The process lives as long as main does, and calls begin only when it serves.
CallsNeedMain ==
    /\ alive <=> main # "ended"
    /\ main \in {"setup", "started", "assigned"} => \A c \in Calls : pc[c] = "idle"

\* The variable server belongs to http, draining to stdio; Shutdown, which ends
\* the process without waiting, is called only on a server that was assigned.
TransportKept ==
    /\ server => transport = "http"
    /\ main = "assigned" => transport = "http"
    /\ main = "draining" => transport = "stdio"
    /\ waiter = "shutdown" => server

\* On stdio no call is under way when the process has ended.
StdioDrained ==
    (transport = "stdio" /\ ~alive) => \A c \in Calls : pc[c] \in {"idle", "returned"}

\* The inductive strengthening of StdioExitLeavesNoPod.
LifeIInv ==
    /\ IInv
    /\ LifeTypeOK
    /\ CallsNeedMain
    /\ TransportKept
    /\ StdioDrained

-----------------------------------------------------------------------------

\* The inductive invariant holds initially.
LEMMA InitLifeIInv == LifeInit => LifeIInv
<1> SUFFICES ASSUME LifeInit PROVE LifeIInv
  OBVIOUS
<1>1. IInv
  BY InitIInv DEF LifeInit
<1>2. sent \in 0 .. MaxSignals
  BY LifecycleAssumption DEF LifeInit
<1>3. alive = TRUE /\ \A c \in Calls : pc[c] = "idle"
  BY DEF LifeInit, Init
<1> QED BY <1>1, <1>2, <1>3
    DEF LifeInit, LifeIInv, LifeTypeOK, CallsNeedMain, TransportKept, StdioDrained

\* The end of the process changes nothing that accounts for a pod.
LEMMA ProcessEndsIInv ==
    ASSUME IInv, ProcessEnds
    PROVE  IInv'
  BY DEF ProcessEnds, callVars, podVars, IInv, TypeOK, OwnedIffCreated, OwnersCommitted,
     HoldersKnow, Accounted, OwnPodOnly, CreateFailedReturned, InflightAwaited,
     CleanupIgnoresExpiry, Kept

\* The process ends with its calls wherever they are on http, and at rest on
\* stdio.
LEMMA ProcessEndsLifeIInv ==
    ASSUME LifeIInv, ProcessEnds, sent' \in 0 .. MaxSignals,
           transport = "stdio" => \A c \in Calls : pc[c] \in {"idle", "returned"}
    PROVE  LifeIInv'
<1>1. IInv'
  BY ProcessEndsIInv DEF LifeIInv
<1> QED BY <1>1 DEF ProcessEnds, LifeIInv, LifeTypeOK, CallsNeedMain, TransportKept,
     StdioDrained, callVars

\* Steps of main keep the inductive invariant.
LEMMA MainStepLifeIInv ==
    ASSUME LifeIInv, MainStep \/ Fatal \/ StartFails
    PROVE  LifeIInv'
<1>1. ASSUME UNCHANGED vars PROVE IInv' /\ UNCHANGED <<pc, alive>>
  BY <1>1, StepIInv DEF LifeIInv, vars, callVars
<1> USE DEF LifeIInv, LifeTypeOK, CallsNeedMain, TransportKept, StdioDrained
<1>2. CASE StartWaiter
  BY <1>1, <1>2 DEF StartWaiter
<1>3. CASE RunStdio
  BY <1>1, <1>3 DEF RunStdio
<1>4. CASE AssignServer
  BY <1>1, <1>4 DEF AssignServer
<1>5. CASE Listen
  BY <1>1, <1>5 DEF Listen
<1>6. CASE StopAccepting
  BY <1>1, <1>6 DEF StopAccepting
<1>7. CASE ListenAndServeReturns
  BY <1>7, ProcessEndsLifeIInv DEF ListenAndServeReturns
<1>8. CASE RunReturns
  BY <1>8, ProcessEndsLifeIInv DEF RunReturns
<1>9. CASE Fatal \/ StartFails
  BY <1>9, ProcessEndsLifeIInv DEF Fatal, StartFails
<1> QED BY <1>2, <1>3, <1>4, <1>5, <1>6, <1>7, <1>8, <1>9 DEF MainStep

\* Signals, the goroutine that waits for them and the end of stdin keep the
\* inductive invariant.
LEMMA SignalLifeIInv ==
    ASSUME LifeIInv, WaiterWakes \/ Signal \/ CloseStdin
    PROVE  LifeIInv'
<1>1. ASSUME UNCHANGED vars PROVE IInv' /\ UNCHANGED <<pc, alive>>
  BY <1>1, StepIInv DEF LifeIInv, vars, callVars
<1> USE DEF LifeIInv, LifeTypeOK, CallsNeedMain, TransportKept, StdioDrained
<1>2. CASE WaiterWakes
  BY <1>1, <1>2 DEF WaiterWakes
<1>3. CASE Signal
  <2>1. sent' \in 0 .. MaxSignals
    BY <1>3, LifecycleAssumption DEF Signal
  <2>2. CASE main = "setup" /\ ProcessEnds
    BY <2>1, <2>2, ProcessEndsLifeIInv
  <2>3. CASE /\ queued' = TRUE
             /\ UNCHANGED <<vars, transport, main, waiter, server, cancelled, eof>>
    BY <1>1, <2>1, <2>3
  <2> QED BY <1>3, <2>2, <2>3 DEF Signal
<1>4. CASE CloseStdin
  BY <1>1, <1>4 DEF CloseStdin
<1> QED BY <1>2, <1>3, <1>4

\* Steps of calls and of the cluster keep the inductive invariant.
LEMMA ServedStepLifeIInv ==
    ASSUME LifeIInv, ServedStep
    PROVE  LifeIInv'
<1>1. IInv'
  BY StepIInv DEF ServedStep, LifeIInv, Next
<1>2. UNCHANGED alive
  BY DEF ServedStep, CallStep, Reject, Invoke, CreateOK, CreateError, PollRunning,
     PollGivesUp, FetchRunning, FetchFails, ExecOK, ExecFails, CleanupOK, CleanupFails,
     Expire, ClusterStep, CommitCreate, RefuseCreate, StartPod, EndPod, Evict, RemovePod
<1>3. UNCHANGED lifeVars
  BY DEF ServedStep
<1>4. ASSUME NEW c \in Calls, CallStep(c), pc[c] = "idle" => main = "serving"
      PROVE  LifeIInv'
  <2>1. alive
    BY <1>4 DEF CallStep, At, Reject, Invoke, CreateOK, CreateError, PollRunning,
       PollGivesUp, FetchRunning, FetchFails, ExecOK, ExecFails, CleanupOK, CleanupFails
  <2>2. main \notin {"setup", "started", "assigned"}
    BY <1>4 DEF LifeIInv, CallsNeedMain
  <2> QED BY <1>1, <1>2, <1>3, <2>1, <2>2
      DEF LifeIInv, LifeTypeOK, CallsNeedMain, TransportKept, StdioDrained, lifeVars
<1>5. ASSUME UNCHANGED pc PROVE LifeIInv'
  BY <1>1, <1>2, <1>3, <1>5
  DEF LifeIInv, LifeTypeOK, CallsNeedMain, TransportKept, StdioDrained, lifeVars
<1>6. ASSUME NEW c \in Calls, Expire(c) PROVE LifeIInv'
  BY <1>5, <1>6 DEF Expire
<1>7. CASE ClusterStep
  BY <1>5, <1>7 DEF ClusterStep, CommitCreate, RefuseCreate, StartPod, EndPod, Evict,
     RemovePod, callVars
<1> QED BY <1>4, <1>6, <1>7 DEF ServedStep

\* Every step keeps the inductive invariant.
LEMMA StepLifeIInv == LifeIInv /\ [LifeNext]_allVars => LifeIInv'
<1> SUFFICES ASSUME LifeIInv, [LifeNext]_allVars PROVE LifeIInv'
  OBVIOUS
<1>1. CASE UNCHANGED allVars
  <2>1. IInv'
    BY <1>1, StepIInv DEF LifeIInv, allVars
  <2> QED BY <1>1, <2>1 DEF LifeIInv, LifeTypeOK, CallsNeedMain, TransportKept,
       StdioDrained, allVars, lifeVars, vars, callVars
<1> QED
  BY <1>1, MainStepLifeIInv, SignalLifeIInv, ServedStepLifeIInv DEF LifeNext, AtRest

\* The inductive invariant holds in every reachable state.
THEOREM LifeInvariance == LifeSpec => []LifeIInv
  BY InitLifeIInv, StepLifeIInv, PTL DEF LifeSpec

\* On stdio no signal, end of input or failure to start makes the process
\* leave a debug pod behind that its call could have cleaned up.
THEOREM StdioExitIsClean == LifeSpec => []StdioExitLeavesNoPod
<1>1. LifeIInv => StdioExitLeavesNoPod
  <2> SUFFICES ASSUME LifeIInv, transport = "stdio", ~alive, NEW p \in Pods, Kept(p)
               PROVE  outcome[owner[p]] = "createFailed" \/ logged[owner[p]]
    BY DEF StdioExitLeavesNoPod, ExitLeavesNoPod
  <2>1. owner[p] \in Calls
    BY ConstantsAssumption
    DEF LifeIInv, IInv, TypeOK, OwnedIffCreated, Kept, Existing
  <2>2. pc[owner[p]] \in {"idle", "returned"}
    BY <2>1 DEF LifeIInv, StdioDrained
  <2> QED BY <2>2 DEF LifeIInv, IInv, Accounted, Holding
<1> QED BY <1>1, LifeInvariance, PTL

\* While the process serves, and after it has ended, no call that is over has
\* left a pod silently, and calls share no pod, whatever stops the process.
THEOREM ServedCallsKeepPodInvariants == LifeSpec => [](NoSilentLeak /\ OwnPodOnly)
<1>1. LifeIInv => NoSilentLeak /\ OwnPodOnly
  BY DEF LifeIInv, IInv, NoSilentLeak, Accounted, Holding
<1> QED BY <1>1, LifeInvariance, PTL
=============================================================================
