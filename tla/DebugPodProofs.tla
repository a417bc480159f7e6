--------------------------- MODULE DebugPodProofs ---------------------------
(***************************************************************************)
(* Invariants of DebugPod for every number of calls and pods and every     *)
(* combination of faults.                                                  *)
(***************************************************************************)
EXTENDS DebugPod, TLAPS

\* Locations at which a call knows its pod and still has to clean it up.
Holding == {"polling", "fetching", "executing", "cleaning"}

\* A pod has an owner as soon as, and only if, it was created.
OwnedIffCreated ==
    \A p \in Pods : owner[p] = NoCall <=> phase[p] = "Unused"

\* Only a committed Create makes a call the owner of a pod.
OwnersCommitted ==
    \A p \in Pods : owner[p] # NoCall => request[owner[p]] = "committed"

\* The control state of a call says whether it knows its pod.
HoldersKnow ==
    \A c \in Calls :
        /\ pc[c] \in Holding => podName[c] # NoPod
        /\ podName[c] # NoPod => pc[c] \in Holding \cup {"returned"}
        /\ pc[c] = "idle" => request[c] = "none"

\* A pod that nobody deletes is accounted for: its call will learn of it,
\* has it in hand, or has left one of the two traces of a leak.
Accounted ==
    \A p \in Pods :
        Kept(p) =>
            \/ pc[owner[p]] = "creating"
            \/ pc[owner[p]] \in Holding /\ podName[owner[p]] = p
            \/ outcome[owner[p]] = "createFailed"
            \/ logged[owner[p]]

\* A call fails to create only by returning at once.
CreateFailedReturned ==
    \A c \in Calls : outcome[c] = "createFailed" => pc[c] = "returned"

\* A Create that may still be carried out belongs to a call that waits for it
\* or that has reported the failure.
InflightAwaited ==
    \A c \in Calls : request[c] \in {"inflight", "committed"} =>
        \/ pc[c] \in {"creating"} \cup Holding
        \/ outcome[c] = "createFailed"
        \/ pc[c] = "returned" /\ podName[c] # NoPod

\* The inductive strengthening of NoSilentLeak and OwnPodOnly.
IInv ==
    /\ TypeOK
    /\ OwnedIffCreated
    /\ OwnersCommitted
    /\ HoldersKnow
    /\ Accounted
    /\ OwnPodOnly
    /\ CreateFailedReturned
    /\ InflightAwaited
    /\ CleanupIgnoresExpiry

-----------------------------------------------------------------------------

\* The inductive invariant holds initially.
LEMMA InitIInv == Init => IInv
  BY ConstantsAssumption
  DEF Init, IInv, TypeOK, OwnedIffCreated, OwnersCommitted, HoldersKnow,
      Accounted, OwnPodOnly, CreateFailedReturned, InflightAwaited,
      CleanupIgnoresExpiry, Kept, Existing, Holding, Locations,
      Outcomes, Requests, Phases

\* Every step of a call keeps the inductive invariant.
LEMMA CallStepIInv ==
    ASSUME NEW c \in Calls, IInv, CallStep(c)
    PROVE  IInv'
<1> USE ConstantsAssumption
    DEF IInv, TypeOK, OwnedIffCreated, OwnersCommitted, HoldersKnow,
        Accounted, OwnPodOnly, CreateFailedReturned, InflightAwaited,
        CleanupIgnoresExpiry, Kept, Existing, Holding, Locations,
        Outcomes, Requests, Phases
<1>1. CASE Reject(c)
  BY <1>1 DEF Reject, At, podVars, Return
<1>2. CASE Invoke(c)
  BY <1>2 DEF Invoke, At, podVars
<1>3. CASE CreateOK(c)
  BY <1>3 DEF CreateOK, At, podVars
<1>4. CASE CreateError(c)
  BY <1>4 DEF CreateError, At, podVars, Return
<1>5. CASE PollRunning(c)
  BY <1>5 DEF PollRunning, At, podVars
<1>6. CASE PollGivesUp(c)
  BY <1>6 DEF PollGivesUp, At, podVars, CleanUpAndReturn
<1>7. CASE FetchRunning(c)
  BY <1>7 DEF FetchRunning, At, podVars
<1>8. CASE FetchFails(c)
  BY <1>8 DEF FetchFails, At, podVars, CleanUpAndReturn
<1>9. CASE ExecOK(c)
  BY <1>9 DEF ExecOK, At, podVars, CleanUpAndReturn
<1>10. CASE ExecFails(c)
  BY <1>10 DEF ExecFails, At, podVars, CleanUpAndReturn
<1>11. CASE CleanupOK(c)
  <2>1. podName[c] \in Pods /\ owner[podName[c]] = c
    BY <1>11 DEF CleanupOK, At
  <2>2. CASE phase[podName[c]] \in Existing
    <3>1. /\ pc' = [pc EXCEPT ![c] = "returned"]
          /\ deleting' = deleting \cup {podName[c]}
          /\ UNCHANGED <<podName, expired, outcome, logged, request, phase,
                         owner, alive>>
      BY <1>11, <2>2 DEF CleanupOK
    <3>2. TypeOK'
      BY <2>1, <3>1
    <3>3. Accounted'
      BY <1>11, <2>1, <3>1 DEF CleanupOK, At
    <3>4. CleanupIgnoresExpiry'
      BY <2>1, <3>1
    <3>5. (/\ OwnedIffCreated /\ OwnersCommitted /\ HoldersKnow /\ OwnPodOnly
           /\ CreateFailedReturned /\ InflightAwaited)'
      BY <1>11, <2>1, <3>1 DEF CleanupOK, At
    <3> QED BY <3>2, <3>3, <3>4, <3>5
  <2>3. CASE phase[podName[c]] \notin Existing
    <3>1. /\ pc' = [pc EXCEPT ![c] = "returned"]
          /\ logged' = [logged EXCEPT ![c] = TRUE]
          /\ UNCHANGED <<podName, expired, outcome, request, podVars, alive>>
      BY <1>11, <2>3 DEF CleanupOK, podVars
    <3> QED BY <1>11, <2>1, <2>3, <3>1 DEF CleanupOK, At, podVars
  <2> QED BY <2>2, <2>3
<1>12. CASE CleanupFails(c)
  BY <1>12 DEF CleanupFails, At, podVars
<1> QED
  BY <1>1, <1>2, <1>3, <1>4, <1>5, <1>6, <1>7, <1>8, <1>9, <1>10, <1>11,
     <1>12 DEF CallStep

\* Every step of the cluster keeps the inductive invariant.
LEMMA ClusterStepIInv == IInv /\ ClusterStep => IInv'
<1> SUFFICES ASSUME IInv, ClusterStep PROVE IInv'
  OBVIOUS
<1> USE ConstantsAssumption
    DEF IInv, TypeOK, OwnedIffCreated, OwnersCommitted, HoldersKnow,
        Accounted, OwnPodOnly, CreateFailedReturned, InflightAwaited,
        CleanupIgnoresExpiry, Kept, Existing, Holding, Locations,
        Outcomes, Requests, Phases
<1>1. ASSUME NEW c \in Calls, CommitCreate(c) PROVE IInv'
  BY <1>1 DEF CommitCreate, callVars
<1>2. ASSUME NEW c \in Calls, RefuseCreate(c) PROVE IInv'
  BY <1>2 DEF RefuseCreate, callVars, podVars
<1>3. ASSUME NEW p \in Pods, StartPod(p) PROVE IInv'
  BY <1>3 DEF StartPod, callVars
<1>4. ASSUME NEW p \in Pods, EndPod(p) PROVE IInv'
  BY <1>4 DEF EndPod, callVars
<1>5. ASSUME NEW p \in Pods, Evict(p) PROVE IInv'
  BY <1>5 DEF Evict, callVars
<1>6. ASSUME NEW p \in Pods, RemovePod(p) PROVE IInv'
  BY <1>6 DEF RemovePod, callVars
<1> QED BY <1>1, <1>2, <1>3, <1>4, <1>5, <1>6 DEF ClusterStep

\* Every step keeps the inductive invariant.
LEMMA StepIInv == IInv /\ [Next]_vars => IInv'
<1> SUFFICES ASSUME IInv, [Next]_vars PROVE IInv'
  OBVIOUS
<1> USE DEF IInv, TypeOK, OwnedIffCreated, OwnersCommitted, HoldersKnow,
            Accounted, OwnPodOnly, CreateFailedReturned, InflightAwaited,
            CleanupIgnoresExpiry, Kept, Existing, Holding, Locations,
        Outcomes, Requests, Phases
<1>1. ASSUME NEW c \in Calls, Expire(c) PROVE IInv'
  BY <1>1 DEF Expire, podVars
<1>2. CASE Exit
  BY <1>2 DEF Exit, callVars, podVars
<1>3. CASE UNCHANGED vars
  BY <1>3 DEF vars, callVars, podVars
<1> QED
  BY <1>1, <1>2, <1>3, CallStepIInv, ClusterStepIInv DEF Next, Finished

\* The inductive invariant holds in every reachable state.
THEOREM Invariance == Spec => []IInv
  BY InitIInv, StepIInv, PTL DEF Spec

\* Every variable keeps its type.  TypeOK is not inductive by itself: that
\* cleanupPod marks a pod, and not NoPod, rests on HoldersKnow.
THEOREM TypeCorrect == Spec => []TypeOK
<1>1. IInv => TypeOK
  BY DEF IInv
<1> QED BY <1>1, Invariance, PTL

\* No debug pod outlives its call silently: for any number of calls and any
\* combination of lost answers, failed deletes, evictions and expiries, the
\* pod left behind by a call shows in the call's error or in the log.
THEOREM LeaksAreVisible == Spec => []NoSilentLeak
<1>1. IInv => NoSilentLeak
  <2> SUFFICES ASSUME IInv, NEW p \in Pods, Kept(p),
                      pc[owner[p]] = "returned"
               PROVE  outcome[owner[p]] = "createFailed" \/ logged[owner[p]]
    BY DEF NoSilentLeak
  <2> QED BY DEF IInv, Accounted, Holding
<1> QED BY <1>1, Invariance, PTL

\* Calls never share a pod and never own two.
THEOREM PodsAreExclusive == Spec => []OwnPodOnly
<1>1. IInv => OwnPodOnly
  BY DEF IInv
<1> QED BY <1>1, Invariance, PTL

\* With an API server that carries out every Delete, a call whose Create was
\* answered leaves no pod, even when its deadline has passed.
THEOREM ExpiredCallsCleanUp == Spec => []CleanupIgnoresExpiry
<1>1. IInv => CleanupIgnoresExpiry
  BY DEF IInv
<1> QED BY <1>1, Invariance, PTL

\* The server never marks a pod for deletion while the command of the pod's
\* call is running.
THEOREM CommandsKeepTheirPod == Spec => NoDeleteUnderCommand
<1> DEFINE A == \A c \in Calls :
                  (pc'[c] = "executing" /\ podName[c] \in deleting' \ deleting)
                    => \E p \in Pods : Evict(p)
<1>1. IInv /\ [Next]_vars => [A]_vars
  <2> SUFFICES ASSUME IInv, Next, NEW c \in Calls, pc'[c] = "executing",
                      podName[c] \in deleting' \ deleting
               PROVE  \E p \in Pods : Evict(p)
    OBVIOUS
  <2>1. deleting' # deleting
    OBVIOUS
  <2>2. ASSUME NEW d \in Calls, CallStep(d) PROVE FALSE
    <3>1. CleanupOK(d)
      BY <2>1, <2>2 DEF CallStep, Reject, Invoke, CreateOK, CreateError,
         PollRunning, PollGivesUp, FetchRunning, FetchFails, ExecOK,
         ExecFails, CleanupFails, podVars
    <3>2. podName[d] = podName[c] /\ pc[d] = "cleaning" /\ pc'[d] = "returned"
      BY <3>1 DEF CleanupOK, At, IInv, TypeOK
    <3>3. d = c
      BY <3>2 DEF IInv, OwnPodOnly, HoldersKnow, Holding
    <3> QED BY <3>2, <3>3
  <2>3. ASSUME NEW d \in Calls, Expire(d) PROVE FALSE
    BY <2>1, <2>3 DEF Expire, podVars
  <2>4. CASE ClusterStep
    BY <2>1, <2>4 DEF ClusterStep, CommitCreate, RefuseCreate, StartPod,
                      EndPod, RemovePod, podVars
  <2>5. CASE Exit \/ Finished
    BY <2>1, <2>5 DEF Exit, Finished, vars, podVars
  <2> QED BY <2>2, <2>3, <2>4, <2>5 DEF Next
<1> QED BY <1>1, Invariance, PTL DEF Spec, NoDeleteUnderCommand
=============================================================================
