------------------------------ MODULE DebugPod ------------------------------
(***************************************************************************)
(* The life of the privileged debug pods behind the node tools.            *)
(*                                                                         *)
(* A member of Calls is one invocation of DebugNode                        *)
(* (pkg/kubernetes/client/nodes.go), on a goroutine of its own: it creates *)
(* a pod, polls until the pod runs, executes a command in it (ExecPod,     *)
(* pkg/kubernetes/client/pods.go) and deletes the pod.  It talks to the    *)
(* API server over a connection that can lose an answer, while the         *)
(* kubelet, other users of the cluster, the call's own deadline and the    *)
(* exit of the server process interleave with it.                          *)
(*                                                                         *)
(* Data that no property tells apart (image, node, mount paths, command,   *)
(* output) is left out; the pod's generated name is a member of Pods.      *)
(***************************************************************************)
EXTENDS FiniteSets, Naturals

CONSTANTS Calls,      \* invocations of DebugNode
          Pods,       \* names the API server can generate for debug pods
          NoPod,      \* no pod name known
          NoCall,     \* owner of a pod that does not exist
          Deadlined,  \* the calls whose context carries a deadline
          Faults      \* what may go wrong: see FaultKinds

\* "transport": a request to the API server fails for a call whose deadline
\* has not passed; "delete": the cleanup's Delete fails; "evict": somebody
\* else deletes a debug pod; "exit": the server process ends.
FaultKinds == {"transport", "delete", "evict", "exit"}

ASSUME ConstantsAssumption ==
    /\ NoPod \notin Pods
    /\ NoCall \notin Calls
    /\ Deadlined \subseteq Calls
    /\ Faults \subseteq FaultKinds

VARIABLES
    pc,        \* where each call is in DebugNode / createPod / ExecPod
    podName,   \* createdDebugPod.Name, once the answer to Create is in
    expired,   \* the call's context is done (deadline or cancellation)
    outcome,   \* what DebugNode returns
    logged,    \* "failed to cleanup debug pod" was logged for the call
    request,   \* the call's Create request on its way to the API server
    phase,     \* status.phase of each pod, in the API server
    deleting,  \* pods with a deletionTimestamp
    owner,     \* whose Create made the pod (not known to the code)
    alive      \* the server process runs

callVars == <<pc, podName, expired, outcome, logged>>
podVars  == <<phase, deleting, owner>>
vars     == <<callVars, request, podVars, alive>>

Locations == {"idle", "creating", "polling", "fetching", "executing",
              "cleaning", "returned"}
Outcomes  == {"none", "ok", "invalid", "createFailed", "notRunning",
              "execFailed"}
Requests  == {"none", "inflight", "refused", "committed"}
Phases    == {"Unused", "Pending", "Running", "Ended", "Gone"}

\* Phases of a pod that is an object of the API server.
Existing == {"Pending", "Running", "Ended"}

\* A pod that exists and that nobody has asked to delete.
Kept(p) == phase[p] \in Existing /\ p \notin deleting

Init ==
    /\ pc = [c \in Calls |-> "idle"]
    /\ podName = [c \in Calls |-> NoPod]
    /\ expired = [c \in Calls |-> FALSE]
    /\ outcome = [c \in Calls |-> "none"]
    /\ logged = [c \in Calls |-> FALSE]
    /\ request = [c \in Calls |-> "none"]
    /\ phase = [p \in Pods |-> "Unused"]
    /\ deleting = {}
    /\ owner = [p \in Pods |-> NoCall]
    /\ alive = TRUE

-----------------------------------------------------------------------------
(* Control of one call. *)

\* The goroutine of c is at location loc of a process that runs.
At(c, loc) == alive /\ pc[c] = loc

\* DebugNode returns with result res.
Return(c, res) ==
    /\ pc' = [pc EXCEPT ![c] = "returned"]
    /\ outcome' = [outcome EXCEPT ![c] = res]

\* DebugNode will return res; the pod's cleanup (called by createPod, or
\* deferred by DebugNode) runs first.
CleanUpAndReturn(c, res) ==
    /\ pc' = [pc EXCEPT ![c] = "cleaning"]
    /\ outcome' = [outcome EXCEPT ![c] = res]

\* The node name is empty, or hostPath or mountPath is not a valid path.
Reject(c) ==
    /\ At(c, "idle")
    /\ Return(c, "invalid")
    /\ UNCHANGED <<podName, expired, logged, request, podVars, alive>>

\* The arguments are valid: createPod sends the Create request.  The client
\* library sends nothing for a context that is already done.
Invoke(c) ==
    /\ At(c, "idle")
    /\ pc' = [pc EXCEPT ![c] = "creating"]
    /\ request' = [request EXCEPT ![c] = IF expired[c] THEN "refused"
                                                      ELSE "inflight"]
    /\ UNCHANGED <<podName, expired, outcome, logged, podVars, alive>>

\* Mutant of CreateOK: a live debug pod of any call is taken.
CreateOKAnyPod(c) ==
    /\ At(c, "creating")
    /\ request[c] = "committed"
    /\ ~expired[c]
    /\ \E p \in Pods : Kept(p) /\ podName' = [podName EXCEPT ![c] = p]
    /\ pc' = [pc EXCEPT ![c] = "polling"]
    /\ UNCHANGED <<expired, outcome, logged, request, podVars, alive>>

\* The answer to Create arrives; from here on the call knows its pod.
CreateOK(c) ==
    /\ At(c, "creating")
    /\ request[c] = "committed"
    /\ ~expired[c]
    /\ \E p \in Pods : owner[p] = c /\ podName' = [podName EXCEPT ![c] = p]
    /\ pc' = [pc EXCEPT ![c] = "polling"]
    /\ UNCHANGED <<expired, outcome, logged, request, podVars, alive>>

\* Mutant of CreateError: the cleanup is deferred before the error is looked at.
CreateErrorCleansUp(c) ==
    /\ At(c, "creating")
    /\ request[c] = "refused" \/ expired[c] \/ "transport" \in Faults
    /\ Return(c, "createFailed")
    /\ deleting' = deleting \cup {podName[c]}
    /\ UNCHANGED <<podName, expired, logged, request, phase, owner, alive>>

\* Create returns an error: the API server refused it, the context is done,
\* or the connection broke.  createPod has no name to clean up with, and the
\* request may still be on its way, or even be carried out.
CreateError(c) ==
    /\ At(c, "creating")
    /\ \/ request[c] = "refused"
       \/ expired[c]
       \/ "transport" \in Faults
    /\ Return(c, "createFailed")
    /\ UNCHANGED <<podName, expired, logged, request, podVars, alive>>

\* A poll reads phase Running.  A poll that reads anything else changes
\* nothing and the loop goes on.
PollRunning(c) ==
    /\ At(c, "polling")
    /\ ~expired[c]
    /\ phase[podName[c]] = "Running"
    /\ pc' = [pc EXCEPT ![c] = "fetching"]
    /\ UNCHANGED <<podName, expired, outcome, logged, request, podVars, alive>>

\* Mutant of PollGivesUp: the error path of createPod without cleanupPod().
PollGivesUpNoCleanup(c) ==
    /\ At(c, "polling")
    /\ Return(c, "notRunning")
    /\ UNCHANGED <<podName, expired, logged, request, podVars, alive>>

\* Mutant of PollGivesUp: the poll is bounded by the call's context only.
PollGivesUpOnExpiry(c) ==
    /\ At(c, "polling")
    /\ expired[c]
    /\ CleanUpAndReturn(c, "notRunning")
    /\ UNCHANGED <<podName, expired, logged, request, podVars, alive>>

\* The poll ends with an error: the minute is over, the context is done, the
\* pod is not found or the Get failed.  The minute can be over at any time.
PollGivesUp(c) ==
    /\ At(c, "polling")
    /\ CleanUpAndReturn(c, "notRunning")
    /\ UNCHANGED <<podName, expired, logged, request, podVars, alive>>

\* Mutant of FetchRunning: cleanupPod() is called, not deferred.
FetchRunningNotDeferred(c) ==
    /\ At(c, "fetching")
    /\ ~expired[c]
    /\ phase[podName[c]] = "Running"
    /\ pc' = [pc EXCEPT ![c] = "executing"]
    /\ deleting' = deleting \cup {podName[c]}
    /\ UNCHANGED <<podName, expired, outcome, logged, request, phase, owner,
                   alive>>

\* ExecPod fetches the pod again, finds it Running and starts the command.
FetchRunning(c) ==
    /\ At(c, "fetching")
    /\ ~expired[c]
    /\ phase[podName[c]] = "Running"
    /\ pc' = [pc EXCEPT ![c] = "executing"]
    /\ UNCHANGED <<podName, expired, outcome, logged, request, podVars, alive>>

\* ExecPod's Get fails, or the pod stopped running since the last poll.
FetchFails(c) ==
    /\ At(c, "fetching")
    /\ \/ phase[podName[c]] # "Running"
       \/ expired[c]
       \/ "transport" \in Faults
    /\ CleanUpAndReturn(c, "execFailed")
    /\ UNCHANGED <<podName, expired, logged, request, podVars, alive>>

\* The command ends with exit code 0 and its output is in the buffers.
ExecOK(c) ==
    /\ At(c, "executing")
    /\ ~expired[c]
    /\ phase[podName[c]] = "Running"
    /\ CleanUpAndReturn(c, "ok")
    /\ UNCHANGED <<podName, expired, logged, request, podVars, alive>>

\* Mutant of ExecFails: the command does not run under the call's context.
ExecFailsNoContext(c) ==
    /\ At(c, "executing")
    /\ ~expired[c]
    /\ CleanUpAndReturn(c, "execFailed")
    /\ UNCHANGED <<podName, expired, logged, request, podVars, alive>>

\* ExecuteWithContext fails: another exit code, a broken stream, a pod that
\* stopped, or a context that is done.
ExecFails(c) ==
    /\ At(c, "executing")
    /\ CleanUpAndReturn(c, "execFailed")
    /\ UNCHANGED <<podName, expired, logged, request, podVars, alive>>

\* Mutant of CleanupOK: Delete is sent on the call's context.
CleanupOKOnCallContext(c) ==
    /\ At(c, "cleaning")
    /\ pc' = [pc EXCEPT ![c] = "returned"]
    /\ IF ~expired[c] /\ phase[podName[c]] \in Existing
         THEN deleting' = deleting \cup {podName[c]} /\ UNCHANGED logged
         ELSE logged' = [logged EXCEPT ![c] = TRUE] /\ UNCHANGED deleting
    /\ UNCHANGED <<podName, expired, outcome, request, phase, owner, alive>>

\* Mutant of CleanupOK: the pod is never deleted.
CleanupOKSkipped(c) ==
    /\ At(c, "cleaning")
    /\ pc' = [pc EXCEPT ![c] = "returned"]
    /\ UNCHANGED <<podName, expired, outcome, logged, request, podVars, alive>>

\* cleanupPod's Delete, on a context of its own, is carried out.  A pod that
\* is already gone makes it an error, which is logged.
CleanupOK(c) ==
    /\ At(c, "cleaning")
    /\ pc' = [pc EXCEPT ![c] = "returned"]
    /\ IF phase[podName[c]] \in Existing
         THEN deleting' = deleting \cup {podName[c]} /\ UNCHANGED logged
         ELSE logged' = [logged EXCEPT ![c] = TRUE] /\ UNCHANGED deleting
    /\ UNCHANGED <<podName, expired, outcome, request, phase, owner, alive>>

\* cleanupPod's Delete fails or takes more than its 10 seconds: the error is
\* logged and nothing tries again.
CleanupFails(c) ==
    /\ At(c, "cleaning")
    /\ "delete" \in Faults
    /\ pc' = [pc EXCEPT ![c] = "returned"]
    /\ logged' = [logged EXCEPT ![c] = TRUE]
    /\ UNCHANGED <<podName, expired, outcome, request, podVars, alive>>

\* The deadline of the call's context passes, or the client cancels the call.
\* The context may be the caller's and be done before DebugNode is called.
Expire(c) ==
    /\ alive
    /\ pc[c] # "returned"
    /\ ~expired[c]
    /\ expired' = [expired EXCEPT ![c] = TRUE]
    /\ UNCHANGED <<pc, podName, outcome, logged, request, podVars, alive>>

-----------------------------------------------------------------------------
(* The cluster (external). *)

\* The API server stores the pod of a Create request, under a name no other
\* pod has (GenerateName).  The client may be gone by now.
CommitCreate(c) ==
    /\ request[c] = "inflight"
    /\ request' = [request EXCEPT ![c] = "committed"]
    /\ \E p \in Pods :
         /\ phase[p] = "Unused"
         /\ phase' = [phase EXCEPT ![p] = "Pending"]
         /\ owner' = [owner EXCEPT ![p] = c]
    /\ UNCHANGED <<callVars, deleting, alive>>

\* The request is refused (admission, quota, ...) or never arrives.
RefuseCreate(c) ==
    /\ request[c] = "inflight"
    /\ request' = [request EXCEPT ![c] = "refused"]
    /\ UNCHANGED <<callVars, podVars, alive>>

\* The kubelet starts the container.
StartPod(p) ==
    /\ phase[p] = "Pending"
    /\ p \notin deleting
    /\ phase' = [phase EXCEPT ![p] = "Running"]
    /\ UNCHANGED <<callVars, request, deleting, owner, alive>>

\* The container ends, or cannot be started (restartPolicy Never).
EndPod(p) ==
    /\ phase[p] \in {"Pending", "Running"}
    /\ phase' = [phase EXCEPT ![p] = "Ended"]
    /\ UNCHANGED <<callVars, request, deleting, owner, alive>>

\* A user, an eviction or the deletion of the namespace deletes the pod.
Evict(p) ==
    /\ "evict" \in Faults
    /\ Kept(p)
    /\ deleting' = deleting \cup {p}
    /\ UNCHANGED <<callVars, request, phase, owner, alive>>

\* A pod marked for deletion disappears from the API server.
RemovePod(p) ==
    /\ p \in deleting
    /\ phase[p] \in Existing
    /\ phase' = [phase EXCEPT ![p] = "Gone"]
    /\ UNCHANGED <<callVars, request, deleting, owner, alive>>

\* The server process ends: its goroutines stop wherever they are, and no
\* deferred function runs.
Exit ==
    /\ "exit" \in Faults
    /\ alive
    /\ alive' = FALSE
    /\ UNCHANGED <<callVars, request, podVars>>

-----------------------------------------------------------------------------

\* Steps of the goroutine of c.
CallStep(c) ==
    \/ Reject(c) \/ Invoke(c) \/ CreateOK(c) \/ CreateError(c)
    \/ PollRunning(c) \/ PollGivesUp(c) \/ FetchRunning(c) \/ FetchFails(c)
    \/ ExecOK(c) \/ ExecFails(c) \/ CleanupOK(c) \/ CleanupFails(c)

ClusterStep ==
    \/ \E c \in Calls : CommitCreate(c) \/ RefuseCreate(c)
    \/ \E p \in Pods : StartPod(p) \/ EndPod(p) \/ Evict(p) \/ RemovePod(p)

\* Every call has returned or died with the process; only the cluster moves.
Finished ==
    /\ ~alive \/ \A c \in Calls : pc[c] = "returned"
    /\ UNCHANGED vars

Next ==
    \/ \E c \in Calls : CallStep(c) \/ Expire(c)
    \/ ClusterStep
    \/ Exit
    \/ Finished

Spec == Init /\ [][Next]_vars

\* What the Go runtime and the cluster guarantee.  The scheduler runs every
\* goroutine that can take a step; deadlines pass; the poll's minute and the
\* cleanup's 10 seconds pass; a request whose context is done returns; the
\* kubelet finishes deletions.  A call that has no deadline may wait for an
\* answer or for its command for ever.
Fairness ==
    /\ \A c \in Calls :
         /\ WF_vars(expired[c] /\ CreateError(c))
         /\ WF_vars(PollRunning(c) \/ PollGivesUp(c))
         /\ WF_vars(FetchRunning(c) \/ (expired[c] /\ FetchFails(c)))
         /\ WF_vars(expired[c] /\ ExecFails(c))
         /\ WF_vars(CleanupOK(c) \/ CleanupFails(c))
    /\ \A c \in Deadlined : WF_vars(Expire(c))
    /\ \A p \in Pods : WF_vars(RemovePod(p))

FairSpec == Spec /\ Fairness

-----------------------------------------------------------------------------
(* Properties. *)

\* Type invariant of the call and cluster state.
TypeOK ==
    /\ pc \in [Calls -> Locations]
    /\ podName \in [Calls -> Pods \cup {NoPod}]
    /\ expired \in [Calls -> BOOLEAN]
    /\ outcome \in [Calls -> Outcomes]
    /\ logged \in [Calls -> BOOLEAN]
    /\ request \in [Calls -> Requests]
    /\ phase \in [Pods -> Phases]
    /\ deleting \subseteq Pods
    /\ owner \in [Pods -> Calls \cup {NoCall}]
    /\ alive \in BOOLEAN

\* No pod of a call that is over is left in the cluster silently: a pod that
\* outlives its call belongs to a call that told its client "failed to create
\* debug pod", or for which the server logged "failed to cleanup debug pod"
\* (nodes.go: every return path of createPod and DebugNode after a successful
\* Create goes through cleanupPod), also if the process has ended since then.
NoSilentLeak ==
    \A p \in Pods :
        (Kept(p) /\ pc[owner[p]] = "returned")
            => \/ outcome[owner[p]] = "createFailed"
               \/ logged[owner[p]]

\* When the API server carries out every Delete, a call whose Create was
\* answered leaves no pod behind, however its context ended: cleanupPod uses
\* a context of its own (nodes.go), so an expired call still cleans up.
CleanupIgnoresExpiry ==
    "delete" \notin Faults =>
        \A c \in Calls :
            (pc[c] = "returned" /\ podName[c] # NoPod) => ~Kept(podName[c])

\* A call works in, and deletes, only the pod its own Create made, and no
\* call ever has two pods (createPod sends Create once and never retries).
OwnPodOnly ==
    /\ \A c \in Calls : podName[c] # NoPod => owner[podName[c]] = c
    /\ \A p, q \in Pods : (owner[p] = owner[q] /\ owner[p] # NoCall) => p = q

\* A pod is not taken away by the server while the command of its call runs:
\* only an eviction puts the pod of an executing call on the way out.
\* (DebugNode defers the cleanup until ExecPod is back.)
NoDeleteUnderCommand ==
    [][\A c \in Calls :
         (pc'[c] = "executing" /\ podName[c] \in deleting' \ deleting)
              => \E p \in Pods : Evict(p)]_vars

\* A call whose context has a deadline returns, whatever the API server, the
\* kubelet and its command do, unless the process ends first.
DeadlinedCallsReturn ==
    \A c \in Deadlined :
        pc[c] = "creating" ~> (pc[c] = "returned" \/ ~alive)

\* The pod of a call that has a deadline disappears from the cluster in the
\* end, unless the failed cleanup is in the log or the process ended.
KnownPodsDisappear ==
    \A c \in Deadlined : \A p \in Pods :
        podName[c] = p ~> (phase[p] = "Gone" \/ logged[c] \/ ~alive)

\* The pod of a call that has no deadline stays in the cluster in one way only:
\* its call is in ExecPod for ever, in the Get or in the command, which nothing
\* bounds.  A pod that never runs, or that ends before ExecPod finds it, goes:
\* createPod gives it up after a minute and cleans up, and so does DebugNode
\* when ExecPod fails.
OpenEndedPodsDisappear ==
    \A c \in Calls \ Deadlined : \A p \in Pods :
        podName[c] = p ~> \/ phase[p] = "Gone" \/ logged[c] \/ ~alive
                          \/ [](pc[c] \in {"fetching", "executing"})
=============================================================================
