-------------------------- MODULE ServerLifecycle ---------------------------
(***************************************************************************)
(* Start, signals and shutdown of the server process                       *)
(* (cmd/ovnk-mcp-server/main.go), composed with the debug-pod calls it may *)
(* be serving when it stops (DebugPod).                                    *)
(*                                                                         *)
(* main installs the signal handler, starts a goroutine that waits for one *)
(* signal, and serves on stdio or http until the transport ends; then the  *)
(* process exits, whatever its other goroutines are doing.                 *)
(***************************************************************************)
EXTENDS DebugPod

CONSTANTS Transports, \* the values of the flag --transport
          MaxSignals  \* bound on the signals sent to the process

ASSUME LifecycleAssumption ==
    /\ Transports \subseteq {"stdio", "http"}
    /\ MaxSignals \in Nat
    /\ Faults \cap {"exit"} = {}

VARIABLES transport,  \* the flag's value; never changes
          main,       \* where main() is
          waiter,     \* where the signal goroutine is
          queued,     \* signalChan holds a signal
          sent,       \* signals sent so far
          server,     \* the variable server is not nil
          cancelled,  \* ctx was cancelled by the signal goroutine
          eof         \* the client closed the server's stdin

lifeVars == <<transport, main, waiter, queued, sent, server, cancelled, eof>>
allVars  == <<vars, lifeVars>>

LifeInit ==
    /\ Init
    /\ transport \in Transports
    /\ main = "setup"
    /\ waiter = "absent"
    /\ queued = FALSE
    /\ sent = 0
    /\ server = FALSE
    /\ cancelled = FALSE
    /\ eof = FALSE

-----------------------------------------------------------------------------
(* main() *)

\* main returns or is killed: the process and all its goroutines end.
ProcessEnds ==
    /\ main' = "ended"
    /\ alive' = FALSE
    /\ UNCHANGED <<callVars, request, podVars, transport, waiter, queued,
                   server, cancelled, eof>>

\* signal.Notify and the go statement.
StartWaiter ==
    /\ main = "setup"
    /\ main' = "started"
    /\ waiter' = "waiting"
    /\ UNCHANGED <<vars, transport, queued, sent, server, cancelled, eof>>

\* A wrong flag or mode, or a cluster client that cannot be made: log.Fatalf
\* before anything is served.
Fatal ==
    /\ main = "setup"
    /\ ProcessEnds
    /\ UNCHANGED sent

\* The transport is not a known one, the session cannot be connected, or the
\* address cannot be bound: main ends.
StartFails ==
    /\ main \in {"started", "assigned"}
    /\ ProcessEnds
    /\ UNCHANGED sent

\* case "stdio": Run connects the session.
RunStdio ==
    /\ transport = "stdio"
    /\ main = "started"
    /\ main' = "serving"
    /\ UNCHANGED <<vars, transport, waiter, queued, sent, server, cancelled,
                   eof>>

\* case "http": the variable server is assigned ...
AssignServer ==
    /\ transport = "http"
    /\ main = "started"
    /\ main' = "assigned"
    /\ server' = TRUE
    /\ UNCHANGED <<vars, transport, waiter, queued, sent, cancelled, eof>>

\* ... and ListenAndServe starts to accept, unless Shutdown came first.
Listen ==
    /\ main = "assigned"
    /\ waiter # "shutdown"
    /\ main' = "serving"
    /\ UNCHANGED <<vars, transport, waiter, queued, sent, server, cancelled,
                   eof>>

\* ListenAndServe returns at once when Shutdown is called, without waiting
\* for the requests being served; main returns.
ListenAndServeReturns ==
    /\ transport = "http"
    /\ main \in {"assigned", "serving"}
    /\ waiter = "shutdown"
    /\ ProcessEnds
    /\ UNCHANGED sent

\* Run sees that ctx is done, or the session sees the end of stdin: no new
\* calls are taken.
StopAccepting ==
    /\ transport = "stdio"
    /\ main = "serving"
    /\ cancelled \/ eof
    /\ main' = "draining"
    /\ UNCHANGED <<vars, transport, waiter, queued, sent, server, cancelled,
                   eof>>

\* Mutant of RunReturns: the session is closed without waiting.
RunReturnsAtOnce ==
    /\ main = "draining"
    /\ ProcessEnds
    /\ UNCHANGED sent

\* Closing the session waits for the calls being served; then Run and main
\* return.  The calls' contexts are not derived from ctx, so that the signal
\* does not cancel them.
RunReturns ==
    /\ main = "draining"
    /\ \A c \in Calls : pc[c] \in {"idle", "returned"}
    /\ ProcessEnds
    /\ UNCHANGED sent

-----------------------------------------------------------------------------
(* Signals *)

\* Mutant of WaiterWakes: the http server is not shut down.
WaiterWakesNoShutdown ==
    /\ alive
    /\ waiter = "waiting"
    /\ queued
    /\ queued' = FALSE
    /\ waiter' = "done"
    /\ cancelled' = TRUE
    /\ UNCHANGED <<vars, transport, main, sent, server, eof>>

\* The goroutine receives the signal.  If server is set it calls Shutdown, and
\* cancels ctx when that returns, which the process may not live to see;
\* otherwise it cancels ctx and is done.
WaiterWakes ==
    /\ alive
    /\ waiter = "waiting"
    /\ queued
    /\ queued' = FALSE
    /\ waiter' = IF server THEN "shutdown" ELSE "done"
    /\ cancelled' = (cancelled \/ ~server)
    /\ UNCHANGED <<vars, transport, main, sent, server, eof>>

\* SIGINT or SIGTERM.  Before signal.Notify it kills the process; afterwards
\* it is put into the channel, or dropped when the channel is full.
Signal ==
    /\ alive
    /\ sent < MaxSignals
    /\ sent' = sent + 1
    /\ \/ main = "setup" /\ ProcessEnds
       \/ /\ main # "setup"
          /\ queued' = TRUE
          /\ UNCHANGED <<vars, transport, main, waiter, server, cancelled, eof>>

\* The client closes the server's standard input.
CloseStdin ==
    /\ transport = "stdio"
    /\ alive
    /\ ~eof
    /\ eof' = TRUE
    /\ UNCHANGED <<vars, transport, main, waiter, queued, sent, server,
                   cancelled>>

-----------------------------------------------------------------------------

MainStep ==
    \/ StartWaiter \/ RunStdio \/ AssignServer \/ Listen
    \/ ListenAndServeReturns \/ StopAccepting \/ RunReturns

\* Steps of the calls and of the cluster; a call begins only while its
\* transport serves.
ServedStep ==
    /\ \/ \E c \in Calls :
            \/ CallStep(c) /\ (pc[c] = "idle" => main = "serving")
            \/ Expire(c)
       \/ ClusterStep
    /\ UNCHANGED lifeVars

\* The process has ended, or it serves and has no call.
AtRest ==
    /\ ~alive \/ (main = "serving" /\ \A c \in Calls : pc[c] = "returned")
    /\ UNCHANGED allVars

LifeNext ==
    \/ MainStep \/ Fatal \/ StartFails
    \/ WaiterWakes \/ Signal \/ CloseStdin
    \/ ServedStep \/ AtRest

LifeSpec == LifeInit /\ [][LifeNext]_allVars

\* The Go scheduler runs main and the signal goroutine; the calls are fair as
\* in DebugPod.
LifeFairSpec ==
    LifeSpec /\ Fairness /\ WF_allVars(MainStep) /\ WF_allVars(WaiterWakes)

-----------------------------------------------------------------------------

\* What docs/kernel.md says of the node tools: they run "via an ephemeral debug
\* pod".  The end of the process takes no debug pod's cleanup away: a pod that
\* is left in the cluster is one that its call could not have cleaned up.
ExitLeavesNoPod ==
    \A p \in Pods :
        (~alive /\ Kept(p)) =>
            outcome[owner[p]] = "createFailed" \/ logged[owner[p]]

\* On stdio the end of the process orphans no debug pod, whichever signals,
\* ends of input and failures bring it about: Run waits for the calls in
\* flight, and the calls for their cleanup.
StdioExitLeavesNoPod == transport = "stdio" => ExitLeavesNoPod

\* A signal ends the process: on stdio whenever it arrives, on http if the
\* server has begun to serve and the signal goroutine still waits (main.go,
\* "Start a goroutine to handle signals to shutdown the server").
SignalStopsServing ==
    ( /\ queued
      /\ \/ transport = "stdio"
         \/ waiter = "waiting" /\ main = "serving" ) ~> ~alive
=============================================================================
