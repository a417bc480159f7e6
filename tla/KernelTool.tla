----------------------------- MODULE KernelTool -----------------------------
(***************************************************************************)
(* The kernel tools (pkg/kernel/mcp): get-conntrack, get-iptables, get-nft *)
(* and get-ip.  A tool call runs DebugNode twice, one invocation after the *)
(* other and under one context: a probe ("<utility> -V", utilityExists)    *)
(* and then the command itself (executeCommand).  The invocations are those*)
(* of DebugPod; the call t owns <<t, "probe">> and <<t, "command">>.       *)
(*                                                                         *)
(* Three of the tools give up when the probe fails, for whatever reason;   *)
(* get-conntrack then reads /proc/net/nf_conntrack instead of running the  *)
(* conntrack command, and leaves the client's filter out.                  *)
(***************************************************************************)
EXTENDS DebugPod

CONSTANT Tools       \* tool calls

ASSUME KernelAssumption == Calls = Tools \X {"probe", "command"}

VARIABLES stage,     \* where each tool call is
          input,     \* what its client asked for, and of which image
          mode,      \* what the command is: the utility or cat of the file
          filtered,  \* the calls whose command has the client's filter
          result     \* what the tool call returned

toolVars == <<stage, input, mode, filtered, result>>
toolAll  == <<vars, toolVars>>

Probe(t)   == <<t, "probe">>
Command(t) == <<t, "command">>

\* conntrack: the tool is get-conntrack; node: the node name is not empty;
\* valid: the other parameters pass the handler's validation; listing: the
\* command takes a filter (get-conntrack: it is empty, -L or --dump;
\* get-iptables: it is not -S); filter: filter_parameters is not empty;
\* equipped: the image that the server is configured with has the utility.
Inputs == [conntrack : BOOLEAN, node : BOOLEAN, valid : BOOLEAN,
           listing : BOOLEAN, filter : BOOLEAN, equipped : BOOLEAN]

ToolInit ==
    /\ Init
    /\ stage = [t \in Tools |-> "idle"]
    /\ input \in [Tools -> Inputs]
    /\ mode = [t \in Tools |-> "none"]
    /\ filtered = {}
    /\ result = [t \in Tools |-> "none"]

-----------------------------------------------------------------------------

\* runDebugNodeCommand: DebugNode refuses an empty node name; the handlers pass
\* no host path and no mount path.
runDebugNodeCommand(t, c) == IF input[t].node THEN Invoke(c) ELSE Reject(c)

\* The command line has the client's filter: getConntrackUsingCLI adds it to a
\* listing, getConntrackFromFile to nothing; get-iptables and get-ip likewise.
Filters(t, m) == m = "utility" /\ input[t].filter /\ input[t].listing

\* executeCommand: the command runs in a second debug pod.
RunCommand(t, m) ==
    /\ runDebugNodeCommand(t, Command(t))
    /\ stage' = [stage EXCEPT ![t] = "running"]
    /\ mode' = [mode EXCEPT ![t] = m]
    /\ filtered' = IF Filters(t, m) THEN filtered \cup {t} ELSE filtered
    /\ UNCHANGED <<input, result>>

\* The handler returns.
ToolReturns(t, res) ==
    /\ stage' = [stage EXCEPT ![t] = "done"]
    /\ result' = [result EXCEPT ![t] = res]
    /\ UNCHANGED <<vars, input, mode, filtered>>

\* The handler is called and probes for the utility.
StartProbe(t) ==
    /\ stage[t] = "idle"
    /\ runDebugNodeCommand(t, Probe(t))
    /\ stage' = [stage EXCEPT ![t] = "probing"]
    /\ UNCHANGED <<input, mode, filtered, result>>

\* The probe is back, clean says whether its stderr is empty once warnings are
\* left out.
Available(t, clean) == outcome[Probe(t)] = "ok" /\ clean

\* Mutant of Accepted: the file is read for any conntrack command.
AcceptedWithout(t, clean) ==
    /\ input[t].valid
    /\ ~input[t].conntrack => Available(t, clean)

\* validateConntrackCommand and the other validators, which run after the
\* probe: without the utility get-conntrack can only list.
Accepted(t, clean) ==
    /\ input[t].valid
    /\ input[t].conntrack => Available(t, clean) \/ input[t].listing
    /\ ~input[t].conntrack => Available(t, clean)

\* Mutant of ProbeReturns: the command starts while the probe's pod is cleaned.
ProbeReturnsEarly(t, clean) ==
    /\ alive
    /\ stage[t] = "probing"
    /\ pc[Probe(t)] \in {"cleaning", "returned"}
    /\ IF Accepted(t, clean)
         THEN RunCommand(t, IF Available(t, clean) THEN "utility" ELSE "file")
         ELSE ToolReturns(t, "error")

\* The probe returns: the handler fails, or runs the command.
ProbeReturns(t, clean) ==
    /\ alive
    /\ stage[t] = "probing"
    /\ pc[Probe(t)] = "returned"
    /\ IF Accepted(t, clean)
         THEN RunCommand(t, IF Available(t, clean) THEN "utility" ELSE "file")
         ELSE ToolReturns(t, "error")

\* The command returns: an error, or an error on its stderr, is the tool's
\* error; otherwise its output is the answer.
CommandReturns(t, clean) ==
    /\ alive
    /\ stage[t] = "running"
    /\ pc[Command(t)] = "returned"
    /\ ToolReturns(t, IF outcome[Command(t)] = "ok" /\ clean THEN mode[t]
                                                           ELSE "error")

\* Mutant of ToolExpires: the per-call timeout is set on the probe only.
ToolExpiresProbe(t) ==
    /\ alive
    /\ stage[t] \in {"probing", "running"}
    /\ ~expired[Command(t)]
    /\ expired' = [expired EXCEPT ![Probe(t)] = TRUE]
    /\ UNCHANGED <<pc, podName, outcome, logged, request, podVars, alive>>
    /\ UNCHANGED toolVars

\* A step of one of the call's two invocations of DebugNode.  Without the
\* utility in the image no command that needs it ends well.
PodStep(t) ==
    /\ \E c \in {Probe(t), Command(t)} :
         /\ pc[c] # "idle"
         /\ CallStep(c)
         /\ (pc[c] = "executing" /\ outcome'[c] = "ok")
              => input[t].equipped \/ (c = Command(t) /\ mode[t] = "file")
    /\ UNCHANGED toolVars

\* The tool call's context is done, for both of its invocations.
ToolExpires(t) ==
    /\ alive
    /\ stage[t] \in {"probing", "running"}
    /\ ~expired[Command(t)]
    /\ expired' = [expired EXCEPT ![Probe(t)] = TRUE, ![Command(t)] = TRUE]
    /\ UNCHANGED <<pc, podName, outcome, logged, request, podVars, alive>>
    /\ UNCHANGED toolVars

ToolStep(t) ==
    \/ StartProbe(t)
    \/ \E clean \in BOOLEAN : ProbeReturns(t, clean) \/ CommandReturns(t, clean)
    \/ PodStep(t)

AllDone ==
    /\ ~alive \/ \A t \in Tools : stage[t] = "done"
    /\ UNCHANGED toolAll

ToolNext ==
    \/ \E t \in Tools : ToolStep(t) \/ ToolExpires(t)
    \/ (ClusterStep \/ Exit) /\ UNCHANGED toolVars
    \/ AllDone

ToolSpec == ToolInit /\ [][ToolNext]_toolAll

\* The deadline of a tool call passes, an invocation whose context is done
\* takes its error path, and the poll and the cleanup are bounded by
\* themselves, as in DebugPod; the handler's goroutine runs on.
ToolFairSpec ==
    /\ ToolSpec
    /\ \A t \in Tools :
         /\ WF_toolAll(ToolExpires(t))
         /\ WF_toolAll(expired[Command(t)] /\ PodStep(t))
         /\ WF_toolAll(\E clean \in BOOLEAN :
                         ProbeReturns(t, clean) \/ CommandReturns(t, clean))

-----------------------------------------------------------------------------

\* A tool call has one debug pod at a time: when the command's pod exists, the
\* probe's pod has been deleted, or its leak is visible in the log or in the
\* probe's error (DebugNode cleans up before it returns).
OnePodAtATime ==
    \A t \in Tools : \A p, q \in Pods :
        (Kept(p) /\ Kept(q) /\ owner[p] = Probe(t) /\ owner[q] = Command(t))
            => logged[Probe(t)] \/ outcome[Probe(t)] = "createFailed"

\* A tool call that has a deadline ends, through both of its invocations.
ToolCallsReturn ==
    \A t \in Tools : stage[t] = "probing" ~> (stage[t] = "done" \/ ~alive)

\* An answer is one to its own request.  The utility answers only if the image
\* has it and the probe found it, and then with the client's filter exactly if
\* the command takes one; the file, which knows neither another command than a
\* listing nor another tool, answers get-conntrack's listings only; and either
\* only a request that was validated, from a command that ended well, not from
\* the probe or from a pod that is gone.  Whether the image has the utility when
\* the file answers is the subject of FileOnlyIfMissing.
AnswerFitsRequest ==
    \A t \in Tools : result[t] \in {"utility", "file"} =>
        /\ input[t].valid /\ input[t].node /\ outcome[Command(t)] = "ok"
        /\ result[t] = "utility" =>
             /\ input[t].equipped /\ outcome[Probe(t)] = "ok"
             /\ t \in filtered <=> input[t].filter /\ input[t].listing
        /\ result[t] = "file" => input[t].conntrack /\ input[t].listing

\* What docs/kernel.md says of get-conntrack: "The tool prefers the `conntrack`
\* CLI in the configured `--kernel-image`.  If that binary is missing, it falls
\* back to reading `/proc/net/nf_conntrack`".  With the binary in the image no
\* listing comes from the file, where the client's filter is lost.
FileOnlyIfMissing ==
    \A t \in Tools : result[t] = "file" => ~input[t].equipped
=============================================================================
