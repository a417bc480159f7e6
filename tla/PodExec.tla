------------------------------- MODULE PodExec -------------------------------
(***************************************************************************)
(* Tools that run a command in a pod: the handlers of pkg/ovn/mcp and      *)
(* pkg/ovs/mcp, and tcpdump in pkg/network-tools/mcp, through ExecPod      *)
(* (pkg/kubernetes/client/pods.go).                                        *)
(*                                                                         *)
(* ExecPod fetches the pod, looks at its phase, chooses a container and    *)
(* then runs the command by the pod's name.  Between the two requests the  *)
(* pod may end, or another of the same name may take its place.  Captures  *)
(* on a node run in a debug pod, which module DebugPod is about.           *)
(***************************************************************************)
EXTENDS LineWindow, SequencesExt

CONSTANTS PodSpecs,       \* the containers a pod of this name may have, in order
          NoContainer,    \* no container is asked for
          NotRun,         \* no command has run
          Counts,         \* values of packet_count, snaplen, output_limit_lines
          DefaultCount, MaxCount,
          MaxPods         \* bound on the pods of this name, one after the other

ASSUME ExecAssumption ==
    /\ PodSpecs # {}
    /\ \A s \in PodSpecs : s \in Seq(ToSet(s)) \ {<<>>} /\ NoContainer \notin ToSet(s)
    /\ Counts \subseteq Int
    /\ MaxCount \in Nat /\ DefaultCount \in 1 .. MaxCount
    /\ MaxPods \in Nat \ {0}

VARIABLES pod,     \* the pod of this name: its identity, phase and containers
          stage,   \* where the call is
          call,    \* what it is about to run
          ran,     \* the command it has run
          result   \* how it ended: an error, a text, a capture, or not yet

execVars == <<pod, stage, call, ran, result>>

Containers == {NoContainer} \cup UNION {ToSet(s) : s \in PodSpecs}

\* A text is cut to a window, a list only stripped; a capture is left as it is.
Kinds == {"text", "list", "capture"}

\* limits: the numbers passed to a capture.  container: the one asked for, and
\* once the pod has been fetched, the one to use.  seen: the pod fetched.
Calls == [kind : Kinds, wanted : Containers, container : Containers,
          limits : SUBSET Int, seen : 0 .. MaxPods]

\* A command that was run: in which pod, 0 for one of its own, and container, with
\* which limits, and whether it ended well and left stderr empty.
Commands == [uid : 0 .. MaxPods, container : Containers, limits : SUBSET Int,
             whole : BOOLEAN]

ASSUME NotRunAssumption == NotRun \notin Commands

ExecInit ==
    /\ \E s \in PodSpecs : pod = [uid |-> 1, phase |-> "Running", containers |-> s]
    /\ stage = "idle"
    /\ call = [kind |-> "text", wanted |-> NoContainer, container |-> NoContainer,
               limits |-> {}, seen |-> 0]
    /\ ran = NotRun
    /\ result = "none"

-----------------------------------------------------------------------------
(* The pod, while a call is served. *)

\* The pod ends, is deleted, and another of its name is created and starts.
PodChanges ==
    /\ stage # "idle"
    /\ \/ /\ pod.phase = "Running"
          /\ pod' = [pod EXCEPT !.phase = "Ended"]
       \/ /\ pod.phase # "Gone"
          /\ pod' = [pod EXCEPT !.phase = "Gone"]
       \/ /\ pod.phase = "Gone" /\ pod.uid < MaxPods
          /\ \E s \in PodSpecs :
               pod' = [uid |-> pod.uid + 1, phase |-> "Pending", containers |-> s]
       \/ /\ pod.phase = "Pending"
          /\ pod' = [pod EXCEPT !.phase = "Running"]
    /\ UNCHANGED <<log, asked, answer, enough, stage, call, ran, result>>

\* The client has had the answer.
TakesAnswer ==
    /\ result # "none"
    /\ result' = "none"
    /\ ran' = NotRun
    /\ call' = [kind |-> "text", wanted |-> NoContainer, container |-> NoContainer,
                limits |-> {}, seen |-> 0]
    /\ asked' = NoWindow /\ answer' = Error /\ enough' = FALSE
    /\ UNCHANGED <<log, pod, stage>>

-----------------------------------------------------------------------------
(* The handlers, up to ExecPod. *)

\* Parameters of a tool that takes no pattern.
NoPattern == {h \in Windows : h.pattern = "none"}

\* What ExecuteWithMatch asks of the pattern before it runs the command: none
\* where matching is not supported, otherwise one that compiles.
Usable(h, checkMatch) ==
    IF checkMatch THEN h.pattern # "invalid" ELSE h.pattern = "none"

\* A call with parameters h: it goes on to ExecPod if they are good, and
\* otherwise returns an error without any request.
Begin(kind, h, container, limits, good) ==
    /\ asked' = h
    /\ answer' = Error
    /\ enough' = FALSE
    /\ ran' = NotRun
    /\ call' = [kind |-> kind, wanted |-> container, container |-> container,
                limits |-> limits, seen |-> 0]
    /\ stage' = IF good THEN "fetching" ELSE "idle"
    /\ result' = IF good THEN "none" ELSE "error"
    /\ UNCHANGED <<log, pod>>

\* A text, of which the client's pattern and window choose the lines.
Text(checkMatch, good) ==
    \E h \in Windows : Begin("text", h, NoContainer, {}, good /\ Usable(h, checkMatch))

\* In what follows valid says that the other parameters pass the handler's
\* validators.

\* ovn-show.
Show(valid) ==
    \E h \in NoPattern : Begin("text", h, NoContainer, {}, valid)

\* ovn-get: of a single record no pattern is taken.
Get(valid) == \E record \in BOOLEAN : Text(~record, valid)

\* ovn-lflow-list.
ListLogicalFlows(valid) == Text(TRUE, valid)

\* ovn-trace.
Trace(valid) == Text(TRUE, valid)

\* ovs-vsctl show, which takes no pattern.
show == \E h \in NoPattern : Begin("text", h, NoContainer, {}, TRUE)

\* ovs-vsctl list-br.
listBridges == Begin("list", NoWindow, NoContainer, {}, TRUE)

\* ovs-vsctl list-ports, if the name of the bridge is valid.
listPorts(valid) == Begin("list", NoWindow, NoContainer, {}, valid)

\* ovs-vsctl list-ifaces.
listInterfaces(valid) == Begin("list", NoWindow, NoContainer, {}, valid)

\* ovs-ofctl dump-flows.
dumpFlows(valid) == Text(TRUE, valid)

\* ovs-appctl dpctl/dump-conntrack.
dumpConntrack(valid) == Text(TRUE, valid)

\* ovs-appctl ofproto/trace.
dumpOfprotoTrace(valid) == Text(TRUE, valid)

\* The action is none that the tool knows.
NoSuchAction == Begin("text", NoWindow, NoContainer, {}, FALSE)

Vsctl(valid) ==
    \/ show \/ listBridges \/ listPorts(valid) \/ listInterfaces(valid)
    \/ NoSuchAction

Ofctl(valid) == dumpFlows(valid) \/ NoSuchAction

Appctl(valid) == dumpConntrack(valid) \/ dumpOfprotoTrace(valid) \/ NoSuchAction

OrDefault(n) == IF n = 0 THEN DefaultCount ELSE n

validateIntMax(n) == 0 <= n /\ n <= MaxCount

\* A capture on a node: the command runs in a debug pod of its own, to its end
\* or not (done).
OnNode(limits, good, done) ==
    /\ asked' = NoWindow
    /\ answer' = Error
    /\ enough' = FALSE
    /\ ran' = IF good THEN [uid |-> 0, container |-> NoContainer,
                            limits |-> limits, whole |-> done]
                      ELSE NotRun
    /\ result' = IF good /\ done THEN "capture" ELSE "error"
    /\ UNCHANGED <<log, pod, stage, call>>

\* tcpdump on a node, or in a pod, in the container asked for or the first.
Tcpdump(valid) ==
    \E count, snaplen \in Counts :
        LET limits == {OrDefault(count), OrDefault(snaplen)}
            good   == valid /\ \A n \in limits : validateIntMax(n)
        IN  \/ \E done \in BOOLEAN : OnNode(limits, good, done)
            \/ \E container \in Containers :
                 Begin("capture", NoWindow, container, limits, good)

\* pwru, on a node.
Pwru(valid) ==
    \E lines \in Counts, done \in BOOLEAN :
        LET limit == OrDefault(lines)
        IN  OnNode({limit}, valid /\ validateIntMax(limit), done)

-----------------------------------------------------------------------------
(* ExecPod, and what the handlers make of its output. *)

\* The call returns without an answer.
ReturnsError ==
    /\ stage' = "idle"
    /\ result' = "error"
    /\ UNCHANGED <<log, asked, answer, enough, pod, call>>

\* Mutant of FetchPod: the last container is the default.
FetchPodLast ==
    /\ stage = "fetching"
    /\ pod.phase = "Running"
    /\ stage' = "executing"
    /\ call' = [call EXCEPT !.seen = pod.uid,
                            !.container = IF @ = NoContainer
                                            THEN pod.containers[Len(pod.containers)]
                                            ELSE @]
    /\ UNCHANGED <<log, asked, answer, enough, pod, ran, result>>

\* The pod is there and running.  If no container is asked for, its first one is
\* used.
FetchPod ==
    /\ stage = "fetching"
    /\ pod.phase = "Running"
    /\ stage' = "executing"
    /\ call' = [call EXCEPT !.seen = pod.uid,
                            !.container = IF @ = NoContainer THEN pod.containers[1]
                                                             ELSE @]
    /\ UNCHANGED <<log, asked, answer, enough, pod, ran, result>>

\* The pod is not there, not running, or cannot be fetched.
FetchPodFails ==
    /\ stage = "fetching"
    /\ UNCHANGED ran
    /\ ReturnsError

\* The command runs in the pod that has the name now, in the container of the
\* name chosen before.
Runs(whole) ==
    /\ stage = "executing"
    /\ pod.phase = "Running"
    /\ call.container \in ToSet(pod.containers)
    /\ ran' = [uid |-> pod.uid, container |-> call.container,
               limits |-> call.limits, whole |-> whole]

\* The lines a handler answers with: a text is filtered and cut to its window.
Output ==
    IF call.kind = "text" THEN Logs(asked, log) ELSE StripEmptyLines(log)

\* Mutant of ExecOK: what is on stderr is dropped.
ExecOKNoStderr(stderr) ==
    /\ Runs(~stderr)
    /\ stage' = "idle"
    /\ result' = call.kind
    /\ answer' = IF call.kind = "capture" THEN Error ELSE Output
    /\ UNCHANGED <<log, asked, enough, pod, call>>

\* The command ends well.  Captures return stdout and stderr as they are; for
\* the other tools anything on stderr is an error.
ExecOK(stderr) ==
    /\ Runs(~stderr)
    /\ IF stderr /\ call.kind # "capture"
         THEN ReturnsError
         ELSE /\ stage' = "idle"
              /\ result' = call.kind
              /\ answer' = IF call.kind = "capture" THEN Error ELSE Output
              /\ UNCHANGED <<log, asked, enough, pod, call>>

\* There is no such container, the command fails, the stream breaks, or the
\* context is done, before the command has run, or when some of its output is
\* there already.
ExecFails ==
    /\ stage = "executing"
    /\ Runs(FALSE) \/ UNCHANGED ran
    /\ ReturnsError

ExecStep ==
    \/ FetchPod \/ FetchPodFails \/ ExecFails
    \/ \E stderr \in BOOLEAN : ExecOK(stderr)

ExecCall ==
    /\ stage = "idle" /\ result = "none"
    /\ \E valid \in BOOLEAN :
         \/ Show(valid) \/ Get(valid) \/ ListLogicalFlows(valid) \/ Trace(valid)
         \/ Vsctl(valid) \/ Ofctl(valid) \/ Appctl(valid)
         \/ Tcpdump(valid) \/ Pwru(valid)

ExecNext == ExecCall \/ ExecStep \/ PodChanges \/ TakesAnswer

-----------------------------------------------------------------------------
(* Properties. *)

\* Type invariant of the pod and of the call.
ExecTypeOK ==
    /\ pod \in [uid : 1 .. MaxPods, phase : {"Pending", "Running", "Ended", "Gone"},
               containers : PodSpecs]
    /\ stage \in {"idle", "fetching", "executing"}
    /\ call \in Calls
    /\ stage = "executing" => call.container # NoContainer /\ call.seen > 0
    /\ ran \in Commands \cup {NotRun}
    /\ result \in {"none", "error"} \cup Kinds

\* What runs is what the client asked for.  A command runs in the container that
\* was named; if none was, in the first container of the pod, unless another pod
\* has taken the name between ExecPod's two requests.  It never runs for a call
\* whose pattern is going to be refused.  A capture ends by itself: packets,
\* bytes and lines are limited by at least one and at most the tool's maximum,
\* whatever numbers are given (zero means the default, never "no limit").
RunsAsAsked ==
    ran # NotRun =>
        /\ asked.pattern # "invalid"
        /\ \A n \in ran.limits : n \in 1 .. MaxCount
        /\ (ran.uid = pod.uid /\ call.wanted # NoContainer) =>
             ran.container = call.wanted
        /\ (ran.uid = pod.uid /\ call.wanted = NoContainer /\ call.seen = pod.uid) =>
             ran.container = pod.containers[1]

\* An answer is the output of a command that ended well and complained of
\* nothing: when a stream breaks, a container stops or a tool prints to stderr,
\* what has been read so far is never passed off as the answer.
AnswerIsWhole ==
    result \in {"text", "list"} => ran # NotRun /\ ran.whole
=============================================================================
