# TLA+ models of ovn-kubernetes-mcp

A verification project for the MCP server `ovnk-mcp-server`: TLA+ modules
translated from the Go source, TLC configurations that check them on small
instances, and proofs, checked by TLAPS, of their main properties for every
value of the constants. `PROJECT.json` is the index: components, runs, the map
from definitions to source lines, hazards, mutants, findings and theorems.

## 1. The system

An MCP client (an LLM host) starts the server on stdio or connects to it over
http, lists its tools and calls them. Each call runs on a goroutine of its own.

| component | state | operations | interacts with |
|---|---|---|---|
| server process (`cmd/ovnk-mcp-server/main.go`) | signal channel, `server` variable, context | parse flags, register tools, serve, shut down | every call in flight ends with it |
| tool dispatch (`pkg/middleware`, `pkg/utils/timeout`) | disabled set, default timeout (constant after start) | filter and time-limit a request | go-sdk before and after it |
| debug pods (`pkg/kubernetes/client/nodes.go`, `pods.go`) | one pod in the cluster per invocation | create, poll, exec, delete | API server, kubelet; used by kernel and network tools |
| kernel tools (`pkg/kernel/mcp`) | none | probe, then command | two debug pods per call |
| network tools (`pkg/network-tools/mcp`) | none | tcpdump, pwru | one debug pod, or a command in a pod |
| ovn, ovs tools (`pkg/ovn`, `pkg/ovs`) | none | exec in a pod, filter output | API server |
| kubernetes tools (`pkg/kubernetes/mcp`) | REST mapper, filled by the first call and kept | pod-logs, get, list | API server |
| omc client (`pkg/must-gather/omc-client`) | a mutex; omc's current archive on disk | use, get, logs, ovnk | the `omc` binary; other processes of the user |
| OVN databases (`pkg/must-gather/ovsdb-tool`) | unpacked database store on disk | extract, list, query | file system, `ovsdb-tool`, omc client |
| sosreport tools (`pkg/sosreport/mcp`) | none; clients carry paths from one call to the next | list, search and read by the manifest | file system |
| output windows (`pkg/utils/headtail`, `pattern`) | none | strip, match, head, tail | all tools with output |

What is hard:

* **Concurrency.** Calls interleave with each other, with the cluster and with
  shutdown. omc's current archive and the database store are shared; only the
  first is locked, and only within one process.
* **Failure.** Answers of the API server get lost, pods stop or are evicted,
  Delete fails, an extraction or the process ends half-way.
* **Time.** The default deadline, the per-call timeout, the poll's minute, the
  cleanup's ten seconds and the mutex, which knows no deadline, meet in one call.
* **Staleness.** The REST mapper never learns of a kind that is installed later. A
  kind may change its scope, and a pod may be replaced by another of its name,
  between two requests of one call.
* **Order.** Go goes through the plugins of a sosreport in a different order each
  time, and a search stops at its limit.
* **Boundaries.** Durations overflow; head and tail may be zero, negative, larger
  than the log, or both set.

What makes each part correct: no privileged pod is left behind unnoticed and no
call touches another's pod; calls end; shutdown neither hangs nor orphans pods;
an answer comes from the archive that was named; listings are complete and
queries read whole files; a disabled tool never runs; a handler works under the
documented deadline; a window is the part of the output that was asked for; a
cluster read returns what the cluster holds for the request, or an error; a command
runs in the container that was asked for, and part of its output is never its
answer; what a search or listing gives out can be read, and is what it seems.

## 2. Modules

| module | models | composed with |
|---|---|---|
| `DebugPod` | one or more invocations of `DebugNode` against the cluster | — |
| `KernelTool` | the four kernel handlers | extends `DebugPod` (two invocations per call) |
| `ServerLifecycle` | `main`, signals, both transports | extends `DebugPod` (the calls being served) |
| `ArchiveReads` | abstract: what the must-gather tools promise | — |
| `OmcClient` | the omc client | instantiates `ArchiveReads` with a refinement mapping |
| `OvsdbExtract` | extraction, listing and query of databases | — |
| `ToolDispatch` | flags, registration, filter, timeouts | — |
| `LineWindow` | stripping, matching, head and tail over a growing log | — |
| `PodExec` | the ovn, ovs and network handlers, through `ExecPod` | extends `LineWindow` |
| `Sosreport` | the sosreport handlers | extends `LineWindow` |
| `TextTools` | all tools that answer with lines of a text | extends `PodExec` and `Sosreport` |
| `RequestPath` | a request up to its handler, and the handlers that answer with text | extends `ToolDispatch` and `TextTools` |
| `ClusterReads` | abstract: what resource-get and resource-list promise | — |
| `Resources` | the two through scope, REST mapper and read | instantiates `ClusterReads` with a refinement mapping |
| `DebugPodProofs`, `OmcClientProofs`, `OvsdbExtractProofs`, `ToolDispatchProofs`, `ResourcesProofs`, `TextToolsProofs` | theorems | extend the module they are about |
| `KernelToolProofs`, `ServerLifecycleProofs` | theorems | extend also `DebugPodProofs`, whose invariant they build on |
| `MC*` | TLC instances: model values and small sets | extend the module they instantiate |

Definitions named as mutants (`...NoCleanup`, `...Skipped`, ...) stand before the
definition they vary, each a plausible bug of that code. They are not part of any
specification; each property is broken by at least one of them.

### DebugPod

`pc[c]` is where invocation `c` is: `creating` (the Create request is out),
`polling`, `fetching` (ExecPod's Get), `executing`, `cleaning` (cleanupPod),
`returned`. `podName[c]` is `createdDebugPod.Name`, known only once the answer to
Create is in. `request[c]`, `phase`, `deleting` and `owner` are the cluster's side;
`owner` is a history variable. `expired[c]` is the call's context being done.
Faults are switched on by `Faults`. The API server may carry out a Create whose
caller has already given up, which is how an HTTP request behaves. Image, mounts,
command and output do not matter to any property and are left out. A poll that
sees a pod which is not running changes nothing, and the minute may be over at
any time.

The pod's termination grace period is the time between entering `deleting` and
`RemovePod`; the pod can still run commands in it, as in a cluster.

### KernelTool

A tool call `t` owns the invocations `<<t,"probe">>` and `<<t,"command">>` and one
deadline for both. Validation happens where the code does it, after the probe has
come back; which strings the validators accept is the input bit `valid`, and
`listing` is the case that `validateConntrackCommand` lets pass without the
utility, and the one in which a command takes `filter_parameters`. `filter` is
whether the client sent them, `filtered` the calls whose command line has them:
`getConntrackUsingCLI` adds them, `getConntrackFromFile` does not. `equipped` is
whether the image has the utility; without it the probe cannot end well, but with it
the probe can fail for every other reason as well, and get-conntrack goes on to the
file after any of them. `clean` is whether stderr is empty once warnings (and, for conntrack, the
summary) are taken out.

### ServerLifecycle

`transport` is chosen at the start and never changes. `main` goes `setup`, `started` (after `signal.Notify` and `go`), `assigned` (http:
`server` set), `serving`, `draining` (stdio: the session closes), `ended`. Signals
before `signal.Notify` kill the process, later ones go into a channel of one. The
go-sdk's `Server.Run`, when its context is done or stdin ends, closes the session,
which waits for the handlers in flight; their contexts are not derived from
main's. `http.Server.ListenAndServe` returns at once when `Shutdown` is called, and
main does not wait for `Shutdown` itself. The unsynchronised read of `server` is
covered by the interleaving: either value can be read around the assignment.

### OmcClient and ArchiveReads

A call waits, locks, uses, reads. `lock` is one mutex per process; `current` is omc's
own state on disk, shared by the processes. An `omc use` that fails may or may not
have changed it. `NoResources` are the archives whose output about the object contains
"no resources". The
abstract specification knows calls, the archive they name and the archive their
answer came from; `Busy`, the calls whose `pc` is not `idle`, is the mapping.

### OvsdbExtract

The tar file is a sequence of entries; `content` is what is in the directory, file
by file (`absent`, `partial`, `full`). Calls interleave between the system calls that
look at or change the directory. `truncator` says who opened a file last with
`O_TRUNC`: only that writer leaves it whole. `interrupted` and `alone` are history
variables: whether an extraction (or the removal before it) has ever stopped
half-way, and whether another call has extracted while a call was served. A store path
that is a plain file is removed first, as in the code. Name checks, the archive's validity and
permissions are the actions `CheckFails`, `ListFails` and `QueryFails`.

### ToolDispatch

The command line and every request are chosen freely from small sets. The table of
the filter (`toolsByCategory`) and the names registered by each package
(`KubernetesTools` ... `MustGatherTools`) are separate definitions, as they are
separate lists in the code. The order of the middlewares is the code's: the filter
is added last and is outermost. The SDK's part (`CallTool`) refuses unknown tools and
arguments outside the tool's schema, which allows no further properties.
`Wrap` is the conversion to a machine word.

### LineWindow

The operators `head`, `tail`, `Apply`, `StripEmptyLines`, `ExecuteWithMatch` are the
functions of the same names; `Keep` is the loop that they and the search of a
sosreport share. A line is a model string of which the model knows
whether it is blank and whether the pattern matches. The error of an empty `tail`,
`head` or pattern is as in the code: negative numbers mean "no limit".

### PodExec

A handler checks its parameters and calls `ExecPod`, which fetches the pod
(`fetching`), looks at its phase, chooses a container and then runs the command by
the pod's name (`executing`). `pod` is the pod of that name: its identity, phase and
containers; `PodChanges` lets it end, go and be replaced while a call is served.
`ran` is the command that has run, with its pod, container and limits, and
`whole` if it ended well and with nothing on stderr. Each handler and each
action of the ovs tools is an operator; they differ in whether a pattern is taken,
whether the answer is cut to a window, and what is done with stderr. The string
predicates of the validators are the input bit `valid`; the numeric limits of captures are
modelled. A capture on a node runs in a debug pod of its own, whose life is the
subject of `DebugPod`; here it ends well or not (`OnNode`).

### Sosreport

A path is a sequence of elements, the name of a log file a sequence of tokens, so
that `Clean`, `Join`, `validateRelativePath` and `parseContainerName` do what the code and
`path/filepath` do, on the parts that matter. `report` says what is at the
sosreport's path: `validateSosreportPath` and `loadManifest` accept different ones (a report
without `sos_commands` can be listed and not read, one with a broken manifest read and not
listed). `content` is what reading a file meets: an unreadable file, a line over a
megabyte, a name that ends in `.gz` on a file that is not compressed. `told` is what
the client has learned: the paths that listings and searches gave out, which it
then asks for.

### TextTools

The three families of text tools share the filter and the window, and no state, so
that a behaviour is one of calls to one `family`. Only a pod's log grows.
`TakesAnswer` and `TakesReply` end a call when the client has its answer, and with it
forget what only this call's properties need.

### RequestPath

The dispatch of a request and the handlers share no state: a handler sees its
parameters and a context. `part` says which of the two a behaviour is about, so that
one instance covers both, and neither multiplies the states of the other.

### Resources and ClusterReads

A call may use three views of the cluster that differ in age. Whether its kind has
namespaces comes live from the API server, and is asked only by a get without a
namespace (`isNamespaced`). The path comes from the REST mapper
(`known`), which the first call fills (`Discover`); the kinds of groups whose discovery
fails then are missing, and since the memory cache is fresh once it is filled, the
mapper is never reset. The object comes live again. `place` is the namespace the
read will use. `Install`, `Remove` and `Edit` change the cluster between any two requests; a
kind may come back with another scope. `steady` is a history variable: the call's own
requests have worked, and its kind has stayed as it was. The mapper is modelled by the
kinds it knows: a kind that is installed again keeps its plural and no other kind takes
that plural over, so the path of a known kind is always its own.

`ClusterReads` knows requests and the cluster: a call is answered, in one step, with an
error or with exactly what the cluster holds for its request. A get without a namespace
means the default one if the kind has namespaces. `Busy`, the calls whose `pc` is not
`idle`, is the mapping.

## 3. Runs

| run | shows | distinct states (about) |
|---|---|---|
| `debugpod` | all faults on: no silent leak, own pods only, no delete under a command; deadlined calls return, known pods disappear, also those of calls without a deadline unless `ExecPod` never ends | 105 thousand |
| `kernel_tool` | one pod at a time; the utility's answers are filtered as asked for, the file's are to listings; while Delete works, no known pod is left however late the context ends; calls end | 101 thousand |
| `omc_shared` | own archive, refinement of `ArchiveReads`, every call returns | 23 thousand |
| `ovsdb` | overlapping extractions end with a whole store, which is never changed again; undisturbed listings and queries see all of it | 117 thousand |
| `lifecycle` | stdio: a signal ends the process, after the calls have cleaned up; http: a signal that arrives while serving ends it | 474 thousand |
| `request_path` | disabled tools never run; listed iff callable; documented deadlines; windows, stability while the log grows, complete paging; commands as asked for, whole answers; searches, paths and logs of sosreports | 388 thousand |
| `resources` | refinement of `ClusterReads` while kinds come, go and change scope; kinds the mapper knows are found; every call returns | 206 thousand |

Runs that are expected to find a violation, each of one statement of the
repository's docs or comments (see "findings" in `PROJECT.json`):

| run | what the code does |
|---|---|
| `kernel_fallback` | get-conntrack reads the file, without the client's filter, although the image has the conntrack binary: any failed probe selects it |
| `omc_two_processes` | two servers of one user read each other's archive |
| `ovsdb_incomplete` | a listing during an extraction is incomplete |
| `lifecycle_http_exit` | on http, shutdown orphans the pods of calls in flight |
| `resources_new_kind` | a kind that the filled mapper does not know is not found until the server is restarted |

Further cases are excluded by a property's own condition, because the code does
something else there:

* `SignalStopsServing` says nothing of an http server whose signal arrives before the
  variable `server` is assigned: the goroutine cancels a context that the http branch
  does not use, and is gone.
* `ListCompleteAlone`, `QueryWhole`, `SettledComplete` and `PartialHeals` say nothing once an
  extraction was interrupted: the half-filled directory is taken for complete by
  every later call.
* `DeadlineAsPromised` says nothing of the default deadline if `--tool-timeout` does not fit
  an int64 of nanoseconds (`FlagFits`).
* `NoResources` in `OmcClient` includes archives in which the object itself contains the
  words "no resources": `GetResource` reports it as not found.
* `NoSilentLeak` accepts a pod whose creator was told that Create failed: when the answer
  to Create is lost the pod stays, since nobody knows its name.
* `AnswerFitsRequest` asks for the client's filter in the utility's answers only: the file
  is read without it. When the file is read at all is the subject of `kernel_fallback`.
* `RunsAsAsked` says nothing of the default container if another pod has taken the name
  between `ExecPod`'s two requests; the command then runs in that pod, in the container
  of the name chosen before. Of patterns it says that an invalid one stops the call
  before the command; that ovn-get takes no pattern when a single record is asked for
  is modelled and not stated.
* `SearchFindsEnough` says how many matches a search returns, not which: at its limit the
  subset depends on the order of a Go map, and `total` counts only that subset.
* `ToldPathsOpen` leaves out paths in which a name contains `..`: they are listed and then refused.
* `ReadsInTheReport` is about paths as they are written. The code cleans a path and does
  not resolve symbolic links, and `FilesAssumption` leaves them out.
* `FoundIfKnown` and the refinement of `ClusterReads` hold for kinds that keep their path. If
  a kind comes back under another plural, or another kind takes its plural over, the mapper,
  which is never reset, still gives the old path.

**Bounds.** Two calls and two pod names in `DebugPod` let every pair of steps of two
invocations interleave; more calls add no kind of interaction, since calls meet only
in the namespace, and the safety properties are proved for any number. One of the two
has a deadline, one has not. Two callers and three archives (one invalid) suffice for
`OmcClient`, where a call can be disturbed by one other; again the proof is general.
`OvsdbExtract` uses two callers, and an archive with a directory entry, two northbound
databases and, between them, a southbound one that has no node, so that a listing can
miss entries before and after the point another call has reached, and another kind's
file is there to be mixed up. Two signals cover a
full channel and a signal after the goroutine is gone. `ToolDispatch` uses a word of
eight bits with a second of four units: 31 seconds fit, 32 overflow, 64 wrap to
zero. `LineWindow` uses logs of up to five lines, with limits below, at and above
the default of two. `PodExec` uses pods of one and of two containers, replaced once,
and counts that are negative, zero, within, at and above the limit. `Sosreport` has
three plugins, one of them without commands, paths that go up and down inside and
out of the report, names with dashes, and result limits from below zero to above
the number of matches. `Resources` uses two calls, a kind that is installed or not, an object name
in two namespaces and at cluster scope, and up to three changes of the cluster, the fewest with which a kind is removed and installed again
with another scope, and gets an object, while a call is served.

**Deadlock** is checked in every run. Where a system may come to rest (all calls
have returned, the process has ended), the module says so with a stuttering action
of its own (`Finished`, `AllDone`, `AtRest`, `Stopped`). In `TextTools` and
`Resources` a client can always make another call.

**Fairness.** Weak fairness is assumed of steps that the Go runtime or a timer
guarantees: a goroutine that can go on does; the deadline of a call passes; a
request, command or exec stream whose context is done returns; the poll's minute and
the cleanup's ten seconds pass; the kubelet removes a pod that was deleted. Nothing is
assumed of the API server's answers, of commands ending, or of pods starting.
The reads of `Resources` end by the call's context, its discoveries by the 32
seconds of their client's timeout: weak fairness of a call's steps. `sync.Mutex` hands over to a goroutine that has waited for a millisecond (its
starvation mode), which is strong fairness of `Lock`. That calls have a deadline is
what `DeadlineAsPromised` shows for the default configuration; with `--tool-timeout 0` a
call without `timeout_seconds` has none, and then neither `DeadlinedCallsReturn` nor
`SignalStopsServing` (stdio) is claimed for it; `OpenEndedPodsDisappear` says what holds then: the
poll and the cleanup have limits of their own, so that its pod stays only while `ExecPod` does.

## 4. Proofs

Every safety property that a run checks is also a theorem: it holds for all values
of the constants that satisfy the assumptions of the module. Most assumptions only
say that the "no value" constants differ from the values, and that sets and numbers
are what they are meant to be. Those that say more are about data the server is given:

* `ManifestAssumption`: sos writes a command once per plugin, and the path of a command
  that had output is that of a file of the sosreport.
* `FilesAssumption`: files have one path each, without `.` and `..` (so there are no symbolic
  links in the sosreport); the sosreport is a directory.
* `LogsAssumption`: Kubernetes allows no `_` in the names of pods and namespaces, a
  container has a name, and what a log's name has after the id is no part of an id.
* `ExecAssumption`: a pod has at least one container.
* `TextsAssumption`: the outputs and files are no longer than the bound `MaxLog`, which is
  any number.

TLC evaluates all of them in the runs, so that they are met by the instances there.

**Debug pods** (`DebugPodProofs`): `TypeCorrect`, `LeaksAreVisible` (`NoSilentLeak`),
`PodsAreExclusive` (`OwnPodOnly`), `ExpiredCallsCleanUp` (`CleanupIgnoresExpiry`),
`CommandsKeepTheirPod` (`NoDeleteUnderCommand`). `NoSilentLeak` is not inductive: it
says nothing of a pod before its call is over. `IInv` adds the account of every pod
that nobody has deleted (`Accounted`: its call is waiting for it, holds it, or has
left a trace), the agreement of control state and known name (`HoldersKnow`), who can
own a pod (`OwnedIffCreated`, `OwnersCommitted`) and who waits for a request that may
still be carried out (`InflightAwaited`). A call that the end of the process cut short
has not returned, so that `NoSilentLeak` and `CleanupIgnoresExpiry` hold after that end as well.

**Kernel tools** (`KernelToolProofs`): `OnePodPerCall` (`OnePodAtATime`),
`AnswersFitRequests` (`AnswerFitsRequest`), and `ToolsKeepPodInvariants`: two invocations under
one context keep what single ones keep. `ToolIInv` takes `IInv` over and adds that the
command is invoked only when the probe is back (`ProbeFirst`), that what was checked
before the command still holds after it (`Decided`), that a probe which ended well has
found the utility (`ProbeTells`), that the filter is in the command line of the utility
exactly if it belongs there (`FilterWithCommand`), and that nothing gets past
`DebugNode` without a node (`NodeNeeded`). A probe's pod that is there when the command
has one is then accounted for by `Accounted`.

**Server process** (`ServerLifecycleProofs`): `StdioExitIsClean` (`StdioExitLeavesNoPod`) and
`ServedCallsKeepPodInvariants`. `LifeIInv` adds to `IInv` that no call is under way when
the process has ended on stdio (`StdioDrained`); for this, calls begin only when main
serves (`CallsNeedMain`), and `Shutdown` is called only on http (`TransportKept`).
`lifecycle_http_exit` shows that http differs.

**omc client** (`OmcClientProofs`): `TypeCorrect` for any number of processes; under
`OneProcess`, `AnswersFromOwnArchive` and `OneProcessImplementsReads`. The invariant: who is
between Lock and Unlock holds the mutex (`HolderInside`), and from use to read omc works on
the holder's archive (`CurrentIsHolders`). `omc_two_processes` shows that `OneProcess`
is needed.

**OVN databases** (`OvsdbExtractProofs`): `TypeCorrect`, `OverlapsEndWhole` (`SettledComplete`),
`UndisturbedListingsAreComplete` (`ListCompleteAlone`), `UndisturbedQueriesReadWhole` (`QueryWhole`)
and `WholeStoreIsFinal` (`StaysComplete`), for any archive and any number of overlapping
calls. The heart is `Healing`: as long as no extraction was interrupted, a file that is
not whole has a call that will still write it to its end (`WillWrite`: one that has
not come to its entry yet, or the one that truncated it last), unless the store has not
been unpacked at all. When nobody extracts any more, nobody is left to write, so all is whole.

**Tool dispatch** (`ToolDispatchProofs`): `TypeCorrect`; `HiddenToolsNeverRun`, from `HideInv`
(what the flags hide is in the filter's set, and a request past the filter names no tool of
that set) and from `TableAgrees` (the packages register the names of the table);
`ListedToolsAreTheCallable` (`ListedIffCallable`), from `ListInv`, which adds that listing and
registration are final and what an answer tells of its tool; and `PromisedDeadlinesHold`, from
`DeadlineInv`, which follows the deadline through the stages of a request, and from the
lemmas on machine words (`WrapFits`, `ToDurationIsCapped`, `FlagDuration`).

**Kubernetes resources** (`ResourcesProofs`): `KnownKindsAreFound` (`FoundIfKnown`) and
`ReadsImplementPromise`, the refinement of `ClusterReads`, step by step. The namespace of a
call was settled by an answer that may be old (`PlaceFits`); it is the one meant as long
as the kind stays as it was (`PlaceSteady`). If it did not, a read there
is an error, or returns just what the request means now (`StalePlaceIsHarmless`): this is
why the refinement needs no assumption on how the cluster changes.

**Tools that answer with lines** (`TextToolsProofs`). Filters, `filepath.Clean` and the search
are loops, modelled by recursive functions. What they compute is shown by induction on
the elements gone through; since the provers cannot instantiate an induction theorem
that takes a predicate, `SetInduction` states induction for a set of numbers (the rounds at
which a fact holds), and follows from the library's theorem that `<` is well-founded.

* `AnswersAreWindows` (`WindowOfLog`), `HeadWindowsStayPut` (`WindowStaysPut`), `PagesLoseNothing`
  (`PagesCover`), for texts and windows of any size. A window is known by the place at
  which it stands in the filtered text (`StandsAt`); head, tail and their two orders are
  composed of such places (`ApplyStands`). A line that is written changes the filtered
  text only at its end (`KeepAppend`, `ShownAppend`).
* `CommandsRunAsAsked` (`RunsAsAsked`), `AnswersAreWhole` (`AnswerIsWhole`). `ExecInv` adds what
  holds while a call is under way (`CallGood`) and where its container came from
  (`ContainerChosen`).
* `SearchesFindEnough` (`SearchFindsEnough`), for every manifest and every order of a Go map:
  going through the plugins in any order gives every command once (`EveryCommandOnce`),
  and filtering and cutting keep what is distinct distinct (`KeepSelects`, `HeadSelects`).
* `ReadsStayInTheReport` (`ReadsInTheReport`) and `ToldPathsCanBeRead` (`ToldPathsOpen`), for paths
  of any length. If cleaning a path leaves no `..`, its elements never lead above where it
  starts at any point in between (`NeverLeft`), so that cleaning it behind the sosreport's path
  gives the sosreport's path and the clean one (`CleanFollows`).
* `LogsAreTheContainers` (`LogsOfTheContainer`), for all names: the pod and the namespace end at
  the first two `_` (`UpToUnderscore`, `StemStarts`), the container at the last dash
  (`ParsesLastDash`), whatever dashes the names contain, and the suffix goes first (`StemOf`).
* `TypeCorrect` (`TextTypeOK`).

**Only model-checked**: the liveness properties (`DeadlinedCallsReturn`, `OpenEndedPodsDisappear`,
`KnownPodsDisappear`, `ToolCallsReturn`, `CallsReturn` of `OmcClient` and of `Resources`,
`PartialHeals`, `SignalStopsServing`), since fairness and ENABLED are beyond the prover. The
conditions that properties carry (section 3) are those of the theorems too.

## 5. Not modelled

The text of commands, outputs and errors; the validators' string predicates
(`pkg/utils`, `omc-client/utils.go`, the ovn, ovs and kernel validators), which appear as the choice between
accepting and rejecting: what they accept is a matter of regular expressions and character
classes, which unit tests reach better than a model. The parameter and result types are
modelled where a conversion can fail (`ValidateOutputParams`, `ConversionFails`) and
otherwise appear as inputs. The fake client, the version, the end-to-end tests, and the tool
catalogue with the README generator, which run at development time and keep no state, are
left out.

## 6. Plan

Still to come, in this order:

1. `MustGather`: omc client and extraction composed (a listing takes the mutex after
   it has read the directory), with the invariants of `OmcClientProofs` and
   `OvsdbExtractProofs` carried over.
2. Step lemmas towards the liveness properties that need no fairness: for a call that
   has begun to clean up or has lost its context, the measure that every one of its steps
   lowers.
3. Manifest names that contain `..` as a statement of their own: docs/sosreport.md promises
   that listed paths can be read, and the code refuses these.
