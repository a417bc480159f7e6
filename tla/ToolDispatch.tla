---------------------------- MODULE ToolDispatch ----------------------------
(***************************************************************************)
(* What stands between a client's request and a tool's handler: the flags  *)
(* of the server (parseFlags), the tools each mode registers (main,        *)
(* AddTools), the filter that hides tools (pkg/middleware/toolfilter), the *)
(* default deadline (pkg/middleware/timeout) and the per-call timeout      *)
(* (pkg/utils/timeout).                                                    *)
(*                                                                         *)
(* A request passes filter, timeout middleware, SDK and handler, in this   *)
(* order; its answer passes the filter again.  The middlewares keep no     *)
(* state between requests, so one request at a time is enough.             *)
(*                                                                         *)
(* Durations are integers of a machine word, Second of which are a second. *)
(***************************************************************************)
EXTENDS Integers

CONSTANTS Modes,           \* values of --mode
          FlagCategories,  \* names the operator may pass to --disable-categories
          FlagTools,       \* names the operator may pass to --disable-tools
          FlagSeconds,     \* values of --tool-timeout
          CallNames,       \* tool names a client may call
          CallSeconds,     \* values of timeout_seconds, a uint32
          Second,          \* time.Second
          IntMax,          \* the largest int64
          MaxSeconds,      \* MaxTimeout, in seconds
          DefaultSeconds   \* the default of --tool-timeout, 120

\* A uint32 of seconds, as a duration, fits the word.
ASSUME DispatchAssumption ==
    /\ Second \in Nat \ {0}
    /\ IntMax \in Nat
    /\ MaxSeconds \in Nat \ {0}
    /\ DefaultSeconds \in Nat \ {0}
    /\ FlagSeconds \subseteq Int
    /\ \A s \in CallSeconds : s \in Nat /\ s * Second <= IntMax
    /\ MaxSeconds * Second <= IntMax
    /\ DefaultSeconds * Second <= IntMax

VARIABLES process,      \* "flags", "setup", "serving" or "fatal"
          flags,        \* the command line
          disabled,     \* cfg.DisabledTools
          toolTimeout,  \* cfg.ToolTimeout
          registered,   \* tools registered with the SDK
          req,          \* the request being handled
          at,           \* where it is
          deadline,     \* time its context leaves it; NoDeadline for none
          verdict,      \* how it was answered
          listed        \* the tools of the last answer to tools/list

startVars    == <<process, flags, disabled, toolTimeout, registered>>
callVars     == <<req, at, deadline, verdict, listed>>
dispatchVars == <<startVars, callVars>>

NoDeadline == 0
NotListed  == {"not listed yet"}
Malformed  == -1   \* a timeout_seconds that is no uint32

-----------------------------------------------------------------------------
(* Tools *)

Categories == {"kubernetes", "ovn", "ovs", "kernel", "network-tools",
               "sosreport", "must-gather"}

\* The filter's own table of the tools of each category.
toolsByCategory ==
    [c \in Categories |->
       CASE c = "kubernetes"    -> {"pod-logs", "resource-get", "resource-list"}
         [] c = "ovn"           -> {"ovn-show", "ovn-get", "ovn-lflow-list",
                                    "ovn-trace"}
         [] c = "ovs"           -> {"ovs-vsctl", "ovs-ofctl", "ovs-appctl"}
         [] c = "kernel"        -> {"get-conntrack", "get-iptables", "get-nft",
                                    "get-ip"}
         [] c = "network-tools" -> {"tcpdump", "pwru"}
         [] c = "sosreport"     -> {"sos-list-plugins", "sos-list-commands",
                                    "sos-search-commands", "sos-get-command",
                                    "sos-get-pod-logs"}
         [] c = "must-gather"   -> {"must-gather-get-resource",
                                    "must-gather-list-resources",
                                    "must-gather-pod-logs",
                                    "must-gather-ovnk-info",
                                    "must-gather-list-northbound-databases",
                                    "must-gather-list-southbound-databases",
                                    "must-gather-query-database"}]

\* The names under which the AddTools of each package registers its tools.
KubernetesTools == {"pod-logs", "resource-get", "resource-list"}
OvnTools        == {"ovn-show", "ovn-get", "ovn-lflow-list", "ovn-trace"}
OvsTools        == {"ovs-vsctl", "ovs-ofctl", "ovs-appctl"}
KernelTools     == {"get-conntrack", "get-iptables", "get-nft", "get-ip"}
NetworkTools    == {"tcpdump", "pwru"}
SosreportTools  == {"sos-list-plugins", "sos-list-commands",
                    "sos-search-commands", "sos-get-command",
                    "sos-get-pod-logs"}

\* must-gather has its database tools only with the ovsdb-tool binary.
MustGatherTools(ovsdb) ==
    {"must-gather-get-resource", "must-gather-list-resources",
     "must-gather-pod-logs", "must-gather-ovnk-info"}
        \cup (IF ovsdb THEN {"must-gather-list-northbound-databases",
                             "must-gather-list-southbound-databases",
                             "must-gather-query-database"}
                       ELSE {})

\* Mutant of AddTools: a tool is renamed where it is registered only.
AddToolsRenamed(c, ovsdb) ==
    IF c = "kubernetes" THEN {"pods-log", "resource-get", "resource-list"}
                        ELSE toolsByCategory[c]

\* The tools a category's package registers.
AddTools(c, ovsdb) ==
    CASE c = "kubernetes"    -> KubernetesTools
      [] c = "ovn"           -> OvnTools
      [] c = "ovs"           -> OvsTools
      [] c = "kernel"        -> KernelTools
      [] c = "network-tools" -> NetworkTools
      [] c = "sosreport"     -> SosreportTools
      [] c = "must-gather"   -> MustGatherTools(ovsdb)

LiveCategories == {"kubernetes", "ovn", "ovs", "kernel", "network-tools"}

allKnownTools == UNION {toolsByCategory[c] : c \in Categories}

\* Tools whose parameters embed TimeoutParams.
TimeoutTools == KernelTools \cup NetworkTools

-----------------------------------------------------------------------------
(* Durations *)

\* The int64 that the integer x becomes.
Wrap(x) == ((x + IntMax + 1) % (2 * (IntMax + 1))) - (IntMax + 1)

\* TimeoutParams.ToDuration.
ToDuration(seconds) ==
    LET duration == Wrap(seconds * Second)
        MaxTimeout == MaxSeconds * Second
    IN  IF duration < MaxTimeout THEN duration ELSE MaxTimeout

\* getTimeoutParams: a timeout_seconds that is no uint32 counts as none.
getTimeoutParams(seconds) ==
    IF seconds = Malformed THEN 0 ELSE ToDuration(seconds)

\* context.WithTimeout: the earlier of two deadlines.
WithTimeout(d, timeout) ==
    IF d = NoDeadline \/ timeout < d THEN timeout ELSE d

-----------------------------------------------------------------------------
(* Start *)

Flags == [mode : Modes, categories : SUBSET FlagCategories,
          tools : SUBSET FlagTools, seconds : FlagSeconds]

Requests ==
    [method : {"tools/call"}, name : CallNames,
     seconds : CallSeconds \cup {Malformed}]
        \cup [method : {"tools/list"}]

DispatchInit ==
    /\ process = "flags"
    /\ flags \in Flags
    /\ disabled = {}
    /\ toolTimeout = 0
    /\ registered = {}
    /\ req = [method |-> "none"]
    /\ at = "idle"
    /\ deadline = NoDeadline
    /\ verdict = "none"
    /\ listed = NotListed

\* The seconds parseFlags uses: a negative value means the default.
FlagTimeout == IF flags.seconds < 0 THEN DefaultSeconds ELSE flags.seconds

\* The set ResolveDisabled builds: the tools of the categories, and the tools.
DisabledBy(categories, tools) ==
    (UNION {toolsByCategory[c] : c \in categories}) \cup tools

\* Every name is known; the categories are expanded into tools.
ResolveDisabled ==
    /\ flags.categories \subseteq Categories
    /\ flags.tools \subseteq allKnownTools
    /\ disabled' = DisabledBy(flags.categories, flags.tools)

\* The flags are accepted.
ParseFlags ==
    /\ process = "flags"
    /\ ResolveDisabled
    /\ toolTimeout' = Wrap(FlagTimeout * Second)
    /\ process' = "setup"
    /\ UNCHANGED <<flags, registered, callVars>>

\* An unknown category or tool name.
ParseFlagsFatal ==
    /\ process = "flags"
    /\ ~(flags.categories \subseteq Categories /\ flags.tools \subseteq allKnownTools)
    /\ process' = "fatal"
    /\ UNCHANGED <<flags, disabled, toolTimeout, registered, callVars>>

\* The tools a mode registers when the clients of the cluster can be made; omc
\* says whether the omc binary is there.
Registered(mode, omc, ovsdb) ==
    LET live    == IF mode \in {"live-cluster", "dual"} THEN LiveCategories ELSE {}
        offline == IF mode \in {"offline", "dual"}
                     THEN {"sosreport"} \cup (IF omc THEN {"must-gather"} ELSE {})
                     ELSE {}
    IN  UNION {AddTools(c, ovsdb) : c \in live \cup offline}

\* Setup in a valid mode.
Setup ==
    /\ process = "setup"
    /\ flags.mode \in {"live-cluster", "offline", "dual"}
    /\ \E omc, ovsdb \in BOOLEAN :
         registered' = Registered(flags.mode, omc, ovsdb)
    /\ process' = "serving"
    /\ UNCHANGED <<flags, disabled, toolTimeout, callVars>>

\* Setup fails: the mode is wrong, or the clients of the cluster cannot be
\* made.  Nothing is served.
SetupFatal ==
    /\ process = "setup"
    /\ flags.mode # "offline"
    /\ process' = "fatal"
    /\ UNCHANGED <<flags, disabled, toolTimeout, registered, callVars>>

-----------------------------------------------------------------------------
(* One request *)

\* A request arrives.
Receive ==
    /\ process = "serving"
    /\ at \in {"idle", "answered"}
    /\ req' \in Requests
    /\ at' = "filter"
    /\ deadline' = NoDeadline
    /\ verdict' = "none"
    /\ UNCHANGED <<startVars, listed>>

\* The request is answered without the next handler.
AnswerNow(a) ==
    /\ verdict' = a
    /\ at' = "answered"
    /\ UNCHANGED <<startVars, req, deadline, listed>>

\* The request is passed on.
PassTo(next) ==
    /\ at' = next
    /\ UNCHANGED <<startVars, req, verdict, listed>>

\* Mutant of FilterRequest: only the listing is filtered.
FilterRequestListOnly ==
    /\ at = "filter"
    /\ PassTo("timeout") /\ UNCHANGED deadline

\* ToolFilter, on the way in: a call of a disabled tool is refused.
FilterRequest ==
    /\ at = "filter"
    /\ IF req.method = "tools/call" /\ req.name \in disabled
         THEN AnswerNow("disabled")
         ELSE PassTo("timeout") /\ UNCHANGED deadline

\* ToolTimeout, installed if cfg.ToolTimeout is positive: a call that brings no
\* timeout of its own gets the default.
ToolTimeout ==
    /\ at = "timeout"
    /\ PassTo("sdk")
    /\ deadline' = IF /\ toolTimeout > 0
                      /\ req.method = "tools/call"
                      /\ getTimeoutParams(req.seconds) = 0
                     THEN WithTimeout(deadline, toolTimeout)
                     ELSE deadline

\* Mutant of CallTool: arguments a tool does not have are ignored.
CallToolAnyArguments ==
    /\ at = "sdk"
    /\ req.method = "tools/call"
    /\ IF req.name \notin registered
         THEN AnswerNow("unknown tool")
         ELSE IF req.seconds = Malformed
                THEN AnswerNow("bad arguments")
                ELSE PassTo("handler") /\ UNCHANGED deadline

\* The SDK's tools/call: the tool must be registered, and the arguments fit
\* its schema, which has no properties but those of the parameter type.
CallTool ==
    /\ at = "sdk"
    /\ req.method = "tools/call"
    /\ IF req.name \notin registered
         THEN AnswerNow("unknown tool")
         ELSE IF req.seconds = Malformed
                   \/ (req.seconds # 0 /\ req.name \notin TimeoutTools)
                THEN AnswerNow("bad arguments")
                ELSE PassTo("handler") /\ UNCHANGED deadline

\* Mutant of ListTools: the answer is not filtered.
ListToolsAll ==
    /\ at = "sdk"
    /\ req.method = "tools/list"
    /\ listed' = registered
    /\ verdict' = "listed"
    /\ at' = "answered"
    /\ UNCHANGED <<startVars, req, deadline>>

\* The SDK's tools/list, and ToolFilter on the way back.
ListTools ==
    /\ at = "sdk"
    /\ req.method = "tools/list"
    /\ listed' = registered \ disabled
    /\ verdict' = "listed"
    /\ at' = "answered"
    /\ UNCHANGED <<startVars, req, deadline>>

\* The handler of a tool that has timeout_seconds sets the call's own timeout
\* and does its work.
Handler ==
    /\ at = "handler"
    /\ PassTo("working")
    /\ deadline' = IF req.name \in TimeoutTools /\ req.seconds # 0
                     THEN WithTimeout(deadline, ToDuration(req.seconds))
                     ELSE deadline

\* The handler returns.
HandlerReturns ==
    /\ at = "working"
    /\ AnswerNow("ran")

Stopped == process = "fatal" /\ UNCHANGED dispatchVars

DispatchNext ==
    \/ ParseFlags \/ ParseFlagsFatal \/ Setup \/ SetupFatal
    \/ Receive \/ FilterRequest \/ ToolTimeout \/ CallTool \/ ListTools
    \/ Handler \/ HandlerReturns
    \/ Stopped

DispatchSpec == DispatchInit /\ [][DispatchNext]_dispatchVars

-----------------------------------------------------------------------------
(* Properties. *)

Answers == {"none", "disabled", "unknown tool", "bad arguments", "listed", "ran"}

\* Type invariant: the stages of start and request, and the words of time.
DispatchTypeOK ==
    /\ process \in {"flags", "setup", "serving", "fatal"}
    /\ flags \in Flags
    /\ disabled \subseteq allKnownTools
    /\ toolTimeout \in -(IntMax + 1) .. IntMax
    /\ registered \subseteq allKnownTools
    /\ req \in Requests \cup {[method |-> "none"]}
    /\ at \in {"idle", "filter", "timeout", "sdk", "handler", "working",
               "answered"}
    /\ deadline \in 0 .. IntMax
    /\ verdict \in Answers
    /\ listed \subseteq allKnownTools \/ listed = NotListed

\* The operator named the tool, or one of its categories, in the flags.
Hidden(name) ==
    \/ name \in flags.tools
    \/ \E c \in flags.categories \cap Categories :
         name \in AddTools(c, TRUE)

\* No handler of a tool that the operator disabled ever works, whether it was
\* named or its category was, and whatever the client sends; and a server whose
\* flags name something that does not exist serves nothing at all, so that a
\* misspelt name never leaves a tool on (ResolveDisabled fails fast,
\* ToolFilter refuses calls as well as hiding tools).
HiddenNeverRuns ==
    /\ at \in {"handler", "working"} => ~Hidden(req.name)
    /\ process = "serving" => /\ flags.categories \subseteq Categories
                              /\ flags.tools \subseteq allKnownTools

\* What the client was shown is what it can call: a call is refused as
\* disabled or unknown exactly if the tool is not in the last answer to
\* tools/list (ToolFilter hides and refuses the same tools).
ListedIffCallable ==
    (verdict \in {"disabled", "unknown tool", "bad arguments", "ran"}
        /\ listed # NotListed)
      => (verdict \in {"disabled", "unknown tool"} <=> req.name \notin listed)

\* The deadline that docs/user-guide.md promises a working call: its own
\* timeout_seconds, capped, or else that of --tool-timeout, 0 for none.
PromisedDeadline ==
    IF req.seconds # 0
      THEN (IF req.seconds < MaxSeconds THEN req.seconds ELSE MaxSeconds) * Second
      ELSE FlagTimeout * Second

\* The flag, in nanoseconds, fits the word.
FlagFits == FlagTimeout * Second <= IntMax

\* "per-call `timeout_seconds` overrides that value and is capped at 300
\* seconds", "`0` disables the global timeout" (docs/user-guide.md): a handler
\* works under that deadline, neither a shorter nor a longer one nor none, over
\* flags, middleware, schema and handler together.  A flag that overflows
\* spoils the default, but never a timeout of the call's own.
DeadlineAsPromised ==
    (at = "working" /\ (req.seconds # 0 \/ FlagFits))
        => deadline = PromisedDeadline
=============================================================================
