------------------------ MODULE ToolDispatchProofs --------------------------
(***************************************************************************)
(* Proofs about ToolDispatch: for every command line and every sequence of *)
(* requests, no hidden tool's handler works, what is listed is what can be *)
(* called, and every handler works under the promised deadline, unless     *)
(* that is a flag that overflows the word.                                 *)
(***************************************************************************)
EXTENDS ToolDispatch, TLAPS

\* A value in the upper half of a word is not changed by the conversion.
LEMMA WrapFits ==
    ASSUME NEW x \in Nat, IntMax \in Nat, x <= IntMax
    PROVE  Wrap(x) = x
<1> DEFINE M == IntMax + 1
<1>1. M \in Nat /\ M > 0 /\ x < M
  OBVIOUS
<1> HIDE DEF M
<1>2. x + M \in 0 .. (2 * M - 1)
  BY <1>1
<1>3. (x + M) % (2 * M) = x + M
  BY <1>1, <1>2
<1>4. Wrap(x) = ((x + M) % (2 * M)) - M
  BY DEF Wrap, M
<1> QED
  BY <1>1, <1>3, <1>4

\* A product of a natural number and time.Second is one.
LEMMA SecondsAreNat ==
    ASSUME NEW s \in Nat
    PROVE  s * Second \in Nat /\ (s = 0 <=> s * Second = 0)
BY DispatchAssumption

\* ToDuration neither overflows nor goes beyond MaxTimeout, and is zero only
\* for a call that brings no timeout.
LEMMA ToDurationIsCapped ==
    ASSUME NEW s \in CallSeconds
    PROVE  /\ ToDuration(s) = (IF s < MaxSeconds THEN s ELSE MaxSeconds) * Second
           /\ ToDuration(s) = 0 <=> s = 0
<1>1. s \in Nat /\ s * Second \in Nat /\ s * Second <= IntMax /\ IntMax \in Nat
  BY DispatchAssumption, SecondsAreNat
<1>2. Wrap(s * Second) = s * Second
  BY <1>1, WrapFits
<1>3. MaxSeconds \in Nat \ {0} /\ Second \in Nat \ {0}
  BY DispatchAssumption
<1>4. s * Second < MaxSeconds * Second <=> s < MaxSeconds
  BY <1>1, <1>3
<1>5. MaxSeconds * Second # 0
  BY <1>3, SecondsAreNat
<1>6. s * Second = 0 <=> s = 0
  BY <1>1, SecondsAreNat
<1>7. CASE s < MaxSeconds
  <2>1. ToDuration(s) = s * Second
    BY <1>2, <1>4, <1>7 DEF ToDuration
  <2> QED
    BY <2>1, <1>6, <1>7
<1>8. CASE ~(s < MaxSeconds)
  <2>1. ToDuration(s) = MaxSeconds * Second
    BY <1>2, <1>4, <1>8 DEF ToDuration
  <2> QED
    BY <2>1, <1>5, <1>1, <1>3, <1>8
<1> QED
  BY <1>7, <1>8

-----------------------------------------------------------------------------
(* Hidden tools *)

\* The categories' tools are registered under the names of the filter's table.
LEMMA TableAgrees ==
    ASSUME NEW c \in Categories
    PROVE  AddTools(c, TRUE) = toolsByCategory[c]
<1> USE DEF AddTools, toolsByCategory, Categories
<1>1. CASE c = "kubernetes"
  BY <1>1 DEF KubernetesTools
<1>2. CASE c = "ovn"
  BY <1>2 DEF OvnTools
<1>3. CASE c = "ovs"
  BY <1>3 DEF OvsTools
<1>4. CASE c = "kernel"
  BY <1>4 DEF KernelTools
<1>5. CASE c = "network-tools"
  BY <1>5 DEF NetworkTools
<1>6. CASE c = "sosreport"
  BY <1>6 DEF SosreportTools
<1>7. CASE c = "must-gather"
  BY <1>7 DEF MustGatherTools
<1> QED
  BY <1>1, <1>2, <1>3, <1>4, <1>5, <1>6, <1>7

\* The filter's set has the tools and the tools of the categories.
LEMMA DisabledCovers ==
    ASSUME NEW categories, NEW tools
    PROVE  /\ tools \subseteq DisabledBy(categories, tools)
           /\ \A c \in categories :
                toolsByCategory[c] \subseteq DisabledBy(categories, tools)
BY DEF DisabledBy

\* What the flags hide is what the filter refuses.
FilterReady ==
    process \in {"setup", "serving"} =>
        /\ flags.categories \subseteq Categories
        /\ flags.tools \subseteq allKnownTools
        /\ flags.tools \subseteq disabled
        /\ \A c \in flags.categories : toolsByCategory[c] \subseteq disabled

\* A request is handled only while the process serves, and one that has passed
\* the filter does not call a tool the filter refuses.
PastFilter ==
    /\ at # "idle" => process = "serving"
    /\ (at \in {"timeout", "sdk", "handler", "working"}
          /\ req.method = "tools/call") => req.name \notin disabled
    /\ at \in {"handler", "working"} => req.method = "tools/call"

HideInv == FilterReady /\ PastFilter

\* Before the flags are read there is no request that could pass the filter.
LEMMA HideInit == DispatchInit => HideInv
BY DEF DispatchInit, HideInv, FilterReady, PastFilter

\* Every step keeps the filter and the requests past it in agreement.
LEMMA HideStep == HideInv /\ [DispatchNext]_dispatchVars => HideInv'
<1> SUFFICES ASSUME HideInv, [DispatchNext]_dispatchVars PROVE HideInv'
  OBVIOUS
<1> USE DEF HideInv, FilterReady, PastFilter
<1>1. CASE ParseFlags
  BY <1>1, DisabledCovers DEF ParseFlags, ResolveDisabled, callVars
<1>2. CASE ParseFlagsFatal
  BY <1>2 DEF ParseFlagsFatal, callVars
<1>3. CASE Setup
  BY <1>3 DEF Setup, callVars
<1>4. CASE SetupFatal
  BY <1>4 DEF SetupFatal, callVars
<1>5. CASE Receive
  BY <1>5 DEF Receive, startVars
<1>6. CASE FilterRequest
  BY <1>6 DEF FilterRequest, AnswerNow, PassTo, startVars
<1>7. CASE ToolTimeout
  BY <1>7 DEF ToolTimeout, PassTo, startVars
<1>8. CASE CallTool
  <2>1. /\ UNCHANGED <<startVars, req>>
        /\ at = "sdk" /\ req.method = "tools/call"
        /\ at' \in {"answered", "handler"}
    BY <1>8 DEF CallTool, AnswerNow, PassTo
  <2> QED
    BY <2>1 DEF startVars
<1>9. CASE ListTools
  BY <1>9 DEF ListTools, startVars
<1>10. CASE Handler
  BY <1>10 DEF Handler, PassTo, startVars
<1>11. CASE HandlerReturns
  BY <1>11 DEF HandlerReturns, AnswerNow, startVars
<1>12. CASE UNCHANGED dispatchVars
  BY <1>12 DEF dispatchVars, startVars, callVars
<1> QED
  BY <1>1, <1>2, <1>3, <1>4, <1>5, <1>6, <1>7, <1>8, <1>9, <1>10, <1>11,
     <1>12 DEF DispatchNext, Stopped

\* The filter's set has every tool that Hidden speaks of.
LEMMA HideEnough == HideInv => HiddenNeverRuns
<1> SUFFICES ASSUME HideInv PROVE HiddenNeverRuns
  OBVIOUS
<1>1. ASSUME at \in {"handler", "working"} PROVE ~Hidden(req.name)
  <2>1. /\ process = "serving"
        /\ req.name \notin disabled
    BY <1>1 DEF HideInv, PastFilter
  <2>2. /\ flags.tools \subseteq disabled
        /\ \A c \in flags.categories : toolsByCategory[c] \subseteq disabled
    BY <2>1 DEF HideInv, FilterReady
  <2>3. ASSUME NEW c \in flags.categories \cap Categories
        PROVE  req.name \notin AddTools(c, TRUE)
    BY <2>1, <2>2, TableAgrees
  <2>4. req.name \notin flags.tools
    BY <2>1, <2>2
  <2>5. ~\E c \in flags.categories \cap Categories :
           req.name \in AddTools(c, TRUE)
    BY <2>3
  <2> QED
    BY <2>4, <2>5 DEF Hidden
<1> QED
  BY <1>1 DEF HideInv, FilterReady, HiddenNeverRuns

\* ToolFilter and ResolveDisabled together: no handler of a disabled tool ever
\* works, for every command line and every client.
THEOREM HiddenToolsNeverRun == DispatchSpec => []HiddenNeverRuns
<1>1. DispatchInit => HideInv
  BY HideInit
<1>2. HideInv /\ [DispatchNext]_dispatchVars => HideInv'
  BY HideStep
<1>3. HideInv => HiddenNeverRuns
  BY HideEnough
<1> QED
  BY <1>1, <1>2, <1>3, PTL DEF DispatchSpec

-----------------------------------------------------------------------------
(* Deadlines *)

\* The deadline the timeout middleware gives a request, if it is installed.
DefaultDeadline == IF toolTimeout > 0 THEN toolTimeout ELSE NoDeadline

\* The deadline the timeout middleware leaves a request with.
MiddlewareDeadline ==
    IF req.seconds \in {0, Malformed} THEN DefaultDeadline ELSE NoDeadline

\* The stages of a request, and the deadline it has at each of them.
DeadlineInv ==
    /\ flags.seconds \in FlagSeconds
    /\ process \in {"setup", "serving"} => toolTimeout = Wrap(FlagTimeout * Second)
    /\ at # "idle" => process = "serving" /\ req \in Requests
    /\ at \in {"filter", "timeout"} => deadline = NoDeadline
    /\ (at \in {"sdk", "handler"} /\ req.method = "tools/call")
          => deadline = MiddlewareDeadline
    /\ at \in {"handler", "working"} =>
          /\ req.method = "tools/call"
          /\ req.seconds # Malformed
          /\ req.seconds = 0 \/ req.name \in TimeoutTools
    /\ DeadlineAsPromised

\* A flag that fits the word is the default deadline.
LEMMA FlagDuration ==
    ASSUME FlagFits, flags.seconds \in FlagSeconds,
           toolTimeout = Wrap(FlagTimeout * Second)
    PROVE  DefaultDeadline = FlagTimeout * Second
<1>1. FlagTimeout \in Nat
  <2>1. DefaultSeconds \in Nat /\ flags.seconds \in Int
    BY Zenon, DispatchAssumption
  <2> QED
    BY <2>1 DEF FlagTimeout
<1>2. FlagTimeout * Second \in Nat
  <2> HIDE DEF FlagTimeout
  <2> QED
    BY <1>1, SecondsAreNat
<1> DEFINE duration == FlagTimeout * Second
<1>3. duration \in Nat /\ duration <= IntMax /\ toolTimeout = Wrap(duration)
  BY <1>2 DEF FlagFits
<1> HIDE DEF duration
<1>4. toolTimeout = duration
  BY <1>3, WrapFits, DispatchAssumption
<1>5. DefaultDeadline = duration
  BY <1>3, <1>4 DEF DefaultDeadline, NoDeadline
<1> QED
  BY <1>5 DEF duration

\* Initially no request has a deadline.
LEMMA DeadlineInit == DispatchInit => DeadlineInv
BY DEF DispatchInit, Flags, DeadlineInv, DeadlineAsPromised

\* A call has a name and a timeout_seconds.
LEMMA CallFields ==
    ASSUME req \in Requests, req.method = "tools/call"
    PROVE  req.seconds \in CallSeconds \cup {Malformed}
BY DEF Requests

\* The timeout middleware gives a call the default exactly if it has none.
LEMMA MiddlewareStep ==
    ASSUME DeadlineInv, ToolTimeout, req.method = "tools/call"
    PROVE  deadline' = MiddlewareDeadline
<1>1. /\ deadline = NoDeadline
      /\ req.seconds \in CallSeconds \cup {Malformed}
  BY CallFields DEF DeadlineInv, ToolTimeout
<1>2. getTimeoutParams(req.seconds) = 0 <=> req.seconds \in {0, Malformed}
  <2>1. CASE req.seconds = Malformed
    BY <2>1 DEF getTimeoutParams
  <2>2. CASE req.seconds # Malformed
    BY <1>1, <2>2, ToDurationIsCapped DEF getTimeoutParams
  <2> QED
    BY <2>1, <2>2
<1>3. CASE req.seconds \in {0, Malformed}
  BY <1>1, <1>2, <1>3
     DEF ToolTimeout, WithTimeout, MiddlewareDeadline, DefaultDeadline
<1>4. CASE req.seconds \notin {0, Malformed}
  BY <1>1, <1>2, <1>4 DEF ToolTimeout, MiddlewareDeadline
<1> QED
  BY <1>3, <1>4

\* The handler replaces no deadline: it sets its own when there is none.
LEMMA HandlerStep ==
    ASSUME DeadlineInv, Handler, req.seconds # 0 \/ FlagFits
    PROVE  deadline' = PromisedDeadline
<1>1. /\ flags.seconds \in FlagSeconds
      /\ toolTimeout = Wrap(FlagTimeout * Second)
      /\ deadline = MiddlewareDeadline
      /\ req.seconds # Malformed
      /\ req.seconds = 0 \/ req.name \in TimeoutTools
      /\ req.seconds \in CallSeconds \cup {Malformed}
  BY CallFields DEF DeadlineInv, Handler
<1>2. CASE req.seconds = 0
  <2>1. DefaultDeadline = FlagTimeout * Second
    BY <1>1, <1>2, FlagDuration
  <2> QED
    BY <1>1, <1>2, <2>1 DEF Handler, MiddlewareDeadline, PromisedDeadline
<1>3. CASE req.seconds # 0
  BY <1>1, <1>3, ToDurationIsCapped
     DEF Handler, WithTimeout, MiddlewareDeadline, PromisedDeadline
<1> QED
  BY <1>2, <1>3

\* Every step keeps the deadline that is promised for its stage.
LEMMA DeadlineStep == DeadlineInv /\ [DispatchNext]_dispatchVars => DeadlineInv'
<1> SUFFICES ASSUME DeadlineInv, [DispatchNext]_dispatchVars PROVE DeadlineInv'
  OBVIOUS
<1> USE DEF DeadlineInv, DeadlineAsPromised, PromisedDeadline,
            MiddlewareDeadline, DefaultDeadline, FlagTimeout, FlagFits
<1>1. CASE ParseFlags
  BY <1>1 DEF ParseFlags, callVars
<1>2. CASE ParseFlagsFatal
  BY <1>2 DEF ParseFlagsFatal, callVars
<1>3. CASE Setup
  BY <1>3 DEF Setup, callVars
<1>4. CASE SetupFatal
  BY <1>4 DEF SetupFatal, callVars
<1>5. CASE Receive
  BY <1>5 DEF Receive, startVars
<1>6. CASE FilterRequest
  BY <1>6 DEF FilterRequest, AnswerNow, PassTo, startVars
<1>7. CASE ToolTimeout
  BY <1>7, MiddlewareStep DEF ToolTimeout, PassTo, startVars
<1>8. CASE CallTool
  BY <1>8 DEF CallTool, AnswerNow, PassTo, startVars
<1>9. CASE ListTools
  BY <1>9 DEF ListTools, startVars
<1>10. CASE Handler
  BY <1>10, HandlerStep DEF Handler, PassTo, startVars
<1>11. CASE HandlerReturns
  BY <1>11 DEF HandlerReturns, AnswerNow, startVars
<1>12. CASE UNCHANGED dispatchVars
  BY <1>12 DEF dispatchVars, startVars, callVars
<1> QED
  BY <1>1, <1>2, <1>3, <1>4, <1>5, <1>6, <1>7, <1>8, <1>9, <1>10, <1>11,
     <1>12 DEF DispatchNext, Stopped

\* Every handler works under the deadline docs/user-guide.md promises: the
\* call's own, capped, or else that of --tool-timeout if it fits the word.
THEOREM PromisedDeadlinesHold == DispatchSpec => []DeadlineAsPromised
<1>1. DispatchInit => DeadlineInv
  BY DeadlineInit
<1>2. DeadlineInv /\ [DispatchNext]_dispatchVars => DeadlineInv'
  BY DeadlineStep
<1>3. DeadlineInv => DeadlineAsPromised
  BY DEF DeadlineInv
<1> QED
  BY <1>1, <1>2, <1>3, PTL DEF DispatchSpec

-----------------------------------------------------------------------------
(* What is listed and what can be called *)

\* A listing is made once the tools are registered and the filter is set, and
\* neither changes any more.
ListingFinal ==
    /\ listed \in {NotListed, registered \ disabled}
    /\ process # "serving" => listed = NotListed

\* How far a call has come, or how it was answered, tells whether its tool is
\* registered and passes the filter.
AnswerFitsTool ==
    /\ at # "answered" => verdict = "none"
    /\ at \in {"handler", "working"} => req.name \in registered
    /\ verdict = "disabled" => req.name \in disabled
    /\ verdict = "unknown tool" => req.name \notin registered
    /\ verdict \in {"bad arguments", "ran"} => req.name \in registered \ disabled

ListInv == HideInv /\ ListingFinal /\ AnswerFitsTool

\* Every step keeps the listing and the answers in agreement.
LEMMA ListStep == ListInv /\ [DispatchNext]_dispatchVars => ListInv'
<1> SUFFICES ASSUME ListInv, [DispatchNext]_dispatchVars PROVE ListInv'
  OBVIOUS
<1>0. HideInv' /\ HideInv
  BY HideStep DEF ListInv
<1> USE DEF ListInv, ListingFinal, AnswerFitsTool
<1>1. CASE ParseFlags
  BY <1>0, <1>1 DEF ParseFlags, callVars, HideInv, PastFilter
<1>2. CASE ParseFlagsFatal
  BY <1>0, <1>2 DEF ParseFlagsFatal, callVars
<1>3. CASE Setup
  BY <1>0, <1>3 DEF Setup, callVars, HideInv, PastFilter
<1>4. CASE SetupFatal
  BY <1>0, <1>4 DEF SetupFatal, callVars
<1>5. CASE Receive
  BY <1>0, <1>5 DEF Receive, startVars
<1>6. CASE FilterRequest
  <2>1. CASE AnswerNow("disabled") /\ req.name \in disabled
    BY <1>0, <2>1 DEF AnswerNow, startVars
  <2>2. CASE PassTo("timeout")
    BY <1>0, <1>6, <2>2 DEF FilterRequest, PassTo, startVars
  <2> QED
    BY <1>6, <2>1, <2>2 DEF FilterRequest
<1>7. CASE ToolTimeout
  BY <1>0, <1>7 DEF ToolTimeout, PassTo, startVars
<1>8. CASE CallTool
  <2>1. req.name \notin disabled
    BY <1>0, <1>8 DEF CallTool, HideInv, PastFilter
  <2>2. CASE AnswerNow("unknown tool") /\ req.name \notin registered
    BY <1>0, <2>2 DEF AnswerNow, startVars
  <2>3. CASE AnswerNow("bad arguments") /\ req.name \in registered
    BY <1>0, <2>1, <2>3 DEF AnswerNow, startVars
  <2>4. CASE PassTo("handler") /\ req.name \in registered
    BY <1>0, <1>8, <2>4 DEF CallTool, PassTo, startVars
  <2> QED
    BY <1>8, <2>2, <2>3, <2>4 DEF CallTool
<1>9. CASE ListTools
  BY <1>0, <1>9 DEF ListTools, startVars, HideInv, PastFilter
<1>10. CASE Handler
  BY <1>0, <1>10 DEF Handler, PassTo, startVars
<1>11. CASE HandlerReturns
  BY <1>0, <1>11 DEF HandlerReturns, AnswerNow, startVars, HideInv, PastFilter
<1>12. CASE UNCHANGED dispatchVars
  BY <1>0, <1>12 DEF dispatchVars, startVars, callVars
<1> QED
  BY <1>1, <1>2, <1>3, <1>4, <1>5, <1>6, <1>7, <1>8, <1>9, <1>10, <1>11,
     <1>12 DEF DispatchNext, Stopped

\* The two directions of ToolFilter agree: a call is refused as disabled or
\* unknown exactly if its tool is not in the last answer to tools/list.
THEOREM ListedToolsAreTheCallable == DispatchSpec => []ListedIffCallable
<1>1. DispatchInit => ListInv
  BY HideInit DEF DispatchInit, ListInv, ListingFinal, AnswerFitsTool
<1>2. ListInv /\ [DispatchNext]_dispatchVars => ListInv'
  BY ListStep
<1>3. ListInv => ListedIffCallable
  BY DEF ListInv, ListingFinal, AnswerFitsTool, ListedIffCallable
<1> QED
  BY <1>1, <1>2, <1>3, PTL DEF DispatchSpec

-----------------------------------------------------------------------------
(* Types *)

\* The conversion yields a word.
LEMMA WrapRange ==
    ASSUME NEW x \in Int
    PROVE  Wrap(x) \in -(IntMax + 1) .. IntMax
<1> DEFINE M == IntMax + 1
<1>1. M \in Nat /\ M > 0 /\ x + M \in Int /\ IntMax \in Nat
  BY DispatchAssumption
<1> HIDE DEF M
<1>2. (x + M) % (2 * M) \in 0 .. (2 * M - 1)
  BY <1>1
<1>3. Wrap(x) = ((x + M) % (2 * M)) - M
  BY <1>1 DEF Wrap, M
<1>4. Wrap(x) \in -M .. (M - 1)
  BY <1>1, <1>2, <1>3
<1> QED
  BY <1>1, <1>4 DEF M

\* A call's timeout is a word and not negative.
LEMMA ToDurationRange ==
    ASSUME NEW s \in CallSeconds
    PROVE  ToDuration(s) \in 0 .. IntMax
<1>1. s \in Nat /\ s * Second \in Nat /\ s * Second <= IntMax
  BY DispatchAssumption, SecondsAreNat
<1>2. MaxSeconds * Second \in Nat /\ MaxSeconds * Second <= IntMax
  BY DispatchAssumption, SecondsAreNat
<1>3. ToDuration(s) \in {s * Second, MaxSeconds * Second}
  BY ToDurationIsCapped
<1> QED
  BY <1>1, <1>2, <1>3, DispatchAssumption

\* Every tool that is registered is in the filter's table.
LEMMA RegisteredAreKnown ==
    ASSUME NEW mode, NEW omc \in BOOLEAN, NEW ovsdb \in BOOLEAN
    PROVE  Registered(mode, omc, ovsdb) \subseteq allKnownTools
<1>1. ASSUME NEW c \in Categories
      PROVE  AddTools(c, ovsdb) \subseteq AddTools(c, TRUE)
  BY DEF AddTools, MustGatherTools, Categories
<1>2. \A c \in Categories : AddTools(c, ovsdb) \subseteq allKnownTools
  BY <1>1, TableAgrees DEF allKnownTools
<1>3. LiveCategories \cup {"sosreport", "must-gather"} \subseteq Categories
  BY DEF LiveCategories, Categories
<1> QED
  BY <1>2, <1>3 DEF Registered

\* Every step keeps the types; that a deadline is a word rests on the timeouts
\* that reach context.WithTimeout.
LEMMA TypeStep == DispatchTypeOK /\ DeadlineInv /\ [DispatchNext]_dispatchVars => DispatchTypeOK'
<1> SUFFICES ASSUME DispatchTypeOK, DeadlineInv, [DispatchNext]_dispatchVars PROVE DispatchTypeOK'
  OBVIOUS
<1>0. IntMax \in Nat /\ Second \in Nat /\ DefaultSeconds \in Nat /\ FlagSeconds \subseteq Int
  BY Zenon, DispatchAssumption
<1>1. CASE ParseFlags
  <2>1. flags.seconds \in Int
    BY <1>0 DEF DispatchTypeOK, Flags
  <2>2. FlagTimeout \in Int
    BY <1>0, <2>1 DEF FlagTimeout
  <2>3. FlagTimeout * Second \in Int
    <3> HIDE DEF FlagTimeout
    <3> QED
      BY <1>0, <2>2
  <2>4. toolTimeout' \in -(IntMax + 1) .. IntMax
    BY <1>1, <2>3, WrapRange DEF ParseFlags
  <2>5. disabled' \subseteq allKnownTools
    BY <1>1 DEF ParseFlags, ResolveDisabled, DisabledBy, allKnownTools
  <2> QED
    BY <1>1, <2>4, <2>5 DEF ParseFlags, callVars, DispatchTypeOK
<1>2. CASE ParseFlagsFatal
  BY <1>2 DEF ParseFlagsFatal, callVars, DispatchTypeOK
<1>3. CASE Setup
  BY <1>3, RegisteredAreKnown DEF Setup, callVars, DispatchTypeOK
<1>4. CASE SetupFatal
  BY <1>4 DEF SetupFatal, callVars, DispatchTypeOK
<1>5. CASE Receive
  <2>1. deadline' \in 0 .. IntMax
    BY <1>0, <1>5 DEF Receive, NoDeadline
  <2> QED
    BY <1>5, <2>1 DEF Receive, startVars, DispatchTypeOK, Answers
<1>6. CASE FilterRequest
  BY <1>6 DEF FilterRequest, AnswerNow, PassTo, startVars, DispatchTypeOK, Answers
<1>7. CASE ToolTimeout
  <2>1. deadline \in 0 .. IntMax /\ toolTimeout \in -(IntMax + 1) .. IntMax
    BY DEF DispatchTypeOK
  <2>2. \/ deadline' = deadline
        \/ toolTimeout > 0 /\ deadline' = toolTimeout
    BY <1>7 DEF ToolTimeout, WithTimeout
  <2>3. deadline' \in 0 .. IntMax
    BY <1>0, <2>1, <2>2
  <2> QED
    BY <1>7, <2>3 DEF ToolTimeout, PassTo, startVars, DispatchTypeOK
<1>8. CASE CallTool
  BY <1>8 DEF CallTool, AnswerNow, PassTo, startVars, DispatchTypeOK, Answers
<1>9. CASE ListTools
  BY <1>9 DEF ListTools, startVars, DispatchTypeOK, Answers
<1>10. CASE Handler
  <2>1. req.seconds \in CallSeconds
    BY <1>10, CallFields DEF Handler, DeadlineInv
  <2>2. ToDuration(req.seconds) \in 0 .. IntMax
    BY <2>1, ToDurationRange
  <2>3. deadline' \in {deadline, ToDuration(req.seconds)}
    BY <1>10 DEF Handler, WithTimeout
  <2> QED
    BY <1>10, <2>2, <2>3 DEF Handler, PassTo, startVars, DispatchTypeOK
<1>11. CASE HandlerReturns
  BY <1>11 DEF HandlerReturns, AnswerNow, startVars, DispatchTypeOK, Answers
<1>12. CASE UNCHANGED dispatchVars
  BY <1>12 DEF dispatchVars, startVars, callVars, DispatchTypeOK
<1> QED
  BY <1>1, <1>2, <1>3, <1>4, <1>5, <1>6, <1>7, <1>8, <1>9, <1>10, <1>11,
     <1>12 DEF DispatchNext, Stopped

\* Type correctness: the flags, the durations as words, and the stages.
THEOREM TypeCorrect == DispatchSpec => []DispatchTypeOK
<1>1. DispatchInit => DispatchTypeOK /\ DeadlineInv
  BY DeadlineInit, DispatchAssumption DEF DispatchInit, DispatchTypeOK, NoDeadline, Answers
<1>2. DispatchTypeOK /\ DeadlineInv /\ [DispatchNext]_dispatchVars => DispatchTypeOK' /\ DeadlineInv'
  BY TypeStep, DeadlineStep
<1> QED
  BY <1>1, <1>2, PTL DEF DispatchSpec
=============================================================================
