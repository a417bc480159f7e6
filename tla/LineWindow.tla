----------------------------- MODULE LineWindow -----------------------------
(***************************************************************************)
(* How the tools cut their output down to what fits an answer              *)
(* (pkg/utils/headtail, pkg/utils/pattern, StripEmptyLines): blank lines   *)
(* go, then the lines that do not match the pattern, and of the rest the   *)
(* head or tail parameters choose a window.                                *)
(*                                                                         *)
(* The tool is pod-logs (pkg/kubernetes/mcp/pods.go), whose log grows while*)
(* a client reads it window by window.                                     *)
(***************************************************************************)
EXTENDS Integers, Sequences

CONSTANTS Lines,            \* lines a container may write
          Blank,            \* those that are empty but for white space
          Matching,         \* those the client's pattern matches
          Numbers,          \* values of head and tail
          DefaultMaxLines,  \* the window when neither is given
          Windows,          \* the parameters of the calls in modules that extend
                            \* this one
          MaxLog            \* bound on the length of the log

ASSUME LinesAssumption ==
    /\ Blank \subseteq Lines
    /\ Matching \subseteq Lines
    /\ Numbers \subseteq Int
    /\ DefaultMaxLines \in Nat \ {0}
    /\ {-1, 0} \subseteq Numbers
    /\ MaxLog \in Nat

VARIABLES log,     \* what the container has written
          asked,   \* the parameters of the last call
          answer,  \* its answer
          enough   \* it found at least head lines that are shown

vars == <<log, asked, answer, enough>>

\* pattern: none, a regular expression, or one that does not compile.
Params == [head : Numbers, tail : Numbers, applyTailFirst : BOOLEAN,
           pattern : {"none", "valid", "invalid"}]

ASSUME WindowsAssumption == Windows \subseteq Params

\* All the lines that are not blank.
NoWindow == [head |-> -1, tail |-> 0, applyTailFirst |-> FALSE, pattern |-> "none"]

\* There is no answer, or it has no lines of a text.
Error == <<"error">>

-----------------------------------------------------------------------------
(* The window *)

\* The first n lines; all of them if n <= 0 or there are not more than n.
head(lines, n) ==
    IF n <= 0 \/ n >= Len(lines) THEN lines ELSE SubSeq(lines, 1, n)

\* Mutant of tail: one line too many.
tailOffByOne(lines, n) ==
    IF n <= 0 \/ n >= Len(lines) THEN lines
                                 ELSE SubSeq(lines, Len(lines) - n, Len(lines))

\* The last n lines; all of them if n <= 0 or there are not more than n.
tail(lines, n) ==
    IF n <= 0 \/ n >= Len(lines) THEN lines
                                 ELSE SubSeq(lines, Len(lines) - n + 1, Len(lines))

\* Mutant of Apply: the order of head and tail is swapped.
ApplySwapped(h, lines) ==
    CASE h.head = 0 /\ h.tail = 0 -> head(lines, DefaultMaxLines)
      [] h.head # 0 /\ h.tail = 0 -> head(lines, h.head)
      [] h.head = 0 /\ h.tail # 0 -> tail(lines, h.tail)
      [] h.head # 0 /\ h.tail # 0 ->
           IF h.applyTailFirst THEN tail(head(lines, h.head), h.tail)
                               ELSE head(tail(lines, h.tail), h.head)

\* HeadTailParams.Apply.
Apply(h, lines) ==
    CASE h.head = 0 /\ h.tail = 0 -> head(lines, DefaultMaxLines)
      [] h.head # 0 /\ h.tail = 0 -> head(lines, h.head)
      [] h.head = 0 /\ h.tail # 0 -> tail(lines, h.tail)
      [] h.head # 0 /\ h.tail # 0 ->
           IF h.applyTailFirst THEN head(tail(lines, h.tail), h.head)
                               ELSE tail(head(lines, h.head), h.tail)

\* The loop that keeps, in order, the lines that are in S.
Keep(lines, S) ==
    LET kept[i \in 0 .. Len(lines)] ==
            IF i = 0 THEN <<>>
            ELSE IF lines[i] \in S THEN Append(kept[i - 1], lines[i])
                                   ELSE kept[i - 1]
    IN  kept[Len(lines)]

StripEmptyLines(lines) == Keep(lines, Lines \ Blank)

\* Mutant of ExecuteWithMatch: no match is answered with a message.
ExecuteWithMatchMessage(h, lines) ==
    LET matched == Keep(lines, Matching)
    IN  IF h.pattern = "none" THEN lines
        ELSE IF matched = <<>> THEN <<"no line matches">> ELSE matched

\* ExecuteWithMatch with checkMatch: what it keeps of the lines f() returns.
ExecuteWithMatch(h, lines) ==
    IF h.pattern = "none" THEN lines ELSE Keep(lines, Matching)

\* The lines of a log that a window is taken from.
Shown(h, lines) == ExecuteWithMatch(h, StripEmptyLines(lines))

\* Mutant of Logs: the window is taken before the lines are filtered.
LogsWindowFirst(h, lines) == Shown(h, Apply(h, lines))

\* The logs that GetPodLogs returns.
Logs(h, lines) == Apply(h, Shown(h, lines))

-----------------------------------------------------------------------------

Init ==
    /\ log = <<>>
    /\ asked \in {h \in Params : h.pattern = "invalid"}
    /\ answer = Error
    /\ enough = FALSE

\* The container writes a line.
Write ==
    /\ Len(log) < MaxLog
    /\ \E l \in Lines : log' = Append(log, l)
    /\ UNCHANGED <<asked, answer, enough>>

\* pod-logs reads the log and answers.
GetPodLogs ==
    /\ \E h \in Params :
         /\ h.pattern # "invalid"
         /\ asked' = h
         /\ answer' = Logs(h, log)
         /\ enough' = (Len(Shown(h, log)) >= h.head)
    /\ UNCHANGED log

\* The pattern does not compile, or the log cannot be fetched.
GetPodLogsFails ==
    /\ answer' = Error
    /\ enough' = FALSE
    /\ UNCHANGED <<log, asked>>

Next == Write \/ GetPodLogs \/ GetPodLogsFails

Spec == Init /\ [][Next]_vars

-----------------------------------------------------------------------------
(* Properties. *)

\* Type invariant of the log and of the last call.
TypeOK ==
    /\ log \in Seq(Lines)
    /\ Len(log) <= MaxLog
    /\ asked \in Params
    /\ answer = Error \/ answer \in Seq(Lines)
    /\ enough \in BOOLEAN

\* n lines are not more than head and tail allow, or the default if neither is
\* given.  A negative number is no limit.
Within(h, n) ==
    /\ h.head > 0 => n <= h.head
    /\ h.tail > 0 => n <= h.tail
    /\ (h.head = 0 /\ h.tail = 0) => n <= DefaultMaxLines

\* An answer is never longer than its parameters allow, whatever their order
\* and however long the log is, and its lines stand together in the filtered
\* log ("Return only first N lines", "Return only last N lines",
\* docs/user-guide.md).
WindowOfLog ==
    answer # Error =>
        /\ Within(asked, Len(answer))
        /\ \E i \in 1 .. Len(log) + 1 :
             LET s == Shown(asked, log)
             IN  i + Len(answer) - 1 <= Len(s)
                   /\ answer = SubSeq(s, i, i + Len(answer) - 1)

\* A window counted from the head does not move while the log grows: the answer
\* stays what a second call with the same parameters would get, so that a client
\* can page through a log that is being written.
WindowStaysPut ==
    (answer # Error /\ asked.head > 0 /\ enough
        /\ (asked.tail = 0 \/ ~asked.applyTailFirst))
      => answer = Logs(asked, log)

\* Page k of n lines: head k * n, tail n, head first.
Page(k, n) == [head |-> k * n, tail |-> n, applyTailFirst |-> FALSE,
               pattern |-> "valid"]

\* Paging loses nothing: a client that reads page after page of n lines until
\* a head reaches past the log has seen every line that matches, at its place.
PagesCover ==
    \A n \in 1 .. MaxLog :
        LET s == Shown(Page(1, n), log)
        IN  \A i \in DOMAIN s :
              LET k == ((i - 1) \div n) + 1
                  p == Logs(Page(k, n), log)
                  last == IF k * n < Len(s) THEN k * n ELSE Len(s)
              IN  /\ last - Len(p) < i
                  /\ p[i - (last - Len(p))] = s[i]
=============================================================================
