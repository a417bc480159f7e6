---------------------------- MODULE MCRequestPath ----------------------------
(***************************************************************************)
(* An instance of RequestPath for TLC.  Logs: every log of up to five lines*)
(* that match, do not match or are blank, and head and tail negative, zero,*)
(* and below, at and above the default.  Pods: one or two containers, the  *)
(* pod replaced once.  Sosreport: three plugins with commands that match in*)
(* one way, in both and in none, one without output and one whose name     *)
(* contains dots; paths that go up and down, in the report and out of it;   *)
(* pods and containers whose names are the start of others, a compressed   *)
(* log, one that was not collected, one that is no log, and one whose name *)
(* has no id.                                                              *)
(*                                                                         *)
(* Dispatch: a second is 4 units and the word ends at 127, so that a flag  *)
(* of 32 seconds is the first that overflows, as 9223372037 seconds is in  *)
(* an int64 of nanoseconds, and 65 seconds become 1; a call's timeout is   *)
(* capped at 5 seconds.  The names cover a tool with and one without       *)
(* timeout_seconds, live and offline categories, the tools that depend on  *)
(* ovsdb-tool, and a name that does not exist.                             *)
(***************************************************************************)
EXTENDS RequestPath

MCLines    == {"match", "other", ""}
MCBlank    == {""}
MCMatching == {"match"}
MCNumbers  == {-1, 0, 1, 2, 4}
MCWindows  == {h \in Params : h.head \in {0, 1} /\ h.tail \in {0, 2} /\ ~h.applyTailFirst}
MCTexts    == {<<>>, <<"other">>, <<"match", "", "other", "match", "match">>}

MCPodSpecs == {<<"c1">>, <<"c1", "c2">>, <<"c2", "c1">>}
MCCounts   == {-1, 0, 1, 3, 4}

Command(path, execMatches, pathMatches) ==
    [path |-> path, execMatches |-> execMatches, pathMatches |-> pathMatches]

MCManifest ==
    [ovs     |-> <<Command(<<"cmd", "show">>, TRUE, FALSE),
                   Command(<<"cmd", "dump">>, TRUE, TRUE)>>,
     net     |-> <<Command(<<"cmd", "a..b">>, FALSE, TRUE), Command(<<>>, FALSE, FALSE)>>,
     nothing |-> <<>>]

MCRoot  == <<"sos">>
MCPaths == {<<"cmd", "show">>, <<"cmd", ".", "..", "cmd", "show">>, <<"..", "other">>,
            <<"cmd", "..", "..", "other">>, <<"..", "sos", "cmd", "show">>, <<"missing">>}
MCFiles == {<<"sos", "cmd", "show">>, <<"sos", "cmd", "dump">>, <<"sos", "cmd", "a..b">>,
            <<"other">>}

CopiedLog(dir, of, container, id, suffix) ==
    [dir |-> dir, pod |-> of, namespace |-> <<"ns">>, container |-> container,
     id |-> id, suffix |-> suffix]

MCFilesCopied ==
    <<CopiedLog(<<"host", "var">>, <<"p">>, <<"ovn">>, "tmp", <<".log">>),
      CopiedLog(<<"host", "var">>, <<"p", "-", "x">>, <<"ovn", "-", "ctl">>, "ab", <<".log">>),
      CopiedLog(<<"var">>, <<"p">>, <<"ovn", "-", "ctl">>, "cd", <<".log", ".gz">>),
      CopiedLog(<<"host", "var">>, <<"p">>, <<"ovn">>, "ef", <<".log", ".1">>),
      CopiedLog(<<"host", "var">>, <<"p">>, <<"ovn">>, "ef", <<".log">>),
      CopiedLog(<<"var">>, <<"q">>, <<"ovn">>, "ab", <<".log">>)>>

MCLogFiles == {LogFile(MCFilesCopied[i]) : i \in 1 .. 5}
MCHex      == {"ab", "cd", "ef"}
MCMax      == {-1, 0, 1, 2, 4}

MCModes          == {"live-cluster", "offline", "dual", "other"}
MCFlagCategories == {"kernel", "must-gather", "misspelt"}
MCFlagTools      == {"pod-logs", "get-ip", "misspelt"}
MCCallNames      == {"pod-logs", "get-ip", "must-gather-query-database",
                     "misspelt"}
MCCallSeconds    == {0, 1, 5, 6, 31}
MCFlagSeconds    == {-1, 0, 1, 31, 32, 65}
=============================================================================
