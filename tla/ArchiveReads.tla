---------------------------- MODULE ArchiveReads ----------------------------
(***************************************************************************)
(* What the must-gather tools promise a client: each call names an archive *)
(* and is answered once, either with an error or from that archive.        *)
(* Nothing is said of locks, of the omc command or of its current archive. *)
(***************************************************************************)
CONSTANTS Callers, Archives, NoArchive

VARIABLES busy,    \* the calls that are being served
          path,    \* must_gather_path of each caller's last call
          source   \* the archive the last answer came from, or NoArchive

vars == <<busy, path, source>>

Init ==
    /\ busy = {}
    /\ path = [c \in Callers |-> NoArchive]
    /\ source = [c \in Callers |-> NoArchive]

\* A call arrives.
Ask(c) ==
    /\ c \notin busy
    /\ busy' = busy \cup {c}
    /\ \E a \in Archives : path' = [path EXCEPT ![c] = a]
    /\ source' = [source EXCEPT ![c] = NoArchive]

\* The call is answered from the archive it named.
Serve(c) ==
    /\ c \in busy
    /\ busy' = busy \ {c}
    /\ source' = [source EXCEPT ![c] = path[c]]
    /\ UNCHANGED path

\* The call is answered with an error.
Fail(c) ==
    /\ c \in busy
    /\ busy' = busy \ {c}
    /\ UNCHANGED <<path, source>>

Next == \E c \in Callers : Ask(c) \/ Serve(c) \/ Fail(c)

Spec == Init /\ [][Next]_vars
=============================================================================
