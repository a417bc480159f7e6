---------------------------- MODULE MCOmcClient -----------------------------
(***************************************************************************)
(* Instances of OmcClient for TLC: two callers, two archives and a path    *)
(* that is not an archive; one server process, or one per caller as when   *)
(* two MCP clients start the stdio server.                                 *)
(***************************************************************************)
EXTENDS OmcClient

CONSTANTS c1, c2, good, other, bad, s1, s2

MCCallers   == {c1, c2}
MCArchives  == {good, other, bad}
MCInvalid   == {bad}
MCProcesses == {s1, s2}
MCShared    == [c \in MCCallers |-> s1]
MCSeparate  == [c \in MCCallers |-> IF c = c1 THEN s1 ELSE s2]
MCNoResources == {other}
=============================================================================
