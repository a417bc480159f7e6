------------------------- MODULE MCServerLifecycle --------------------------
(***************************************************************************)
(* Instances of ServerLifecycle for TLC: two calls with deadlines, two     *)
(* signals, and either transport.                                          *)
(***************************************************************************)
EXTENDS ServerLifecycle

CONSTANTS c1, c2, p1, p2

MCCalls  == {c1, c2}
MCPods   == {p1, p2}
MCBoth   == {"stdio", "http"}
MCFaults == {"delete"}
=============================================================================
