---------------------------- MODULE MCResources -----------------------------
(***************************************************************************)
(* An instance of Resources for TLC: two callers, a custom kind that may   *)
(* be removed and re-installed with another scope, two namespaces, and     *)
(* label selectors that select all or nothing.                             *)
(***************************************************************************)
EXTENDS Resources

CONSTANTS c1, c2

MCCallers    == {c1, c2}
MCKinds      == {"EgressIP"}
MCNames      == {"a"}
MCNamespaces == {"default", "other"}
MCSelections == {{"a"}, {}}
=============================================================================
