----------------------------- MODULE RequestPath -----------------------------
(***************************************************************************)
(* A request between the client and the text of its answer: what dispatches*)
(* it to a handler (ToolDispatch), and the handlers that answer with lines *)
(* of a text (TextTools).  A handler sees its parameters and a context, and*)
(* nothing else of what the dispatch keeps, and the dispatch nothing of    *)
(* what a handler keeps: they share no state, so that a behaviour is one   *)
(* of either.                                                              *)
(***************************************************************************)
EXTENDS TextTools, ToolDispatch

VARIABLE part       \* the part of the path that is looked at

pathVars == <<textVars, dispatchVars, part>>

PathInit ==
    /\ part \in {"dispatch", "handlers"}
    /\ DispatchInit
    /\ part = "handlers" => flags = CHOOSE f \in Flags : TRUE
    /\ TextInit
    /\ part = "dispatch" => family = "sos" /\ log = CHOOSE t \in Texts : TRUE

PathNext ==
    /\ \/ part = "dispatch" /\ DispatchNext /\ UNCHANGED textVars
       \/ part = "handlers" /\ TextNext /\ UNCHANGED dispatchVars
    /\ UNCHANGED part

PathSpec == PathInit /\ [][PathNext]_pathVars
=============================================================================
