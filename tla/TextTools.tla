------------------------------ MODULE TextTools ------------------------------
(***************************************************************************)
(* All the tools that answer with lines of a text: pod-logs (LineWindow),  *)
(* the tools that run a command in a pod (PodExec) and the sosreport tools *)
(* (Sosreport).  They share the filter and the window that make an answer  *)
(* of a text, and no other state, so that a behaviour is one of calls to   *)
(* one of the three.  Only a pod's log grows while it is being read.       *)
(***************************************************************************)
EXTENDS PodExec, Sosreport

CONSTANT Texts      \* the outputs and the files that the tools read

ASSUME TextsAssumption ==
    Texts \subseteq Seq(Lines) /\ \A t \in Texts : Len(t) <= MaxLog

VARIABLE family     \* the tools that are called

textVars == <<vars, execVars, sosVars, family>>

TextInit ==
    /\ family \in {"logs", "exec", "sos"}
    /\ IF family = "logs" THEN Init
                          ELSE /\ log \in Texts
                               /\ asked = NoWindow /\ answer = Error /\ enough = FALSE
    /\ ExecInit
    /\ family # "exec" => pod.containers = CHOOSE s \in PodSpecs : TRUE
    /\ SosInit

TextNext ==
    /\ \/ family = "logs" /\ Next /\ UNCHANGED <<execVars, sosVars>>
       \/ family = "exec" /\ ExecNext /\ UNCHANGED sosVars
       \/ family = "sos" /\ SosNext /\ UNCHANGED execVars
    /\ UNCHANGED family

TextSpec == TextInit /\ [][TextNext]_textVars

-----------------------------------------------------------------------------

\* Type invariant of the three kinds of tools.
TextTypeOK ==
    /\ family \in {"logs", "exec", "sos"}
    /\ TypeOK /\ ExecTypeOK /\ SosTypeOK
=============================================================================
