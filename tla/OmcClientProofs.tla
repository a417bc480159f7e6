-------------------------- MODULE OmcClientProofs ---------------------------
(***************************************************************************)
(* One server process keeps the promise of ArchiveReads, for any number of *)
(* callers and archives.                                                   *)
(***************************************************************************)
EXTENDS OmcClient, TLAPS

\* Only the holder of its process's mutex is between Lock and Unlock.
HolderInside ==
    \A c \in Callers : pc[c] \in {"locked", "used"} => lock[ProcessOf[c]] = c

\* From omc use to the read, omc works on the holder's archive.
CurrentIsHolders == \A c \in Callers : pc[c] = "used" => current = path[c]

\* A call that was not answered yet has no source.
BusyHasNoSource == \A c \in Callers : pc[c] # "idle" => source[c] = NoArchive

\* A call under way names an archive.
BusyHasPath == \A c \in Callers : pc[c] # "idle" => path[c] \in Archives

\* The inductive invariant behind OwnArchive.
IInv ==
    /\ TypeOK
    /\ HolderInside
    /\ CurrentIsHolders
    /\ BusyHasNoSource
    /\ BusyHasPath
    /\ OwnArchive

-----------------------------------------------------------------------------

\* What get, list, logs and ovnk answer is always one of the known results.
LEMMA AnswerType == \A o, a : Answer(o, a) \in Results
  BY DEF Answer, Results

\* The type invariant does not depend on the number of processes.
LEMMA StepTypeOK == TypeOK /\ [Next]_vars => TypeOK'
<1> SUFFICES ASSUME TypeOK, [Next]_vars PROVE TypeOK'
  OBVIOUS
<1> USE ArchivesAssumption, ProcessesAssumption
    DEF TypeOK, Locations, Operations, Results
<1>1. ASSUME NEW c \in Callers, Ask(c) PROVE TypeOK'
  BY <1>1 DEF Ask
<1>2. ASSUME NEW c \in Callers, Reject(c) \/ Lock(c) \/ Use(c) PROVE TypeOK'
  BY <1>2 DEF Reject, Lock, Use, callVars
<1>3. ASSUME NEW c \in Callers, UseFails(c) PROVE TypeOK'
  BY <1>3 DEF UseFails, Return
<1>4. ASSUME NEW c \in Callers, Read(c) PROVE TypeOK'
  BY <1>4, AnswerType DEF Read, Return
<1>5. ASSUME NEW c \in Callers, ReadFails(c) \/ Expire(c) PROVE TypeOK'
  BY <1>5 DEF ReadFails, Expire, Return
<1>6. CASE UNCHANGED vars
  BY <1>6 DEF vars, callVars
<1> QED BY <1>1, <1>2, <1>3, <1>4, <1>5, <1>6 DEF Next

\* Every variable keeps its type, with any number of processes.
THEOREM TypeCorrect == Spec => []TypeOK
<1>1. Init => TypeOK
  BY DEF Init, TypeOK, Locations, Operations, Results
<1> QED BY <1>1, StepTypeOK, PTL DEF Spec

\* Every step of one process keeps the inductive invariant.
LEMMA StepIInv ==
    ASSUME OneProcess
    PROVE  IInv /\ [Next]_vars => IInv'
<1> SUFFICES ASSUME IInv, [Next]_vars PROVE IInv'
  OBVIOUS
<1>0. TypeOK'
  BY StepTypeOK DEF IInv
<1> USE <1>0, ArchivesAssumption, ProcessesAssumption
    DEF IInv, TypeOK, HolderInside, CurrentIsHolders, BusyHasNoSource,
        BusyHasPath, OwnArchive
<1>1. ASSUME NEW c \in Callers, Ask(c) PROVE IInv'
  BY <1>1 DEF Ask
<1>2. ASSUME NEW c \in Callers, Reject(c) PROVE IInv'
  BY <1>2 DEF Reject
<1>3. ASSUME NEW c \in Callers, Lock(c) PROVE IInv'
  BY <1>3 DEF Lock, callVars
<1>4. ASSUME NEW c \in Callers, Use(c) PROVE IInv'
  BY <1>4 DEF Use, callVars, OneProcess
<1>5. ASSUME NEW c \in Callers, UseFails(c) PROVE IInv'
  BY <1>5 DEF UseFails, Return, OneProcess
<1>6. ASSUME NEW c \in Callers, Read(c) PROVE IInv'
  BY <1>6 DEF Read, Return, OneProcess
<1>7. ASSUME NEW c \in Callers, ReadFails(c) PROVE IInv'
  BY <1>7 DEF ReadFails, Return, OneProcess
<1>8. ASSUME NEW c \in Callers, Expire(c) PROVE IInv'
  BY <1>8 DEF Expire
<1>9. CASE UNCHANGED vars
  BY <1>9 DEF vars, callVars
<1> QED
  BY <1>1, <1>2, <1>3, <1>4, <1>5, <1>6, <1>7, <1>8, <1>9 DEF Next

\* The inductive invariant holds in every state of one process.
LEMMA Invariance ==
    ASSUME OneProcess
    PROVE  Spec => []IInv
<1>1. Init => IInv
  BY DEF Init, IInv, TypeOK, Locations, Operations, Results, HolderInside,
         CurrentIsHolders, BusyHasNoSource, BusyHasPath, OwnArchive
<1> QED BY <1>1, StepIInv, PTL DEF Spec

\* With one server process no call is answered from another call's archive,
\* however the calls interleave and whichever of their omc commands fail.
THEOREM AnswersFromOwnArchive ==
    ASSUME OneProcess
    PROVE  Spec => []OwnArchive
<1>1. IInv => OwnArchive
  BY DEF IInv
<1> QED BY <1>1, Invariance, PTL

\* With one server process the client implements ArchiveReads.
THEOREM OneProcessImplementsReads ==
    ASSUME OneProcess
    PROVE  Spec => ImplementsReads
<1>1. Init => Promise!Init
  BY DEF Init, Promise!Init, Busy
<1>2. IInv /\ [Next]_vars => [Promise!Next]_(Promise!vars)
  <2> SUFFICES ASSUME IInv, [Next]_vars
               PROVE  [Promise!Next]_(Promise!vars)
    OBVIOUS
  <2> USE DEF IInv, TypeOK, Busy
  <2>1. ASSUME NEW c \in Callers, Ask(c) PROVE Promise!Ask(c)
    BY <2>1 DEF Ask, Promise!Ask
  <2>2. ASSUME NEW c \in Callers, Reject(c) PROVE Promise!Fail(c)
    BY <2>2 DEF Reject, Promise!Fail
  <2>3. ASSUME NEW c \in Callers, Lock(c) \/ Use(c) \/ Expire(c)
        PROVE  UNCHANGED Promise!vars
    BY <2>3 DEF Lock, Use, Expire, callVars, Promise!vars
  <2>4. ASSUME NEW c \in Callers, UseFails(c) PROVE Promise!Fail(c)
    BY <2>4 DEF UseFails, Return, Promise!Fail, BusyHasNoSource
  <2>5. ASSUME NEW c \in Callers, ReadFails(c) PROVE Promise!Fail(c)
    BY <2>5 DEF ReadFails, Return, Promise!Fail, BusyHasNoSource
  <2>6. ASSUME NEW c \in Callers, Read(c) PROVE Promise!Serve(c)
    BY <2>6 DEF Read, Return, Promise!Serve, CurrentIsHolders
  <2>7. CASE UNCHANGED vars
    BY <2>7 DEF vars, callVars, Promise!vars
  <2> QED
    BY <2>1, <2>2, <2>3, <2>4, <2>5, <2>6, <2>7 DEF Next, Promise!Next
<1> QED
  BY <1>1, <1>2, Invariance, PTL DEF Spec, ImplementsReads, Promise!Spec
=============================================================================
