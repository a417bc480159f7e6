----------------------------- MODULE OmcClient ------------------------------
(***************************************************************************)
(* pkg/must-gather/omc-client: the must-gather tools run the omc command,  *)
(* which remembers on disk which archive it works on.  A call takes the    *)
(* client's mutex, points omc at its own archive (omc use), reads          *)
(* (omc get / logs / ovnk) and releases the mutex.                         *)
(*                                                                         *)
(* The mutex belongs to one server process; omc's current archive belongs  *)
(* to the user's home directory and is shared by all of that user's        *)
(* processes.  ProcessOf says which process serves a caller.               *)
(***************************************************************************)
CONSTANTS Callers,    \* clients with at most one call under way
          Archives,   \* must-gather directories
          Invalid,    \* the ones ValidateMustGatherPath refuses
          Processes,  \* server processes of one user
          ProcessOf,  \* the process that serves a caller
          NoResources, \* the archives for which omc prints "no resources"
          NoArchive, Free

ASSUME ArchivesAssumption ==
    /\ NoArchive \notin Archives
    /\ Invalid \subseteq Archives
    /\ NoResources \subseteq Archives

ASSUME ProcessesAssumption ==
    /\ ProcessOf \in [Callers -> Processes]
    /\ Free \notin Callers

VARIABLES pc,       \* where each caller's call is
          op,       \* the operation it asks for
          path,     \* its must_gather_path
          expired,  \* its context is done
          result,   \* what it was answered
          source,   \* the archive the answer was read from
          lock,     \* the holder of each process's OmcClient.lock
          current   \* the archive omc works on

callVars == <<op, path, expired, result, source>>
vars == <<pc, callVars, lock, current>>

Operations == {"get", "list", "logs", "ovnk"}
Locations  == {"idle", "waiting", "locked", "used"}
Results    == {"none", "data", "empty", "error"}

Init ==
    /\ pc = [c \in Callers |-> "idle"]
    /\ op = [c \in Callers |-> "get"]
    /\ path = [c \in Callers |-> NoArchive]
    /\ expired = [c \in Callers |-> FALSE]
    /\ result = [c \in Callers |-> "none"]
    /\ source = [c \in Callers |-> NoArchive]
    /\ lock = [s \in Processes |-> Free]
    /\ current \in Archives \cup {NoArchive}

-----------------------------------------------------------------------------

\* The call returns: the deferred Unlock releases the process's mutex.
Return(c, res, from) ==
    /\ pc' = [pc EXCEPT ![c] = "idle"]
    /\ result' = [result EXCEPT ![c] = res]
    /\ source' = [source EXCEPT ![c] = from]
    /\ lock' = [lock EXCEPT ![ProcessOf[c]] = Free]

\* Mutant of Ask: an info type that GetOvnKInfo does not know goes through.
AskAnything(c) ==
    /\ pc[c] = "idle"
    /\ pc' = [pc EXCEPT ![c] = "waiting"]
    /\ \E o \in Operations \cup {"unknown"}, a \in Archives :
         /\ op' = [op EXCEPT ![c] = o]
         /\ path' = [path EXCEPT ![c] = a]
    /\ expired' = [expired EXCEPT ![c] = FALSE]
    /\ result' = [result EXCEPT ![c] = "none"]
    /\ source' = [source EXCEPT ![c] = NoArchive]
    /\ UNCHANGED <<lock, current>>

\* A call arrives.
Ask(c) ==
    /\ pc[c] = "idle"
    /\ pc' = [pc EXCEPT ![c] = "waiting"]
    /\ \E o \in Operations, a \in Archives :
         /\ op' = [op EXCEPT ![c] = o]
         /\ path' = [path EXCEPT ![c] = a]
    /\ expired' = [expired EXCEPT ![c] = FALSE]
    /\ result' = [result EXCEPT ![c] = "none"]
    /\ source' = [source EXCEPT ![c] = NoArchive]
    /\ UNCHANGED <<lock, current>>

\* A name, a selector or the info type is not valid: the call returns before
\* it asks for the lock.
Reject(c) ==
    /\ pc[c] = "waiting"
    /\ pc' = [pc EXCEPT ![c] = "idle"]
    /\ result' = [result EXCEPT ![c] = "error"]
    /\ UNCHANGED <<op, path, expired, source, lock, current>>

\* Mutant of Lock: the mutex does not exclude.
LockNoWait(c) ==
    /\ pc[c] = "waiting"
    /\ lock' = [lock EXCEPT ![ProcessOf[c]] = c]
    /\ pc' = [pc EXCEPT ![c] = "locked"]
    /\ UNCHANGED <<callVars, current>>

\* sync.Mutex: Lock does not look at the call's context.
Lock(c) ==
    /\ pc[c] = "waiting"
    /\ lock[ProcessOf[c]] = Free
    /\ lock' = [lock EXCEPT ![ProcessOf[c]] = c]
    /\ pc' = [pc EXCEPT ![c] = "locked"]
    /\ UNCHANGED <<callVars, current>>

\* useMustGather succeeds.
Use(c) ==
    /\ pc[c] = "locked"
    /\ ~expired[c]
    /\ path[c] \notin Invalid
    /\ current' = path[c]
    /\ pc' = [pc EXCEPT ![c] = "used"]
    /\ UNCHANGED <<callVars, lock>>

\* Mutant of UseFails: the error path returns without the Unlock.
UseFailsKeepsLock(c) ==
    /\ pc[c] = "locked"
    /\ pc' = [pc EXCEPT ![c] = "idle"]
    /\ result' = [result EXCEPT ![c] = "error"]
    /\ UNCHANGED <<op, path, expired, source, lock, current>>

\* useMustGather fails: the path is not an archive's, the context is done, or
\* omc exits with an error, before or after it has written the new archive.
UseFails(c) ==
    /\ pc[c] = "locked"
    /\ current' \in IF path[c] \in Invalid THEN {current}
                                           ELSE {current, path[c]}
    /\ Return(c, "error", NoArchive)
    /\ UNCHANGED <<op, path, expired>>

\* What the client makes of omc's output about archive a.  The words "no
\* resources" anywhere in the output, in any case, mean "not found" to get
\* and "none" to list, whether omc says so or the object's own text does; logs
\* and ovnk return the output as it is.
Answer(o, a) ==
    CASE o = "get" /\ a \in NoResources -> "error"
      [] o = "list" /\ a \in NoResources -> "empty"
      [] OTHER -> "data"

\* Mutant of Read: the output is answered, and the call goes on.
ReadGoesOn(c) ==
    /\ pc[c] = "used"
    /\ ~expired[c]
    /\ result' = [result EXCEPT ![c] = Answer(op[c], current)]
    /\ source' = [source EXCEPT ![c] = current]
    /\ UNCHANGED <<pc, op, path, expired, lock, current>>

\* omc reads its current archive and the call returns.
Read(c) ==
    /\ pc[c] = "used"
    /\ ~expired[c]
    /\ Return(c, Answer(op[c], current), current)
    /\ UNCHANGED <<op, path, expired, current>>

\* omc exits with an error or is killed when the context is done.
ReadFails(c) ==
    /\ pc[c] = "used"
    /\ Return(c, "error", NoArchive)
    /\ UNCHANGED <<op, path, expired, current>>

\* The deadline of the call passes, or its client cancels it.
Expire(c) ==
    /\ pc[c] # "idle"
    /\ ~expired[c]
    /\ expired' = [expired EXCEPT ![c] = TRUE]
    /\ UNCHANGED <<pc, op, path, result, source, lock, current>>

Next ==
    \E c \in Callers :
        \/ Ask(c) \/ Reject(c) \/ Lock(c) \/ Use(c) \/ UseFails(c)
        \/ Read(c) \/ ReadFails(c) \/ Expire(c)

Spec == Init /\ [][Next]_vars

\* Deadlines pass, a command whose context is done is killed and returns, and
\* sync.Mutex hands itself to every goroutine that keeps waiting for it (its
\* starvation mode), which is strong fairness of Lock.
Fairness ==
    \A c \in Callers :
        /\ WF_vars(Expire(c))
        /\ SF_vars(Lock(c))
        /\ WF_vars(expired[c] /\ UseFails(c))
        /\ WF_vars(expired[c] /\ ReadFails(c))

FairSpec == Spec /\ Fairness

-----------------------------------------------------------------------------

\* One process serves all callers.
OneProcess == \A c, d \in Callers : ProcessOf[c] = ProcessOf[d]

\* The calls being served, as ArchiveReads sees them.
Busy == {c \in Callers : pc[c] # "idle"}

Promise == INSTANCE ArchiveReads WITH busy <- Busy

\* Type invariant of the client, its callers and omc's state.
TypeOK ==
    /\ pc \in [Callers -> Locations]
    /\ op \in [Callers -> Operations]
    /\ path \in [Callers -> Archives \cup {NoArchive}]
    /\ expired \in [Callers -> BOOLEAN]
    /\ result \in [Callers -> Results]
    /\ source \in [Callers -> Archives \cup {NoArchive}]
    /\ lock \in [Processes -> Callers \cup {Free}]
    /\ current \in Archives \cup {NoArchive}

\* Every answer comes from the archive its caller named, although omc knows
\* only one current archive (the mutex covers omc use and the read).
OwnArchive == \A c \in Callers : source[c] \in {NoArchive, path[c]}

\* The client implements ArchiveReads: what happens between a call and its
\* answer is invisible, and no answer is given twice.
ImplementsReads == Promise!Spec

\* Every call returns when every call has a deadline, although a call that
\* waits for the mutex does not see its own deadline pass: nobody keeps the
\* mutex, and nobody is starved by later calls.
CallsReturn == \A c \in Callers : pc[c] = "waiting" ~> pc[c] = "idle"
=============================================================================
