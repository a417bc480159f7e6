---------------------------- MODULE OvsdbExtract ----------------------------
(***************************************************************************)
(* pkg/must-gather/ovsdb-tool: the first listing of a must-gather's OVN    *)
(* databases unpacks ovnk_database_store.tar.gz next to it; later listings *)
(* and all queries use the unpacked directory.  No lock protects the       *)
(* directory, and its existence is what says that it is complete.          *)
(*                                                                         *)
(* Calls interleave between the system calls that read or change the       *)
(* directory.                                                              *)
(***************************************************************************)
EXTENDS Naturals, Sequences

CONSTANTS Callers,     \* clients with at most one call under way
          Files,       \* database files of the archive
          Northbound, Southbound,  \* files named ..._nbdb and ..._sbdb
          Assigned,    \* files whose pod is listed and has a node
          Archive,     \* the tar file's entries, in order
          Dir,         \* a directory entry of the tar file
          NoCaller,
          Stores       \* what may be at the store's path at first

ASSUME ArchiveAssumption ==
    /\ Dir \notin Files
    /\ Archive \in Seq(Files \cup {Dir})
    /\ \A f \in Files : \E i \in DOMAIN Archive : Archive[i] = f
    /\ Northbound \subseteq Files /\ Southbound \subseteq Files
    /\ Assigned \subseteq Files

ASSUME CallersAssumption ==
    /\ NoCaller \notin Callers
    /\ Stores \subseteq {"none", "file"}

VARIABLES pc,        \* where each caller's call is
          task,      \* "nb", "sb", or the file to query
          entry,     \* the tar entry an extracting call is at
          answer,    \* what the caller's last call returned
          store,     \* what is at the store's path
          content,   \* the files in the store's directory
          truncator, \* who opened a file last (O_TRUNC), and writes it
          interrupted, \* history: an extraction or removal stopped half-way
          alone        \* history: nobody else extracted during the call

callVars  == <<pc, task, entry, answer>>
storeVars == <<store, content, truncator, interrupted>>
vars      == <<callVars, storeVars, alone>>

Locations == {"idle", "checking", "removing", "extracting", "writing",
              "listing", "querying"}
Tasks     == {"nb", "sb"} \cup Northbound \cup Southbound
Contents  == {"absent", "partial", "full"}

\* What a call returns: the files a listing names, or the content of the file
\* a query has read.
Answers == [kind : {"none", "error", "list", "query"},
            files : SUBSET Files, read : Contents]

NoAnswer      == [kind |-> "none", files |-> {}, read |-> "absent"]
Failure       == [NoAnswer EXCEPT !.kind = "error"]
Listing(fs)   == [NoAnswer EXCEPT !.kind = "list", !.files = fs]
QueryResult(r) == [NoAnswer EXCEPT !.kind = "query", !.read = r]

\* The files a listing is about.
Wanted(t) == IF t = "nb" THEN Northbound ELSE Southbound

Init ==
    /\ pc = [c \in Callers |-> "idle"]
    /\ task = [c \in Callers |-> "nb"]
    /\ entry = [c \in Callers |-> 1]
    /\ answer = [c \in Callers |-> NoAnswer]
    /\ store \in Stores
    /\ content = [f \in Files |-> "absent"]
    /\ truncator = [f \in Files |-> NoCaller]
    /\ interrupted = FALSE
    /\ alone = [c \in Callers |-> TRUE]

-----------------------------------------------------------------------------

Goto(c, loc) == pc' = [pc EXCEPT ![c] = loc]

Return(c, ans) ==
    /\ Goto(c, "idle")
    /\ answer' = [answer EXCEPT ![c] = ans]

\* A call of ListNorthboundDatabases, ListSouthboundDatabases or QueryDatabase.
Ask(c) ==
    /\ pc[c] = "idle"
    /\ \E t \in Tasks :
         /\ task' = [task EXCEPT ![c] = t]
         /\ Goto(c, IF t \in {"nb", "sb"} THEN "checking" ELSE "querying")
    /\ answer' = [answer EXCEPT ![c] = NoAnswer]
    /\ entry' = [entry EXCEPT ![c] = 1]
    /\ UNCHANGED storeVars

\* Mutant of Check: an unpacked directory is unpacked again.
CheckAlwaysExtracts(c) ==
    /\ pc[c] = "checking"
    /\ Goto(c, IF store = "file" THEN "removing" ELSE "extracting")
    /\ UNCHANGED <<task, entry, answer, storeVars>>

\* extractOvnDatabases stats the store: a directory is taken to be complete,
\* a file is removed, and otherwise the tar file is opened.
Check(c) ==
    /\ pc[c] = "checking"
    /\ Goto(c, CASE store = "dir"  -> "listing"
                 [] store = "file" -> "removing"
                 [] store = "none" -> "extracting")
    /\ UNCHANGED <<task, entry, answer, storeVars>>

\* os.RemoveAll of what was a file when it was statted.
RemoveAll(c) ==
    /\ pc[c] = "removing"
    /\ store' = "none"
    /\ content' = [f \in Files |-> "absent"]
    /\ truncator' = [f \in Files |-> NoCaller]
    /\ Goto(c, "extracting")
    /\ UNCHANGED <<task, entry, answer, interrupted>>

\* os.RemoveAll fails: some of what is there by now may be removed.
RemoveAllFails(c) ==
    /\ pc[c] = "removing"
    /\ \E kept \in SUBSET Files :
         /\ content' = [f \in Files |-> IF f \in kept THEN content[f]
                                                     ELSE "absent"]
         /\ truncator' = [f \in Files |-> IF f \in kept THEN truncator[f]
                                                       ELSE NoCaller]
    /\ interrupted' = TRUE
    /\ Return(c, Failure)
    /\ UNCHANGED <<task, entry, store>>

\* A directory entry of the tar file.
MakeDir(c) ==
    /\ pc[c] = "extracting"
    /\ entry[c] \in DOMAIN Archive
    /\ Archive[entry[c]] = Dir
    /\ store' = "dir"
    /\ entry' = [entry EXCEPT ![c] = @ + 1]
    /\ UNCHANGED <<pc, task, answer, content, truncator, interrupted>>

\* A file entry: its directory is made, and the file is opened with O_TRUNC.
OpenFile(c) ==
    /\ pc[c] = "extracting"
    /\ entry[c] \in DOMAIN Archive
    /\ Archive[entry[c]] # Dir
    /\ store' = "dir"
    /\ content' = [content EXCEPT ![Archive[entry[c]]] = "partial"]
    /\ truncator' = [truncator EXCEPT ![Archive[entry[c]]] = c]
    /\ Goto(c, "writing")
    /\ UNCHANGED <<task, entry, answer, interrupted>>

\* Mutant of CopyFile: the entry is opened again and never gets whole.
CopyFileRetries(c) ==
    /\ pc[c] = "writing"
    /\ Goto(c, "extracting")
    /\ UNCHANGED <<task, entry, answer, storeVars>>

\* io.Copy ends.  The file is whole if this call was the last to truncate it;
\* another call that truncated it since has still to write its beginning, and
\* a file removed since is not reached any more.
CopyFile(c) ==
    /\ pc[c] = "writing"
    /\ content' = [content EXCEPT ![Archive[entry[c]]] =
                     IF truncator[Archive[entry[c]]] = c THEN "full" ELSE @]
    /\ entry' = [entry EXCEPT ![c] = @ + 1]
    /\ Goto(c, "extracting")
    /\ UNCHANGED <<task, answer, store, truncator, interrupted>>

\* Mutant of EndOfArchive: the loop ends before the last entry.
EndOfArchiveEarly(c) ==
    /\ pc[c] = "extracting"
    /\ entry[c] >= Len(Archive)
    /\ Goto(c, "listing")
    /\ UNCHANGED <<task, entry, answer, storeVars>>

\* Mutant of EndOfArchive: the entry counter runs past the end.
EndOfArchiveRunsOn(c) ==
    /\ pc[c] = "extracting"
    /\ entry[c] > Len(Archive)
    /\ Goto(c, "listing")
    /\ entry' = [entry EXCEPT ![c] = @ + 1]
    /\ UNCHANGED <<task, answer, storeVars>>

\* io.EOF: the call goes on to list the directory.
EndOfArchive(c) ==
    /\ pc[c] = "extracting"
    /\ entry[c] > Len(Archive)
    /\ Goto(c, "listing")
    /\ UNCHANGED <<task, entry, answer, storeVars>>

\* A read or write error, or the end of the process, stops the extraction.
\* What is there of the directory stays.
Interrupt(c) ==
    /\ pc[c] \in {"extracting", "writing"}
    /\ Return(c, Failure)
    /\ interrupted' = TRUE
    /\ UNCHANGED <<task, entry, store, content, truncator>>

\* Mutant of List: the two kinds of databases are mixed up.
ListAnyKind(c) ==
    /\ pc[c] = "listing"
    /\ LET found == {f \in Files : content[f] # "absent"}
       IN Return(c, IF store # "dir" \/ found = {}
                      THEN Failure
                      ELSE Listing(found \cap Assigned))
    /\ UNCHANGED <<task, entry, storeVars>>

\* listOvnDatabases reads the directory and getDatabaseToNodeMapping pairs
\* the files with the pods omc lists.  No files is an error; a file whose pod
\* is unknown or has no node is left out.
List(c) ==
    /\ pc[c] = "listing"
    /\ LET found == {f \in Wanted(task[c]) : content[f] # "absent"}
       IN Return(c, IF store # "dir" \/ found = {}
                      THEN Failure
                      ELSE Listing(found \cap Assigned))
    /\ UNCHANGED <<task, entry, storeVars>>

\* Mutant of Query: the file's existence is not checked.
QueryAnyFile(c) ==
    /\ pc[c] = "querying"
    /\ Return(c, QueryResult(content[task[c]]))
    /\ UNCHANGED <<task, entry, storeVars>>

\* QueryDatabase: a file that exists is given to ovsdb-tool.
Query(c) ==
    /\ pc[c] = "querying"
    /\ LET f == task[c]
       IN Return(c, IF content[f] = "absent" THEN Failure
                                             ELSE QueryResult(content[f]))
    /\ UNCHANGED <<task, entry, storeVars>>

\* The call fails without having touched the store.
Fail(c) ==
    /\ Return(c, Failure)
    /\ UNCHANGED <<task, entry, storeVars>>

\* The path is no must-gather with one directory of network logs, the directory
\* is not writable, or there is no tar file to open.
CheckFails(c) == pc[c] = "checking" /\ Fail(c)

\* The directory cannot be read, or omc does not list the pods.
ListFails(c) == pc[c] = "listing" /\ Fail(c)

\* A condition is no JSON, the table or the database has no valid name, or
\* ovsdb-tool fails.
QueryFails(c) == pc[c] = "querying" /\ Fail(c)

Step(c) ==
    \/ Check(c) \/ RemoveAll(c) \/ MakeDir(c) \/ OpenFile(c) \/ CopyFile(c)
    \/ EndOfArchive(c) \/ List(c) \/ Query(c)

Extracting(c) == pc[c] \in {"removing", "extracting", "writing"}

\* Keeps the history: whether another call extracts while a call is served.
Watch ==
    alone' = [c \in Callers |->
                IF pc[c] = "idle" /\ pc'[c] = "idle"
                  THEN alone[c]
                  ELSE /\ pc[c] = "idle" \/ alone[c]
                       /\ \A d \in Callers \ {c} : ~Extracting(d)']

Next ==
    \E c \in Callers :
        /\ \/ Ask(c) \/ Step(c) \/ Interrupt(c)
           \/ CheckFails(c) \/ RemoveAllFails(c) \/ ListFails(c) \/ QueryFails(c)
        /\ Watch

Spec == Init /\ [][Next]_vars

\* The goroutine of a call that was asked runs on.
Fairness == \A c \in Callers : WF_vars(Step(c) /\ Watch)

FairSpec == Spec /\ Fairness

-----------------------------------------------------------------------------

\* Type invariant of the calls and of the store on disk.
TypeOK ==
    /\ pc \in [Callers -> Locations]
    /\ task \in [Callers -> Tasks]
    /\ entry \in [Callers -> 1 .. Len(Archive) + 1]
    /\ answer \in [Callers -> Answers]
    /\ store \in {"none", "file", "dir"}
    /\ content \in [Files -> Contents]
    /\ truncator \in [Files -> Callers \cup {NoCaller}]
    /\ interrupted \in BOOLEAN
    /\ alone \in [Callers -> BOOLEAN]

Extracted == store = "dir" /\ \A c \in Callers : ~Extracting(c)
Whole     == \A f \in Files : content[f] = "full"

\* Once nobody extracts any more, an unpacked store is the whole archive if no
\* extraction was interrupted: calls that unpack it at the same time truncate,
\* remove and rewrite each other's files, and the last to finish leaves every
\* file whole.
SettledComplete == (Extracted /\ ~interrupted) => Whole

\* What the tool description says: "List OVN Northbound database files
\* available in a must-gather archive" (pkg/must-gather/mcp/mcp.go).  A
\* listing that succeeds names every database of its kind that has a node.
ListComplete ==
    \A c \in Callers :
        answer[c].kind = "list" =>
            answer[c].files = Wanted(task[c]) \cap Assigned

\* A listing is complete if nobody else was extracting while it was served and
\* no extraction was ever interrupted: then the directory that
\* extractOvnDatabases finds is a finished one.
ListCompleteAlone ==
    \A c \in Callers :
        (answer[c].kind = "list" /\ alone[c] /\ ~interrupted) =>
            answer[c].files = Wanted(task[c]) \cap Assigned

\* Under the same conditions a query, which never extracts and looks only for
\* its file, is answered from a file that is whole.
QueryWhole ==
    \A c \in Callers :
        (answer[c].kind = "query" /\ alone[c] /\ ~interrupted) =>
            answer[c].read = "full"

\* Once the store is whole and at rest, no later call truncates, removes or
\* rewrites any of its files (the check for the directory in
\* extractOvnDatabases), so that the queries that follow see whole files, even
\* if other extractions were interrupted.
StaysComplete == []((Extracted /\ Whole) => []Whole)

\* A file that was opened for writing becomes whole, if no extraction is
\* interrupted.
PartialHeals ==
    \A f \in Files :
        content[f] = "partial" ~> (content[f] = "full" \/ interrupted)
=============================================================================
