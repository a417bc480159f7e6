------------------------- MODULE OvsdbExtractProofs --------------------------
(***************************************************************************)
(* Overlapping extractions, for any archive and any number of calls.       *)
(*                                                                         *)
(* That a store at rest is whole says nothing of the states in between,    *)
(* where calls truncate and remove each other's files.  The invariant      *)
(* follows every file that is not whole to a call that will still write it.*)
(***************************************************************************)
EXTENDS OvsdbExtract, TLAPS

\* Call c comes, or comes again, to file f, or is the one that completes it.
WillWrite(c, f) ==
    \/ pc[c] = "removing"
    \/ /\ pc[c] = "extracting"
       /\ \E i \in DOMAIN Archive : entry[c] <= i /\ Archive[i] = f
    \/ /\ pc[c] = "writing"
       /\ \/ Archive[entry[c]] = f /\ truncator[f] = c
          \/ \E i \in DOMAIN Archive : entry[c] < i /\ Archive[i] = f

\* A file that is not whole will be written, unless the store has not been
\* unpacked at all.
Healing ==
    ~interrupted =>
        \A f \in Files :
            \/ content[f] = "full"
            \/ \E c \in Callers : WillWrite(c, f)
            \/ store # "dir" /\ \A c \in Callers : ~Extracting(c)

\* Where calls are in the archive.
EntryFits ==
    \A c \in Callers :
        /\ pc[c] \in {"checking", "removing"} => entry[c] = 1
        /\ pc[c] = "writing" => entry[c] \in DOMAIN Archive /\ Archive[entry[c]] \in Files
        /\ pc[c] = "querying" => task[c] \in Files

\* Without the directory there are no files, and a call that was writing one when
\* it was removed does not bring it back.
NoDirNoFiles ==
    store # "dir" => \A f \in Files : content[f] = "absent" /\ truncator[f] = NoCaller

\* A call has an answer when it is over.
AnswerWhenIdle == \A c \in Callers : pc[c] # "idle" => answer[c].kind = "none"

\* The inductive strengthening of SettledComplete, ListCompleteAlone and
\* QueryWhole.
IInv ==
    /\ TypeOK
    /\ EntryFits
    /\ NoDirNoFiles
    /\ Healing
    /\ AnswerWhenIdle
    /\ ListCompleteAlone
    /\ QueryWhole

-----------------------------------------------------------------------------

\* The answers that calls return, and what they are made of.
LEMMA AnswerFields ==
    /\ NoAnswer \in Answers /\ NoAnswer.kind = "none"
    /\ Failure \in Answers /\ Failure.kind = "error"
    /\ \A fs \in SUBSET Files :
         /\ Listing(fs) \in Answers
         /\ Listing(fs).kind = "list" /\ Listing(fs).files = fs
    /\ \A r \in Contents :
         /\ QueryResult(r) \in Answers
         /\ QueryResult(r).kind = "query" /\ QueryResult(r).read = r
  BY DEF NoAnswer, Failure, Listing, QueryResult, Answers, Contents

\* A call that starts at the first entry will write every file.
LEMMA EveryFileHasAnEntry ==
    ASSUME NEW f \in Files
    PROVE  \E i \in DOMAIN Archive : 1 <= i /\ Archive[i] = f
  BY ArchiveAssumption

\* When nobody else extracts and the archive was never interrupted, a store that
\* is there is whole.
LEMMA RestIsWhole ==
    ASSUME IInv, ~interrupted, store = "dir", \A c \in Callers : ~Extracting(c)
    PROVE  Whole
  BY DEF IInv, Healing, WillWrite, Extracting, Whole

\* The inductive invariant holds initially.
LEMMA InitIInv == Init => IInv
<1> SUFFICES ASSUME Init PROVE IInv
  OBVIOUS
<1>1. 1 \in 1 .. Len(Archive) + 1
  BY ArchiveAssumption
<1>2. TypeOK
  BY <1>1, AnswerFields, CallersAssumption DEF Init, TypeOK, Locations, Tasks, Contents
<1>3. \A c \in Callers : pc[c] = "idle" /\ answer[c].kind = "none"
  BY AnswerFields DEF Init
<1>4. store # "dir"
  BY CallersAssumption DEF Init
<1> QED BY <1>2, <1>3, <1>4 DEF Init, IInv, EntryFits, NoDirNoFiles, Healing, Extracting,
        AnswerWhenIdle, ListCompleteAlone, QueryWhole

\* Watch keeps alone a function to Booleans; for the call that takes the step it
\* says that nobody else extracts.
LEMMA WatchAlone ==
    ASSUME IInv, Watch
    PROVE  /\ alone' \in [Callers -> BOOLEAN]
           /\ \A c \in Callers : (pc[c] = "idle" /\ pc'[c] = "idle") => alone'[c] = alone[c]
           /\ \A c \in Callers :
                (pc[c] # "idle" /\ alone'[c]) => \A d \in Callers \ {c} : ~Extracting(d)'
  BY DEF Watch, IInv, TypeOK

-----------------------------------------------------------------------------
(* One lemma for each part of the invariant. *)

\* The actions of a call, without the history.
Act(c) ==
    \/ Ask(c) \/ Step(c) \/ Interrupt(c)
    \/ CheckFails(c) \/ RemoveAllFails(c) \/ ListFails(c) \/ QueryFails(c)

\* Every step keeps the types.
LEMMA StepTypeOK ==
    ASSUME IInv, NEW c \in Callers, Act(c), Watch
    PROVE  TypeOK'
<1> USE ArchiveAssumption, CallersAssumption, AnswerFields
    DEF IInv, TypeOK, EntryFits, Return, Goto, storeVars
<1>0. alone' \in [Callers -> BOOLEAN]
  BY WatchAlone
<1>1. CASE Ask(c)
  BY <1>0, <1>1 DEF Ask, Tasks, Locations
<1>2. CASE Check(c)
  BY <1>0, <1>2 DEF Check, Locations
<1>3. CASE RemoveAll(c)
  BY <1>0, <1>3 DEF RemoveAll, Locations, Contents
<1>4. CASE MakeDir(c)
  BY <1>0, <1>4 DEF MakeDir, Locations
<1>5. CASE OpenFile(c)
  BY <1>0, <1>5 DEF OpenFile, Locations, Contents
<1>6. CASE CopyFile(c)
  BY <1>0, <1>6 DEF CopyFile, Locations, Contents
<1>7. CASE EndOfArchive(c)
  BY <1>0, <1>7 DEF EndOfArchive, Locations
<1>8. CASE List(c)
  <2>1. {f \in Wanted(task[c]) : content[f] # "absent"} \cap Assigned \in SUBSET Files
    BY DEF Wanted
  <2> QED BY <1>0, <1>8, <2>1 DEF List, Locations
<1>9. CASE Query(c)
  <2>1. content[task[c]] \in Contents
    BY <1>9 DEF Query
  <2> QED BY <1>0, <1>9, <2>1 DEF Query, Locations
<1>10. CASE Interrupt(c)
  BY <1>0, <1>10 DEF Interrupt, Locations
<1>11. CASE RemoveAllFails(c)
  BY <1>0, <1>11 DEF RemoveAllFails, Locations, Contents
<1>12. CASE CheckFails(c) \/ ListFails(c) \/ QueryFails(c)
  <2>1. Fail(c)
    BY <1>12 DEF CheckFails, ListFails, QueryFails
  <2> QED BY <1>0, <2>1 DEF Fail, Locations
<1> QED BY <1>1, <1>2, <1>3, <1>4, <1>5, <1>6, <1>7, <1>8, <1>9, <1>10, <1>11, <1>12
        DEF Act, Step

\* Every step keeps calls at their place in the archive, files in the directory,
\* and answers for calls that are over.
LEMMA StepPlaces ==
    ASSUME IInv, NEW c \in Callers, Act(c)
    PROVE  (EntryFits /\ NoDirNoFiles /\ AnswerWhenIdle)'
<1> USE ArchiveAssumption, AnswerFields
    DEF IInv, TypeOK, EntryFits, NoDirNoFiles, AnswerWhenIdle, Return, Goto, storeVars
<1>1. CASE Ask(c)
  BY <1>1 DEF Ask, Tasks
<1>2. CASE Check(c)
  BY <1>2 DEF Check
<1>3. CASE RemoveAll(c)
  BY <1>3 DEF RemoveAll
<1>4. CASE MakeDir(c)
  BY <1>4 DEF MakeDir
<1>5. CASE OpenFile(c)
  BY <1>5 DEF OpenFile
<1>6. CASE CopyFile(c)
  <2>1. /\ pc[c] = "writing" /\ pc' = [pc EXCEPT ![c] = "extracting"]
        /\ UNCHANGED <<task, answer, store>>
        /\ \A d \in Callers \ {c} : entry'[d] = entry[d]
    BY <1>6 DEF CopyFile
  <2>2. NoDirNoFiles'
    BY <1>6, CallersAssumption DEF CopyFile
  <2>3. AnswerWhenIdle'
    BY <2>1
  <2>4. EntryFits'
    BY <2>1
  <2> QED BY <2>2, <2>3, <2>4
<1>7. CASE EndOfArchive(c)
  BY <1>7 DEF EndOfArchive
<1>8. CASE List(c) \/ Query(c)
  <2>1. /\ pc' = [pc EXCEPT ![c] = "idle"]
        /\ answer' = [answer EXCEPT ![c] = answer'[c]]
        /\ UNCHANGED <<task, entry, store, content, truncator>>
    BY <1>8 DEF List, Query
  <2> QED BY <2>1
<1>9. CASE Interrupt(c)
  BY <1>9 DEF Interrupt
<1>10. CASE RemoveAllFails(c)
  <2>1. /\ pc' = [pc EXCEPT ![c] = "idle"]
        /\ answer' = [answer EXCEPT ![c] = Failure]
        /\ UNCHANGED <<task, entry, store>>
    BY <1>10 DEF RemoveAllFails
  <2>2. NoDirNoFiles'
    BY <1>10 DEF RemoveAllFails
  <2>3. AnswerWhenIdle'
    BY <2>1
  <2>4. EntryFits'
    BY <2>1
  <2> QED BY <2>2, <2>3, <2>4
<1>11. CASE CheckFails(c) \/ ListFails(c) \/ QueryFails(c)
  <2>1. Fail(c)
    BY <1>11 DEF CheckFails, ListFails, QueryFails
  <2> QED BY <2>1 DEF Fail
<1> QED BY <1>1, <1>2, <1>3, <1>4, <1>5, <1>6, <1>7, <1>8, <1>9, <1>10, <1>11
        DEF Act, Step

\* Every step leaves a file whole or leaves a call that will write it: a call
\* that truncates a file takes over from the one it disturbs, a call that removes
\* the files starts from the first entry, and only the last to truncate a file
\* makes it whole.
LEMMA StepHealing ==
    ASSUME IInv, NEW c \in Callers, Act(c)
    PROVE  Healing'
<1> SUFFICES ASSUME ~interrupted', NEW f \in Files
             PROVE  (\/ content[f] = "full"
                     \/ \E d \in Callers : WillWrite(d, f)
                     \/ store # "dir" /\ \A d \in Callers : ~Extracting(d))'
  BY DEF Healing
<1> USE DEF Goto, storeVars
<1>0. TypeOK /\ EntryFits
  BY DEF IInv
<1>1. CASE UNCHANGED storeVars /\ ~Extracting(c) /\ ~Extracting(c)'
             /\ pc' = [pc EXCEPT ![c] = pc'[c]] /\ entry' = [entry EXCEPT ![c] = entry'[c]]
  <2>1. \A d \in Callers : /\ WillWrite(d, f) => WillWrite(d, f)'
                           /\ ~Extracting(d) => ~Extracting(d)'
    BY <1>0, <1>1 DEF WillWrite, Extracting, TypeOK
  <2> QED BY <1>1, <2>1 DEF IInv, Healing
<1>2. ASSUME pc'[c] \in {"removing", "extracting"}, entry'[c] = 1
      PROVE  WillWrite(c, f)'
  BY <1>2, EveryFileHasAnEntry DEF WillWrite
<1>3. CASE Ask(c)
  BY <1>0, <1>1, <1>3 DEF Ask, Extracting, TypeOK
<1>4. CASE Check(c)
  <2>1. CASE store = "dir"
    BY <1>0, <1>1, <1>4, <2>1 DEF Check, Extracting, TypeOK
  <2>2. CASE store # "dir"
    BY <1>0, <1>2, <1>4, <2>2 DEF Check, TypeOK, EntryFits
  <2> QED BY <2>1, <2>2
<1>5. CASE RemoveAll(c)
  BY <1>0, <1>2, <1>5 DEF RemoveAll, TypeOK, EntryFits
<1>6. ASSUME Extracting(c), ~interrupted
      PROVE  content[f] = "full" \/ \E d \in Callers : WillWrite(d, f)
  BY <1>6 DEF IInv, Healing
<1>7. CASE MakeDir(c)
  <2>1. content[f] = "full" \/ \E d \in Callers : WillWrite(d, f)
    BY <1>6, <1>7 DEF MakeDir, Extracting
  <2>2. \A d \in Callers : WillWrite(d, f) => WillWrite(d, f)'
    BY <1>0, <1>7, ArchiveAssumption DEF MakeDir, WillWrite, TypeOK
  <2> QED BY <1>7, <2>1, <2>2 DEF MakeDir
<1>8. CASE OpenFile(c)
  <2>1. content[f] = "full" \/ \E d \in Callers : WillWrite(d, f)
    BY <1>6, <1>8 DEF OpenFile, Extracting
  <2>2. CASE Archive[entry[c]] = f
    <3>1. WillWrite(c, f)'
      BY <1>0, <1>8, <2>2 DEF OpenFile, WillWrite, TypeOK
    <3> QED BY <3>1
  <2>3. CASE Archive[entry[c]] # f
    <3>1. content'[f] = content[f] /\ truncator'[f] = truncator[f]
      BY <1>0, <1>8, <2>3 DEF OpenFile, TypeOK
    <3>2. WillWrite(c, f) => WillWrite(c, f)'
      BY <1>0, <1>8, <2>3, ArchiveAssumption DEF OpenFile, WillWrite, TypeOK
    <3>3. \A d \in Callers \ {c} : WillWrite(d, f) => WillWrite(d, f)'
      BY <1>0, <1>8, <3>1 DEF OpenFile, WillWrite, TypeOK
    <3> QED BY <2>1, <3>1, <3>2, <3>3
  <2> QED BY <2>2, <2>3
<1>9. CASE CopyFile(c)
  <2>1. content[f] = "full" \/ \E d \in Callers : WillWrite(d, f)
    BY <1>6, <1>9 DEF CopyFile, Extracting
  <2>2. content[f] = "full" => content'[f] = "full"
    BY <1>0, <1>9 DEF CopyFile, TypeOK
  <2>3. \A d \in Callers \ {c} : WillWrite(d, f) => WillWrite(d, f)'
    BY <1>0, <1>9 DEF CopyFile, WillWrite, TypeOK
  <2>4. WillWrite(c, f) => WillWrite(c, f)' \/ content'[f] = "full"
    <3>1. CASE Archive[entry[c]] = f /\ truncator[f] = c
      BY <1>0, <1>9, <3>1 DEF CopyFile, TypeOK
    <3>2. ASSUME NEW i \in DOMAIN Archive, entry[c] < i, Archive[i] = f
          PROVE  WillWrite(c, f)'
      <4>1. pc'[c] = "extracting" /\ entry'[c] = entry[c] + 1
        BY <1>0, <1>9 DEF CopyFile, TypeOK
      <4>2. entry'[c] <= i
        BY <1>0, <3>2, <4>1, ArchiveAssumption DEF TypeOK
      <4> QED BY <3>2, <4>1, <4>2 DEF WillWrite
    <3> QED BY <1>9, <3>1, <3>2 DEF CopyFile, WillWrite
  <2> QED BY <2>1, <2>2, <2>3, <2>4
<1>10. CASE EndOfArchive(c)
  <2>1. content[f] = "full" \/ \E d \in Callers : WillWrite(d, f)
    BY <1>6, <1>10 DEF EndOfArchive, Extracting
  <2>2. ~WillWrite(c, f)
    BY <1>0, <1>10, ArchiveAssumption DEF EndOfArchive, WillWrite, TypeOK
  <2>3. \A d \in Callers \ {c} : WillWrite(d, f) => WillWrite(d, f)'
    BY <1>0, <1>10 DEF EndOfArchive, WillWrite, TypeOK
  <2> QED BY <1>10, <2>1, <2>2, <2>3 DEF EndOfArchive
<1>11. CASE List(c) \/ Query(c) \/ CheckFails(c) \/ ListFails(c) \/ QueryFails(c)
  BY <1>0, <1>1, <1>11
  DEF List, Query, CheckFails, ListFails, QueryFails, Fail, Return, Extracting, TypeOK
<1>12. CASE Interrupt(c) \/ RemoveAllFails(c)
  BY <1>12 DEF Interrupt, RemoveAllFails
<1> QED BY <1>3, <1>4, <1>5, <1>7, <1>8, <1>9, <1>10, <1>11, <1>12 DEF Act, Step

\* What the steps of other calls leave of an answer.
LEMMA OthersAnswers ==
    ASSUME IInv, NEW c \in Callers, Act(c), Watch, NEW d \in Callers \ {c}
    PROVE  /\ answer'[d] = answer[d] /\ task'[d] = task[d] /\ pc'[d] = pc[d]
           /\ interrupted => interrupted'
           /\ answer[d].kind # "none" => alone'[d] = alone[d]
<1>1. /\ answer'[d] = answer[d] /\ task'[d] = task[d] /\ pc'[d] = pc[d]
      /\ interrupted => interrupted'
  BY DEF IInv, TypeOK, Act, Step, Ask, Check, RemoveAll, MakeDir, OpenFile, CopyFile,
     EndOfArchive, List, Query, Interrupt, RemoveAllFails, CheckFails, ListFails,
     QueryFails, Fail, Return, Goto, storeVars
<1> QED BY <1>1, WatchAlone DEF IInv, AnswerWhenIdle

\* Only a listing that returns has files, and only a query a content.
LEMMA OwnAnswer ==
    ASSUME IInv, NEW c \in Callers, Act(c)
    PROVE  List(c) \/ Query(c) \/ answer'[c].kind \in {"none", "error"}
<1> USE AnswerFields DEF IInv, TypeOK, AnswerWhenIdle
<1>1. CASE Ask(c)
  BY <1>1 DEF Ask
<1>2. CASE Check(c) \/ RemoveAll(c) \/ MakeDir(c) \/ OpenFile(c) \/ CopyFile(c)
             \/ EndOfArchive(c)
  <2>1. pc[c] # "idle" /\ answer' = answer
    BY <1>2 DEF Check, RemoveAll, MakeDir, OpenFile, CopyFile, EndOfArchive
  <2> QED BY <2>1
<1>3. CASE Interrupt(c) \/ RemoveAllFails(c) \/ CheckFails(c) \/ ListFails(c)
             \/ QueryFails(c)
  <2>1. answer' = [answer EXCEPT ![c] = Failure]
    BY <1>3 DEF Interrupt, RemoveAllFails, CheckFails, ListFails, QueryFails, Fail, Return
  <2> QED BY <2>1
<1> QED BY <1>1, <1>2, <1>3 DEF Act, Step

\* A listing or a query that nobody disturbs finds the whole archive.
LEMMA StepAnswers ==
    ASSUME IInv, NEW c \in Callers, Act(c), Watch
    PROVE  (ListCompleteAlone /\ QueryWhole)'
<1> USE AnswerFields DEF IInv
<1>1. ASSUME NEW d \in Callers \ {c}
      PROVE  /\ (answer[d].kind = "list" /\ alone[d] /\ ~interrupted)'
                  => (answer[d].files = Wanted(task[d]) \cap Assigned)'
             /\ (answer[d].kind = "query" /\ alone[d] /\ ~interrupted)'
                  => (answer[d].read = "full")'
  BY <1>1, OthersAnswers DEF ListCompleteAlone, QueryWhole
<1>2. ASSUME (answer[c].kind = "list" /\ alone[c] /\ ~interrupted)'
      PROVE  (answer[c].files = Wanted(task[c]) \cap Assigned)'
  <2>1. List(c)
    <3>1. CASE Query(c)
      <4>1. content[task[c]] \in Contents
        BY <3>1 DEF Query, EntryFits, TypeOK
      <4>2. answer'[c] \in {Failure, QueryResult(content[task[c]])}
        BY <3>1 DEF Query, Return, TypeOK
      <4> QED BY <1>2, <4>1, <4>2
    <3> QED BY <1>2, <3>1, OwnAnswer
  <2>2. \A d \in Callers : ~Extracting(d)
    BY <1>2, <2>1, WatchAlone DEF List, Return, Goto, Extracting, TypeOK
  <2> DEFINE found == {f \in Wanted(task[c]) : content[f] # "absent"}
  <2>3. /\ pc' = [pc EXCEPT ![c] = "idle"]
        /\ answer' = [answer EXCEPT ![c] = IF store # "dir" \/ found = {}
                                             THEN Failure
                                             ELSE Listing(found \cap Assigned)]
        /\ UNCHANGED <<task, storeVars>>
    BY <2>1 DEF List, Return, Goto
  <2>4. store = "dir" /\ answer'[c] = Listing(found \cap Assigned) /\ ~interrupted
    BY <1>2, <2>3 DEF TypeOK, storeVars
  <2>5. found = Wanted(task[c])
    BY <2>2, <2>4, RestIsWhole, ArchiveAssumption DEF Whole, Wanted
  <2>6. found \cap Assigned \in SUBSET Files
    BY ArchiveAssumption DEF Wanted
  <2> QED BY <2>3, <2>4, <2>5, <2>6 DEF Wanted
<1>3. ASSUME (answer[c].kind = "query" /\ alone[c] /\ ~interrupted)'
      PROVE  (answer[c].read = "full")'
  <2>1. Query(c)
    <3>1. CASE List(c)
      <4> DEFINE found == {f \in Wanted(task[c]) : content[f] # "absent"}
      <4>1. found \cap Assigned \in SUBSET Files
        BY ArchiveAssumption DEF Wanted
      <4>2. answer'[c] \in {Failure, Listing(found \cap Assigned)}
        BY <3>1 DEF List, Return, TypeOK
      <4> QED BY <1>3, <4>1, <4>2
    <3> QED BY <1>3, <3>1, OwnAnswer
  <2>2. \A d \in Callers : ~Extracting(d)
    BY <1>3, <2>1, WatchAlone DEF Query, Return, Goto, Extracting, TypeOK
  <2>3. /\ answer'[c] = IF content[task[c]] = "absent"
                          THEN Failure ELSE QueryResult(content[task[c]])
        /\ task[c] \in Files /\ ~interrupted
    BY <1>3, <2>1 DEF Query, Return, TypeOK, EntryFits, storeVars
  <2>4. content[task[c]] # "absent" /\ answer'[c] = QueryResult(content[task[c]])
    BY <1>3, <2>3
  <2>5. store = "dir"
    BY <2>3, <2>4 DEF NoDirNoFiles
  <2>6. content[task[c]] = "full"
    BY <2>2, <2>3, <2>5, RestIsWhole DEF Whole
  <2> QED BY <2>4, <2>6 DEF Contents
<1> QED BY <1>1, <1>2, <1>3 DEF ListCompleteAlone, QueryWhole

\* Every step keeps the inductive invariant.
LEMMA StepIInv == IInv /\ [Next]_vars => IInv'
<1> SUFFICES ASSUME IInv, [Next]_vars PROVE IInv'
  OBVIOUS
<1>1. ASSUME NEW c \in Callers, Act(c), Watch PROVE IInv'
  BY <1>1, StepTypeOK, StepPlaces, StepHealing, StepAnswers DEF IInv
<1>2. CASE UNCHANGED vars
  BY <1>2 DEF vars, callVars, storeVars, IInv, TypeOK, EntryFits, NoDirNoFiles, Healing,
     WillWrite, Extracting, AnswerWhenIdle, ListCompleteAlone, QueryWhole
<1> QED BY <1>1, <1>2 DEF Next, Act

\* The inductive invariant holds in every reachable state.
THEOREM Invariance == Spec => []IInv
  BY InitIInv, StepIInv, PTL DEF Spec

\* Every variable keeps its type, for any archive and any number of calls.
THEOREM TypeCorrect == Spec => []TypeOK
<1>1. IInv => TypeOK
  BY DEF IInv
<1> QED BY <1>1, Invariance, PTL

\* However many calls unpack the archive at the same time, when the last is done
\* and none was interrupted, every file is whole.
THEOREM OverlapsEndWhole == Spec => []SettledComplete
<1>1. IInv => SettledComplete
  BY RestIsWhole DEF SettledComplete, Extracted
<1> QED BY <1>1, Invariance, PTL

\* A listing (ListNorthboundDatabases, ListSouthboundDatabases) that no other
\* extraction overlaps names every database, for any archive and any calls before.
THEOREM UndisturbedListingsAreComplete == Spec => []ListCompleteAlone
<1>1. IInv => ListCompleteAlone
  BY DEF IInv
<1> QED BY <1>1, Invariance, PTL

\* A query that no extraction overlaps reads a database that is whole, although
\* QueryDatabase looks only for the file.
THEOREM UndisturbedQueriesReadWhole == Spec => []QueryWhole
<1>1. IInv => QueryWhole
  BY DEF IInv
<1> QED BY <1>1, Invariance, PTL

\* A whole store that nobody is unpacking is never written again.
THEOREM WholeStoreIsFinal == Spec => StaysComplete
<1>1. IInv /\ Extracted /\ Whole /\ [Next]_vars => (Extracted /\ Whole)'
  <2> SUFFICES ASSUME IInv, Extracted, Whole, [Next]_vars PROVE (Extracted /\ Whole)'
    OBVIOUS
  <2> USE DEF IInv, TypeOK, Extracted, Whole, Extracting, Goto, Return, storeVars
  <2>1. ASSUME NEW c \in Callers, Act(c) PROVE (Extracted /\ Whole)'
    <3>1. CASE Ask(c)
      BY <3>1 DEF Ask
    <3>2. CASE Check(c)
      BY <3>2 DEF Check
    <3>3. CASE List(c) \/ Query(c)
      BY <3>3 DEF List, Query
    <3>4. CASE CheckFails(c) \/ ListFails(c) \/ QueryFails(c)
      BY <3>4 DEF CheckFails, ListFails, QueryFails, Fail
    <3> QED BY <2>1, <3>1, <3>2, <3>3, <3>4
        DEF Act, Step, RemoveAll, MakeDir, OpenFile, CopyFile, EndOfArchive, Interrupt,
            RemoveAllFails
  <2>2. CASE UNCHANGED vars
    BY <2>2 DEF vars, callVars
  <2> QED BY <2>1, <2>2 DEF Next, Act
<1> QED BY <1>1, Invariance, PTL DEF Spec, StaysComplete
=============================================================================
