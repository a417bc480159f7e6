------------------------------ MODULE Sosreport ------------------------------
(***************************************************************************)
(* The sosreport tools (pkg/sosreport/mcp): a client lists or searches the *)
(* commands in the manifest of an unpacked sosreport, reads the output of  *)
(* one by the path it was given, and reads container logs that are found   *)
(* by parsing their file names.                                            *)
(*                                                                         *)
(* Paths are sequences of elements, file names sequences of tokens.  The   *)
(* text of a file is the sequence `log' of module LineWindow.              *)
(***************************************************************************)
EXTENDS LineWindow, SequencesExt

CONSTANTS Manifest,     \* plugin -> its commands, in order
          FilesCopied,  \* the container logs in the manifest, in order
          Root,         \* the path of the sosreport
          Files,        \* the files that are there, of the sosreport and others
          LogFiles,     \* the container logs that are there
          Paths,        \* the paths clients ask for
          Dotted,       \* path elements that contain ".." among other characters
          Hex,          \* tokens made of hexadecimal digits
          MaxResults,   \* values of max_results
          DefaultMaxResults,
          NoFile        \* no file has been read

\* A command has the path of its output, and says whether the pattern searched
\* for matches its command line and whether it matches the path.  A path leads to
\* a file of the sosreport and is empty if the command had no output.  sos writes
\* a command once.
ASSUME ManifestAssumption ==
    /\ IsFiniteSet(DOMAIN Manifest)
    /\ \A p \in DOMAIN Manifest :
         /\ Manifest[p] \in Seq([path : Seq(STRING), execMatches : BOOLEAN,
                                 pathMatches : BOOLEAN])
         /\ IsInjective(Manifest[p])
         /\ \A c \in ToSet(Manifest[p]) : c.path = <<>> \/ Root \o c.path \in Files
    /\ MaxResults \subseteq Int
    /\ DefaultMaxResults \in Nat \ {0}

\* Files and the sosreport have one path each, without "." and "..": a path is
\* what its elements say, no symbolic link leads from it to another place.
ASSUME FilesAssumption ==
    /\ \A f \in Files \cup {Root} : f \in Seq(STRING) /\ ToSet(f) \cap {".", ".."} = {}
    /\ Root \notin Files
    /\ NoFile \notin Files \cup LogFiles
    /\ Paths \subseteq Seq(STRING)
    /\ ".." \notin Dotted

\* A container log has a directory, and says whose it is, which id the container
\* had, and what the name of the log ends in.  Kubernetes allows no "_" in names,
\* and what comes after an id is no part of one.
ASSUME LogsAssumption ==
    /\ FilesCopied \in Seq([dir : Seq(STRING), pod : Seq(STRING), namespace : Seq(STRING),
                            container : Seq(STRING), id : STRING, suffix : Seq(STRING)])
    /\ \A f \in ToSet(FilesCopied) :
         /\ "_" \notin ToSet(f.pod) \cup ToSet(f.namespace)
         /\ f.container # <<>>
         /\ f.id \notin {"-", ".log", ".gz"}
         /\ ToSet(f.suffix) \cap (Hex \cup {"-"}) = {}

VARIABLES told,     \* the paths that listings and searches have returned
          hits,     \* the commands that the last search returned
          request,  \* the last call
          file,     \* the file it read
          reply     \* how it ended

sosVars == <<told, hits, request, file, reply>>

Replies == {"none", "error", "message", "listing", "lines"}

SosInit ==
    /\ told = {} /\ hits = <<>>
    /\ request = [tool |-> "none"]
    /\ file = NoFile
    /\ reply = "none"

-----------------------------------------------------------------------------
(* Listing and searching the manifest. *)

\* The client has had the answer.  Of what it was told it keeps the paths.
TakesReply ==
    /\ reply # "none"
    /\ reply' = "none"
    /\ request' = [tool |-> "none"]
    /\ hits' = <<>> /\ file' = NoFile
    /\ asked' = NoWindow /\ answer' = Error /\ enough' = FALSE
    /\ UNCHANGED <<log, told>>

\* The call ends without the text of a file.
Ends(how) ==
    /\ reply' = how
    /\ answer' = Error
    /\ enough' = FALSE
    /\ file' = NoFile

\* The call ends with the lines shown of a file, in their window.
EndsWithLines(f) ==
    /\ reply' = "lines"
    /\ answer' = Logs(asked', log)
    /\ enough' = FALSE
    /\ file' = f

\* What is at the path of the sosreport.
Reports == {"whole", "absent", "noCommands", "noManifest", "badManifest"}

\* loadManifest: the manifest is there and can be parsed.
loadManifest(report) == report \in {"whole", "noCommands"}

\* validateSosreportPath: sos_commands and the manifest are there.
validateSosreportPath(report) == report \in {"whole", "badManifest"}

ListPlugins(report) ==
    /\ request' = [tool |-> "plugins"]
    /\ asked' = NoWindow
    /\ Ends(IF loadManifest(report) THEN "listing" ELSE "error")
    /\ UNCHANGED <<log, told, hits>>

\* A plugin that is not in the manifest is an error.
ListCommands(report, plugin) ==
    LET found == loadManifest(report) /\ plugin \in DOMAIN Manifest
    IN  /\ request' = [tool |-> "commands"]
        /\ asked' = NoWindow
        /\ told' = told \cup (IF found THEN {c.path : c \in ToSet(Manifest[plugin])}
                                       ELSE {})
        /\ Ends(IF found THEN "listing" ELSE "error")
        /\ UNCHANGED <<log, hits>>

\* The commands of all plugins, plugin by plugin in the given order.
AllCommands(order) ==
    FlattenSeq([i \in DOMAIN order |->
        [j \in DOMAIN Manifest[order[i]] |->
            [plugin |-> order[i], command |-> Manifest[order[i]][j]]]])

Matches(m) == m.command.execMatches \/ m.command.pathMatches

\* Mutant of resultLimit: no default, so that the search ends at the first match.
resultLimitOne(maxResults) == IF maxResults <= 0 THEN 1 ELSE maxResults

resultLimit(maxResults) ==
    IF maxResults <= 0 THEN DefaultMaxResults ELSE maxResults

\* Go leaves the order in which a map is gone through open.  The search ends as
\* soon as it has enough matches.  A pattern that does not compile is met at the
\* first command.
SearchCommands(report, pattern, maxResults) ==
    \E order \in SetToSeqs(DOMAIN Manifest) :
        LET all == AllCommands(order)
            matching == {m \in ToSet(all) : Matches(m)}
            ok  == /\ loadManifest(report) /\ pattern # "none"
                   /\ pattern = "invalid" => all = <<>>
        IN  /\ request' = [tool |-> "search", max |-> maxResults]
            /\ asked' = [NoWindow EXCEPT !.pattern = pattern]
            /\ hits' = IF ok THEN head(Keep(all, matching), resultLimit(maxResults))
                             ELSE <<>>
            /\ told' = told \cup {m.command.path : m \in ToSet(hits')}
            /\ Ends(IF ok THEN "listing" ELSE "error")
            /\ UNCHANGED log

-----------------------------------------------------------------------------
(* Reading the output of a command. *)

\* An element is added to a clean path; an absolute one has nothing above its
\* first element.
Enter(clean, e, abs) ==
    CASE e = "." -> clean
      [] e = ".." /\ clean # <<>> /\ Last(clean) # ".." -> Front(clean)
      [] e = ".." /\ clean = <<>> /\ abs -> clean
      [] OTHER -> Append(clean, e)

\* filepath.Clean of a relative or an absolute path.
Clean(path, abs) ==
    LET clean[i \in 0 .. Len(path)] ==
            IF i = 0 THEN <<>> ELSE Enter(clean[i - 1], path[i], abs)
    IN  clean[Len(path)]

\* Mutant of validateRelativePath: the path is not cleaned, and only looked at
\* where it starts.
validateRelativePathStart(path, abs) ==
    ~abs /\ (path = <<>> \/ path[1] # "..")

validateRelativePath(path, abs) ==
    /\ \A e \in ToSet(Clean(path, abs)) : e # ".." /\ e \notin Dotted
    /\ ~abs

\* Mutant of Join: the path is taken from the working directory.
JoinNothing(path) == Clean(path, TRUE)

\* filepath.Join of the sosreport and a path in it.
Join(path) == Clean(Root \o path, TRUE)

\* What the file is like: as it should be, not readable, with a line of more
\* than a megabyte, or not compressed.
Contents == {"good", "unreadable", "longLine", "plain"}

\* readLines: to the end of the file.
readLines(content) == content # "longLine"

GetCommand(report, path, abs, h, content) ==
    LET there == /\ validateSosreportPath(report)
                 /\ validateRelativePath(path, abs)
                 /\ Join(path) \in Files
    IN  /\ request' = [tool |-> "get", path |-> path, abs |-> abs,
                       report |-> report, content |-> content]
        /\ asked' = h
        /\ IF ~there \/ content = "unreadable" \/ h.pattern = "invalid"
                \/ ~readLines(content) THEN Ends("error")
           ELSE IF Shown(h, log) = <<>> /\ h.pattern # "none" THEN Ends("message")
           ELSE EndsWithLines(Join(path))
        /\ UNCHANGED <<log, told, hits>>

-----------------------------------------------------------------------------
(* Reading the log of a container. *)

\* The name of a log: <pod_name>_<namespace>_<container_name>-<container_id>.log
\* of the container, or .log.gz.
Name(f) == f.pod \o <<"_">> \o f.namespace \o <<"_">> \o f.container
             \o <<"-", f.id>> \o f.suffix

TrimSuffix(name, suffix) ==
    IF name # <<>> /\ Last(name) = suffix THEN Front(name) ELSE name

\* Mutant of parseContainerName: the name ends at the first dash.
parseContainerNameFirst(remainder) ==
    LET Dash(t) == t = "-"
        idx == SelectInSeq(remainder, Dash)
        id  == SubSeq(remainder, idx + 1, Len(remainder))
    IN  IF idx <= 1 \/ id = <<>> \/ ~(ToSet(id) \subseteq Hex)
          THEN <<>> ELSE SubSeq(remainder, 1, idx - 1)

\* The name of the container, or <<>> if what follows its last dash is no id.
parseContainerName(remainder) ==
    LET Dash(t) == t = "-"
        idx == SelectLastInSeq(remainder, Dash)
        id  == SubSeq(remainder, idx + 1, Len(remainder))
    IN  IF idx <= 1 \/ id = <<>> \/ ~(ToSet(id) \subseteq Hex)
          THEN <<>> ELSE SubSeq(remainder, 1, idx - 1)

\* container is <<>> if none is asked for.
matchesContainerLogFile(f, namespace, name, container) ==
    LET base   == TrimSuffix(Name(f), ".gz")
        prefix == name \o <<"_">> \o namespace \o <<"_">>
        stem   == TrimSuffix(base, ".log")
        parsed == parseContainerName(SubSeq(stem, Len(prefix) + 1, Len(stem)))
    IN  /\ Last(base) = ".log"
        /\ IsPrefix(prefix, stem)
        /\ parsed # <<>>
        /\ container = <<>> \/ parsed = container

\* Where a log is: the path in the manifest may start with host, the sosreport
\* does not.
LogFile(f) ==
    [dir  |-> Root \o (IF f.dir # <<>> /\ f.dir[1] = "host" THEN Tail(f.dir) ELSE f.dir),
     name |-> Name(f)]

\* searchInFile: what name ends in says whether to uncompress it.
searchInFile(name, h, content) ==
    /\ content # "unreadable"
    /\ Last(name) = ".gz" => content # "plain"
    /\ h.pattern # "invalid"
    /\ readLines(content)

\* The first log that matches is read; the pattern is looked at only then.
SosGetPodLogs(report, namespace, name, container, h, content) ==
    LET Match(f) == matchesContainerLogFile(f, namespace, name, container)
        i == SelectInSeq(FilesCopied, Match)
        f == LogFile(FilesCopied[i])
    IN  /\ request' = [tool |-> "logs", namespace |-> namespace, name |-> name,
                       container |-> container]
        /\ asked' = h
        /\ IF namespace = <<>> \/ name = <<>> \/ ~loadManifest(report) THEN Ends("error")
           ELSE IF i = 0 THEN Ends("message")
           ELSE IF f \notin LogFiles \/ ~searchInFile(f.name, h, content) THEN Ends("error")
           ELSE IF Shown(h, log) = <<>> THEN Ends("message")
           ELSE EndsWithLines(f)
        /\ UNCHANGED <<log, told, hits>>

-----------------------------------------------------------------------------

\* What calls name: the pods, namespaces and containers of the manifest, others,
\* and none.
Pods       == {f.pod : f \in ToSet(FilesCopied)} \cup {<<>>}
Namespaces == {f.namespace : f \in ToSet(FilesCopied)} \cup {<<>>}
Names      == {f.container : f \in ToSet(FilesCopied)} \cup {<<>>, <<"none">>}

SosCall ==
    /\ reply = "none"
    /\ \E report \in Reports :
         \/ ListPlugins(report)
         \/ \E plugin \in (DOMAIN Manifest) \cup {"none"} : ListCommands(report, plugin)
         \/ \E pattern \in {"none", "valid", "invalid"}, maxResults \in MaxResults :
              SearchCommands(report, pattern, maxResults)
         \/ \E path \in Paths \cup told, abs \in BOOLEAN, h \in Windows,
               content \in Contents :
              GetCommand(report, path, abs, h, content)
         \/ \E namespace \in Namespaces, name \in Pods, container \in Names,
               h \in Windows, content \in Contents :
              SosGetPodLogs(report, namespace, name, container, h, content)

SosNext == SosCall \/ TakesReply

-----------------------------------------------------------------------------
(* Properties. *)

\* Type invariant of the answers.
SosTypeOK ==
    /\ told \subseteq UNION {{c.path : c \in ToSet(Manifest[p])} : p \in DOMAIN Manifest}
    /\ \A m \in ToSet(hits) :
         m.plugin \in DOMAIN Manifest /\ m.command \in ToSet(Manifest[m.plugin])
    /\ reply \in Replies
    /\ reply = "lines" <=> file # NoFile

\* Whatever order the plugins are gone through in, a search returns commands
\* that match, each of them once, and all of them unless it has reached the
\* number asked for (the default if that is zero or negative).
SearchFindsEnough ==
    (request.tool = "search" /\ reply = "listing") =>
        LET limit == IF request.max > 0 THEN request.max ELSE DefaultMaxResults
            matching == {m \in UNION {{[plugin |-> p, command |-> c] : c \in ToSet(Manifest[p])}
                                        : p \in DOMAIN Manifest} : Matches(m)}
        IN  /\ ToSet(hits) \subseteq matching
            /\ Cardinality(ToSet(hits)) = Len(hits)
            /\ Len(hits) = IF Cardinality(matching) < limit THEN Cardinality(matching)
                                                             ELSE limit

\* A path that a listing or a search has given out can be read back: the text
\* returned is that of the file of this path, unless the sosreport, the file or
\* the pattern is bad.  Commands without output have an empty path, and paths
\* that contain ".." in a name are refused.
ToldPathsOpen ==
    (/\ request.tool = "get" /\ ~request.abs /\ request.report = "whole"
     /\ request.content \in {"good", "plain"}
     /\ request.path \in told \ {<<>>}
     /\ ToSet(request.path) \cap Dotted = {}
     /\ asked.pattern # "invalid")
      => \/ reply = "lines" /\ file = Root \o request.path
         \/ reply = "message" /\ Shown(asked, log) = <<>>

\* Whatever path a client gives, however it goes up and down, the file that is
\* read is in the sosreport, and it is the one that the path leads to from there.
ReadsInTheReport ==
    (request.tool = "get" /\ file # NoFile) =>
        IsStrictPrefix(Root, file) /\ Clean(request.path, FALSE) = SubSeq(file, Len(Root) + 1, Len(file))

\* The logs in the manifest that are those of a container asked for.
LogsAskedFor ==
    {i \in DOMAIN FilesCopied :
        LET f == FilesCopied[i]
        IN  /\ f.pod = request.name /\ f.namespace = request.namespace
            /\ request.container \in {<<>>, f.container}
            /\ f.id \in Hex /\ f.suffix \in {<<".log">>, <<".log", ".gz">>}}

\* A log that is returned is that of the pod, namespace and container asked for,
\* whatever dashes their names contain, and the first such log in the manifest;
\* "No pod logs found" is never said of a container that has one.
LogsOfTheContainer ==
    request.tool = "logs" =>
        /\ reply = "lines" =>
             /\ LogsAskedFor # {}
             /\ file = LogFile(FilesCopied[Min(LogsAskedFor)])
        /\ reply = "message" => LogsAskedFor = {} \/ Shown(asked, log) = <<>>
=============================================================================
