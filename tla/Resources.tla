----------------------------- MODULE Resources ------------------------------
(***************************************************************************)
(* resource-get and resource-list (pkg/kubernetes/mcp/resources.go and     *)
(* pkg/kubernetes/client/resources.go) against a cluster whose kinds come, *)
(* go and change their scope while calls are served.                       *)
(*                                                                         *)
(* A call asks up to three different sources about a kind: a get without a *)
(* namespace asks the API server for the kind's scope; every call asks the *)
(* REST mapper, which all calls share, for the kind's path; and the read   *)
(* itself is answered by the API server.  The mapper is filled by the      *)
(* first call that needs it, from a discovery of which single groups may   *)
(* fail.  Its memory cache counts as fresh from then on, so that a kind it *)
(* does not know is never looked up again.                                 *)
(*                                                                         *)
(* The mapper is modelled by the kinds it knows: a kind that is installed  *)
(* again keeps its plural, and no other kind takes that over, so that the  *)
(* path of a known kind is always the kind's own.                          *)
(***************************************************************************)
EXTENDS Naturals

CONSTANTS Callers, Kinds, Names, Namespaces, Default, AllPlaces, Error,
          Selections,     \* as in ClusterReads
          NoMapper,       \* the mapper has not been filled
          MaxChanges      \* bound on the changes of the cluster

ASSUME PlacesAssumption ==
    /\ Default \in Namespaces
    /\ AllPlaces \notin Namespaces
    /\ Selections \subseteq SUBSET Names

ASSUME MapperAssumption ==
    /\ \A s \in SUBSET Kinds : s # NoMapper
    /\ MaxChanges \in Nat

VARIABLES served,   \* each kind's scope in the cluster, or "absent"
          objects,  \* the objects in the cluster
          changes,  \* how often the cluster has changed
          known,    \* the kinds the REST mapper knows, or NoMapper
          pc,       \* where each caller's call is
          request,  \* what it asks for
          place,    \* the namespace it will use
          answer,   \* what it was answered
          steady    \* since it was asked nothing of its kind has changed and
                    \* no request of its own has failed

clusterVars == <<served, objects, changes>>
vars == <<clusterVars, known, pc, request, place, answer, steady>>

\* The calls being served, as ClusterReads sees them.
Busy == {c \in Callers : pc[c] # "idle"}

Promise == INSTANCE ClusterReads WITH busy <- Busy

\* Objects of kind k that fit its scope.
ObjectsOf(k, scope) ==
    {o \in Promise!Objects :
        /\ o.kind = k
        /\ o.place \in (CASE scope = "namespaced" -> Namespaces
                            [] scope = "cluster" -> {AllPlaces}
                            [] scope = "absent" -> {})}

Init ==
    /\ served \in [Kinds -> Promise!Scopes]
    /\ objects = UNION {ObjectsOf(k, served[k]) : k \in Kinds}
    /\ changes = 0
    /\ known = NoMapper
    /\ pc = [c \in Callers |-> "idle"]
    /\ \E r \in Promise!Requests : request = [c \in Callers |-> r]
    /\ place = [c \in Callers |-> AllPlaces]
    /\ answer = [c \in Callers |-> Error]
    /\ steady = [c \in Callers |-> FALSE]

-----------------------------------------------------------------------------
(* The cluster.                                                            *)

\* Kind k changes, and with it what was known about it.
Unsettle(k) ==
    /\ changes < MaxChanges
    /\ changes' = changes + 1
    /\ steady' = [c \in Callers |-> steady[c] /\ request[c].kind # k]
    /\ UNCHANGED <<known, pc, request, place, answer>>

\* A custom resource definition is installed, with some objects.
Install(k) ==
    /\ served[k] = "absent"
    /\ \E scope \in {"namespaced", "cluster"} :
         /\ served' = [served EXCEPT ![k] = scope]
         /\ objects' \in {objects, objects \cup ObjectsOf(k, scope)}
    /\ Unsettle(k)

\* A custom resource definition is removed, and its objects with it.
Remove(k) ==
    /\ served[k] # "absent"
    /\ served' = [served EXCEPT ![k] = "absent"]
    /\ objects' = {o \in objects : o.kind # k}
    /\ Unsettle(k)

\* One object of the kind is created or deleted.
Edit(k) ==
    /\ \E o \in ObjectsOf(k, served[k]) :
         objects' = IF o \in objects THEN objects \ {o} ELSE objects \cup {o}
    /\ UNCHANGED served
    /\ Unsettle(k)

-----------------------------------------------------------------------------
(* A call.                                                                 *)

\* The call returns; ok is whether its own requests have worked.
Return(c, a, ok) ==
    /\ pc' = [pc EXCEPT ![c] = "idle"]
    /\ answer' = [answer EXCEPT ![c] = a]
    /\ steady' = [steady EXCEPT ![c] = @ /\ ok]
    /\ UNCHANGED <<clusterVars, request, place>>

\* A call arrives.
Ask(c) ==
    /\ pc[c] = "idle"
    /\ pc' = [pc EXCEPT ![c] = "called"]
    /\ \E r \in Promise!Requests :
         /\ request' = [request EXCEPT ![c] = r]
         /\ place' = [place EXCEPT ![c] = r.place]
    /\ answer' = [answer EXCEPT ![c] = Error]
    /\ steady' = [steady EXCEPT ![c] = TRUE]
    /\ UNCHANGED <<clusterVars, known>>

\* The handler finds the version, the kind or the name empty, and returns before
\* any request.
Reject(c) ==
    /\ pc[c] = "called"
    /\ Return(c, Error, FALSE)
    /\ UNCHANGED known

\* So it does with an output type that is none, or a JSONPath template that does
\* not parse.
ValidateOutputParams(c) ==
    /\ pc[c] = "called"
    /\ Return(c, Error, FALSE)
    /\ UNCHANGED known

\* Mutant of NeedsScope: the check of the namespace is dropped.
NeedsScopeAlways(c) == pc[c] = "called" /\ request[c].op = "get"

\* A get without a namespace has to know whether the kind has namespaces.
NeedsScope(c) ==
    /\ pc[c] = "called"
    /\ request[c].op = "get"
    /\ request[c].place = AllPlaces

\* Mutant of isNamespaced: a kind counts as cluster-scoped.
isNamespacedNever(c) ==
    /\ NeedsScope(c)
    /\ place' = [place EXCEPT ![c] = AllPlaces]
    /\ pc' = [pc EXCEPT ![c] = "scoped"]
    /\ UNCHANGED <<clusterVars, known, request, answer, steady>>

\* isNamespaced, from the API server's resource list of the group and version:
\* a kind that is not in it counts as cluster-scoped.
isNamespaced(c) ==
    /\ NeedsScope(c)
    /\ place' = [place EXCEPT ![c] =
                   IF served[request[c].kind] = "namespaced" THEN Default
                                                             ELSE AllPlaces]
    /\ pc' = [pc EXCEPT ![c] = "scoped"]
    /\ UNCHANGED <<clusterVars, known, request, answer, steady>>

\* The resource list cannot be fetched.
isNamespacedFails(c) ==
    /\ NeedsScope(c)
    /\ Return(c, Error, FALSE)
    /\ UNCHANGED known

\* The call needs the REST mapper.
AtMapper(c) == pc[c] = "scoped" \/ (pc[c] = "called" /\ ~NeedsScope(c))

\* The mapper is filled, under its own mutex, from what the API server serves;
\* the kinds of groups whose discovery fails are missing from it.
Discover(c) ==
    /\ AtMapper(c)
    /\ known = NoMapper
    /\ \E failed \in SUBSET Kinds :
         /\ known' = {k \in Kinds : served[k] # "absent"} \ failed
         /\ steady' = [steady EXCEPT ![c] = @ /\ failed = {}]
    /\ UNCHANGED <<clusterVars, pc, request, place, answer>>

\* The API server does not answer the discovery: the mapper stays empty, and
\* the next call tries again.
DiscoverFails(c) ==
    /\ AtMapper(c)
    /\ known = NoMapper
    /\ Return(c, Error, FALSE)
    /\ UNCHANGED known

\* The mapper knows the kind and gives its path.
RESTMapping(c) ==
    /\ AtMapper(c)
    /\ known # NoMapper /\ request[c].kind \in known
    /\ pc' = [pc EXCEPT ![c] = "mapped"]
    /\ UNCHANGED <<clusterVars, known, request, place, answer, steady>>


\* The mapper does not know the kind.  Its cache is fresh, so that it is not
\* reset, and the call fails.
NoMapping(c) ==
    /\ AtMapper(c)
    /\ known # NoMapper /\ request[c].kind \notin known
    /\ Return(c, Error, TRUE)
    /\ UNCHANGED known

\* getResource: Get by name, at the namespace chosen before; then the output.
getResource(c) ==
    /\ pc[c] = "mapped" /\ request[c].op = "get"
    /\ Return(c, Promise!Lookup(request[c], place[c]), TRUE)
    /\ UNCHANGED known

\* listResources: List by label selector, all pages at once; then the output
\* of every item, none if there are no items.
listResources(c) ==
    /\ pc[c] = "mapped" /\ request[c].op = "list"
    /\ Return(c, Promise!Lookup(request[c], place[c]), TRUE)
    /\ UNCHANGED known

\* The request fails, or its context is done.
ReadFails(c) ==
    /\ pc[c] = "mapped"
    /\ Return(c, Error, FALSE)
    /\ UNCHANGED known

\* The read works, but something of what it returns cannot be converted to the
\* output type, which fails the whole call; an empty list is never converted.
ConversionFails(c) ==
    /\ pc[c] = "mapped"
    /\ Promise!Lookup(request[c], place[c]) \notin {Error, {}}
    /\ Return(c, Error, FALSE)
    /\ UNCHANGED known

CallStep(c) ==
    \/ Reject(c) \/ ValidateOutputParams(c)
    \/ isNamespaced(c) \/ isNamespacedFails(c)
    \/ Discover(c) \/ DiscoverFails(c) \/ RESTMapping(c) \/ NoMapping(c)
    \/ getResource(c) \/ listResources(c)
    \/ ReadFails(c) \/ ConversionFails(c)

Next ==
    \/ \E k \in Kinds : Install(k) \/ Remove(k) \/ Edit(k)
    \/ \E c \in Callers : Ask(c) \/ CallStep(c)

Spec == Init /\ [][Next]_vars

\* A handler's goroutine goes on, and each of its requests ends: the reads by
\* the call's context, the discoveries by their client's timeout.
FairSpec == Spec /\ \A c \in Callers : WF_vars(CallStep(c))

-----------------------------------------------------------------------------
(* Properties. *)

\* The call has been answered with what the cluster holds for it.
AnsweredRightly(c) ==
    answer[c] = Promise!Lookup(request[c], Promise!Meant(request[c]))

\* However stale the scope and the path that a call uses are, it is answered
\* with an error or with exactly what the cluster holds, at the moment of the
\* read, for the request its client made: never an object of another namespace
\* or scope, never a part of a list, never an empty list for a kind that is gone.
ImplementsReads == Promise!Spec

\* A call does not fail without a reason: if its kind stayed as it was, its own
\* requests worked and the mapper knows the kind, it gets what the cluster holds,
\* whoever filled the mapper and whatever happened to the kind since then.
FoundIfKnown ==
    \A c \in Callers :
        (pc[c] = "idle" /\ steady[c] /\ known # NoMapper /\ request[c].kind \in known)
            => AnsweredRightly(c)

\* Every call returns, also if the mapper does not know the kind.
CallsReturn == \A c \in Callers : pc[c] = "called" ~> pc[c] = "idle"

\* What the description of resource-get says: it "retrieves a single resource
\* from the cluster using its group, version, kind, and name".  A call during
\* which its kind stays as it is and its own requests work gets what the cluster
\* holds.
FoundIfServed ==
    \A c \in Callers : (pc[c] = "idle" /\ steady[c]) => AnsweredRightly(c)
=============================================================================
