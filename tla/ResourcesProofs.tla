-------------------------- MODULE ResourcesProofs ---------------------------
(***************************************************************************)
(* Reads of the cluster, for any kinds, callers and number of changes:     *)
(* they implement ClusterReads, and a call whose kind stays as it is and   *)
(* is known to the mapper is answered rightly.                             *)
(*                                                                         *)
(* Both rest on where a call's namespace comes from.  It was chosen from a *)
(* scope that may be stale by the time of the read, but it is always one   *)
(* of two, and the wrong one of the two is a path that the API server does *)
(* not serve.                                                              *)
(***************************************************************************)
EXTENDS Resources, TLAPS

\* The types of the variables.
ResTypeOK ==
    /\ served \in [Kinds -> Promise!Scopes]
    /\ objects \in SUBSET Promise!Objects
    /\ known = NoMapper \/ known \in SUBSET Kinds
    /\ pc \in [Callers -> {"idle", "called", "scoped", "mapped"}]
    /\ request \in [Callers -> Promise!Requests]
    /\ place \in [Callers -> Promise!Places]
    /\ answer \in [Callers -> (SUBSET Promise!Objects) \cup {Error}]
    /\ steady \in [Callers -> BOOLEAN]

\* The namespace of a call is the one of its request, or the default namespace
\* for a get that has none.
PlaceFits ==
    \A c \in Callers : pc[c] # "idle" =>
        \/ place[c] = request[c].place
        \/ /\ pc[c] \in {"scoped", "mapped"}
           /\ request[c].op = "get" /\ request[c].place = AllPlaces
           /\ place[c] = Default

\* While nothing of its kind changes, it is the one that the request means.
PlaceSteady ==
    \A c \in Callers :
        (pc[c] \in {"scoped", "mapped"} /\ steady[c]) =>
            place[c] = Promise!Meant(request[c])

\* A call that got past the mapper, or was answered without a failure of its
\* own, has left the mapper filled.
MapperFilled ==
    \A c \in Callers :
        (pc[c] = "mapped" \/ (pc[c] = "idle" /\ steady[c])) => known # NoMapper

\* The inductive strengthening of FoundIfKnown, and what ImplementsReads needs.
ResIInv ==
    /\ ResTypeOK
    /\ PlaceFits
    /\ PlaceSteady
    /\ MapperFilled
    /\ FoundIfKnown

-----------------------------------------------------------------------------
(* Lemmas about the requests. *)

\* A request's fields.
LEMMA RequestFields ==
    ASSUME NEW r \in Promise!Requests
    PROVE  /\ r.kind \in Kinds
           /\ r.place \in Promise!Places
           /\ r.op \in {"get", "list"}
  BY DEF Promise!Requests

\* At either of the two namespaces that a call may have ended up with, the API
\* server has what the request means, or nothing.
LEMMA StalePlaceIsHarmless ==
    ASSUME NEW r \in Promise!Requests, NEW p \in Promise!Places,
           \/ p = r.place
           \/ r.op = "get" /\ r.place = AllPlaces /\ p = Default
    PROVE  Promise!Lookup(r, p) \in {Error, Promise!Lookup(r, Promise!Meant(r))}
<1>0. Default # AllPlaces
  BY PlacesAssumption
<1>1. CASE p = Promise!Meant(r)
  BY <1>1
<1>2. CASE p # Promise!Meant(r)
  <2>1. ~Promise!Exists(r, p)
    BY <1>0, <1>2 DEF Promise!Exists, Promise!Meant
  <2> QED BY <2>1 DEF Promise!Lookup
<1> QED BY <1>1, <1>2

\* What is found for a request depends only on its own kind.
LEMMA OtherKindsDoNotMatter ==
    ASSUME ResTypeOK, NEW c \in Callers,
           request'[c] = request[c],
           served'[request[c].kind] = served[request[c].kind],
           \A o : o.kind = request[c].kind => (o \in objects' <=> o \in objects)
    PROVE  /\ Promise!Meant(request[c])' = Promise!Meant(request[c])
           /\ Promise!Lookup(request[c], Promise!Meant(request[c]))'
                = Promise!Lookup(request[c], Promise!Meant(request[c]))
<1>1. Promise!Meant(request[c])' = Promise!Meant(request[c])
  BY DEF Promise!Meant
<1>2. \A p : Promise!Found(request[c], p)' = Promise!Found(request[c], p)
  BY DEF Promise!Found
<1>3. \A p : Promise!Exists(request[c], p)' = Promise!Exists(request[c], p)
  BY DEF Promise!Exists
<1>4. \A p : Promise!Lookup(request[c], p)' = Promise!Lookup(request[c], p)
  BY <1>2, <1>3 DEF Promise!Lookup
<1> QED BY <1>1, <1>4

\* A lookup returns objects or an error.
LEMMA LookupType ==
    ASSUME ResTypeOK, NEW r, NEW p
    PROVE  Promise!Lookup(r, p) \in (SUBSET Promise!Objects) \cup {Error}
  BY DEF ResTypeOK, Promise!Lookup, Promise!Found

-----------------------------------------------------------------------------
(* The inductive invariant. *)

\* The inductive invariant holds initially.
LEMMA InitResIInv == Init => ResIInv
<1> SUFFICES ASSUME Init PROVE ResIInv
  OBVIOUS
<1>1. objects \in SUBSET Promise!Objects
  BY DEF Init, ObjectsOf
<1>2. ResTypeOK
  BY <1>1 DEF Init, ResTypeOK, Promise!Places
<1>3. \A c \in Callers : pc[c] = "idle" /\ ~steady[c]
  BY DEF Init
<1> QED BY <1>2, <1>3 DEF ResIInv, PlaceFits, PlaceSteady, MapperFilled, FoundIfKnown

\* The cluster changes: what it holds stays well-typed, and only kind k changes.
LEMMA ClusterChange ==
    ASSUME ResIInv, NEW k \in Kinds, Install(k) \/ Remove(k) \/ Edit(k)
    PROVE  /\ served' \in [Kinds -> Promise!Scopes]
           /\ objects' \in SUBSET Promise!Objects
           /\ Unsettle(k)
           /\ \A j \in Kinds \ {k} : served'[j] = served[j]
           /\ \A o : o.kind # k => (o \in objects' <=> o \in objects)
<1> USE DEF ResIInv, ResTypeOK, ObjectsOf
<1>1. CASE Install(k)
  BY <1>1 DEF Install, Promise!Scopes
<1>2. CASE Remove(k)
  BY <1>2 DEF Remove, Promise!Scopes
<1>3. CASE Edit(k)
  BY <1>3 DEF Edit
<1> QED BY <1>1, <1>2, <1>3

\* A change of the cluster makes only calls about its kind unsteady, and leaves
\* what the others were or will be answered as it was.
LEMMA ChangeResIInv ==
    ASSUME ResIInv, NEW k \in Kinds, Install(k) \/ Remove(k) \/ Edit(k)
    PROVE  ResIInv'
<1>1. /\ Unsettle(k) /\ ResTypeOK
      /\ \A j \in Kinds \ {k} : served'[j] = served[j]
      /\ \A o : o.kind # k => (o \in objects' <=> o \in objects)
  BY ClusterChange DEF ResIInv
<1>2. ResTypeOK'
  BY <1>1, ClusterChange DEF ResTypeOK, Unsettle
<1>3. PlaceFits'
  BY <1>1 DEF ResIInv, PlaceFits, Unsettle
<1>4. \A c \in Callers : steady'[c] =>
        /\ steady[c]
        /\ Promise!Meant(request[c])' = Promise!Meant(request[c])
        /\ Promise!Lookup(request[c], Promise!Meant(request[c]))'
             = Promise!Lookup(request[c], Promise!Meant(request[c]))
  <2> SUFFICES ASSUME NEW c \in Callers, steady'[c]
               PROVE  /\ steady[c]
                      /\ Promise!Meant(request[c])' = Promise!Meant(request[c])
                      /\ Promise!Lookup(request[c], Promise!Meant(request[c]))'
                           = Promise!Lookup(request[c], Promise!Meant(request[c]))
    OBVIOUS
  <2>1. steady[c] /\ request[c].kind # k /\ request'[c] = request[c]
    BY <1>1 DEF Unsettle
  <2>2. request[c].kind \in Kinds
    BY <1>1, RequestFields DEF ResTypeOK
  <2> QED BY <1>1, <2>1, <2>2, OtherKindsDoNotMatter
<1>5. PlaceSteady'
  BY <1>1, <1>4 DEF ResIInv, PlaceSteady, Unsettle
<1>6. MapperFilled'
  BY <1>1, <1>4 DEF ResIInv, MapperFilled, Unsettle
<1>7. FoundIfKnown'
  BY <1>1, <1>4 DEF ResIInv, FoundIfKnown, AnsweredRightly, Unsettle
<1> QED BY <1>2, <1>3, <1>5, <1>6, <1>7 DEF ResIInv

\* Call c takes a step that leaves the cluster alone; ok tells whether it then
\* satisfies its own part of the invariant.
LEMMA OwnStep ==
    ASSUME ResIInv, NEW c \in Callers, ResTypeOK',
           UNCHANGED <<served, objects>>,
           known' = known \/ (known = NoMapper /\ known' \in SUBSET Kinds),
           \A d \in Callers \ {c} : /\ pc'[d] = pc[d] /\ request'[d] = request[d]
                                    /\ place'[d] = place[d] /\ answer'[d] = answer[d]
                                    /\ steady'[d] = steady[d],
           pc'[c] # "idle" =>
               \/ place'[c] = request'[c].place
               \/ /\ pc'[c] \in {"scoped", "mapped"}
                  /\ request'[c].op = "get" /\ request'[c].place = AllPlaces
                  /\ place'[c] = Default,
           (pc'[c] \in {"scoped", "mapped"} /\ steady'[c]) =>
               place'[c] = Promise!Meant(request[c])',
           (pc'[c] = "mapped" \/ (pc'[c] = "idle" /\ steady'[c])) => known' # NoMapper,
           (pc'[c] = "idle" /\ steady'[c] /\ known' # NoMapper /\ request'[c].kind \in known')
               => AnsweredRightly(c)'
    PROVE  ResIInv'
<1>0. \A d \in Callers \ {c} :
        /\ Promise!Meant(request[d])' = Promise!Meant(request[d])
        /\ AnsweredRightly(d)' <=> AnsweredRightly(d)
  BY OtherKindsDoNotMatter DEF AnsweredRightly, ResIInv
<1>1. PlaceFits'
  BY DEF ResIInv, PlaceFits
<1>2. PlaceSteady'
  BY <1>0 DEF ResIInv, PlaceSteady
<1>3. MapperFilled'
  BY MapperAssumption DEF ResIInv, MapperFilled
<1>4. FoundIfKnown'
  BY <1>0 DEF ResIInv, FoundIfKnown, MapperFilled
<1> QED BY <1>1, <1>2, <1>3, <1>4 DEF ResIInv

\* What a call's return leaves of the invariant to show: that the answer, if its
\* own requests worked, is the right one or that the mapper lacks the kind.
LEMMA ReturnResIInv ==
    ASSUME ResIInv, NEW c \in Callers, NEW a \in (SUBSET Promise!Objects) \cup {Error},
           NEW ok \in BOOLEAN, Return(c, a, ok), UNCHANGED known,
           (steady[c] /\ ok) =>
               /\ known # NoMapper
               /\ \/ request[c].kind \notin known
                  \/ a = Promise!Lookup(request[c], Promise!Meant(request[c]))
    PROVE  ResIInv'
<1> USE DEF Return, clusterVars
<1>1. ResTypeOK'
  BY DEF ResIInv, ResTypeOK
<1>2. pc'[c] = "idle" /\ answer'[c] = a /\ (steady'[c] <=> steady[c] /\ ok)
  BY DEF ResIInv, ResTypeOK
<1>3. Promise!Lookup(request[c], Promise!Meant(request[c]))'
        = Promise!Lookup(request[c], Promise!Meant(request[c]))
  BY OtherKindsDoNotMatter DEF ResIInv
<1>4. \A d \in Callers \ {c} : /\ pc'[d] = pc[d] /\ request'[d] = request[d]
                               /\ place'[d] = place[d] /\ answer'[d] = answer[d]
                               /\ steady'[d] = steady[d]
  BY DEF ResIInv, ResTypeOK
<1>5. (pc'[c] = "idle" /\ steady'[c] /\ known' # NoMapper /\ request'[c].kind \in known')
        => AnsweredRightly(c)'
  BY <1>2, <1>3 DEF AnsweredRightly
<1> QED BY <1>1, <1>2, <1>4, <1>5, OwnStep

\* A call's arrival, and each of its steps, keep the invariant.
LEMMA CallResIInv ==
    ASSUME ResIInv, NEW c \in Callers, Ask(c) \/ CallStep(c)
    PROVE  ResIInv'
<1>0. /\ request[c] \in Promise!Requests
      /\ request[c].kind \in Kinds
      /\ place[c] \in Promise!Places
  BY RequestFields DEF ResIInv, ResTypeOK
<1>1. CASE Ask(c)
  <2>1. PICK r \in Promise!Requests : /\ request' = [request EXCEPT ![c] = r]
                                      /\ place' = [place EXCEPT ![c] = r.place]
    BY <1>1 DEF Ask
  <2>2. r.place \in Promise!Places
    BY RequestFields
  <2>3. ResTypeOK'
    BY <1>1, <2>1, <2>2 DEF Ask, clusterVars, ResIInv, ResTypeOK
  <2>4. /\ pc'[c] = "called" /\ place'[c] = request'[c].place
        /\ \A d \in Callers \ {c} : /\ pc'[d] = pc[d] /\ request'[d] = request[d]
                                    /\ place'[d] = place[d] /\ answer'[d] = answer[d]
                                    /\ steady'[d] = steady[d]
    BY <1>1, <2>1 DEF Ask, ResIInv, ResTypeOK
  <2> QED BY <1>1, <2>3, <2>4, OwnStep DEF Ask, clusterVars
<1>2. ASSUME Return(c, Error, FALSE), UNCHANGED known
      PROVE  ResIInv'
  BY <1>2, ReturnResIInv
<1>3. CASE isNamespaced(c)
  <2>1. ResTypeOK'
    BY <1>3, PlacesAssumption
    DEF isNamespaced, clusterVars, ResIInv, ResTypeOK, Promise!Places
  <2>2. /\ pc'[c] = "scoped" /\ place'[c] \in {Default, AllPlaces}
        /\ request[c].op = "get" /\ request[c].place = AllPlaces
        /\ place'[c] = Promise!Meant(request[c])
        /\ \A d \in Callers \ {c} : pc'[d] = pc[d] /\ place'[d] = place[d]
    BY <1>3 DEF isNamespaced, NeedsScope, Promise!Meant, ResIInv, ResTypeOK
  <2>3. Promise!Meant(request[c])' = Promise!Meant(request[c])
    BY <1>3 DEF isNamespaced, clusterVars, Promise!Meant
  <2> QED BY <1>3, <2>1, <2>2, <2>3, OwnStep DEF isNamespaced, clusterVars
<1>4. CASE Discover(c)
  <2>1. ResTypeOK'
    BY <1>4 DEF Discover, clusterVars, ResIInv, ResTypeOK
  <2>2. /\ pc[c] \in {"called", "scoped"} /\ (steady'[c] => steady[c])
        /\ known' \in SUBSET Kinds
        /\ \A d \in Callers \ {c} : steady'[d] = steady[d]
    BY <1>4 DEF Discover, AtMapper, ResIInv, ResTypeOK
  <2>3. Promise!Meant(request[c])' = Promise!Meant(request[c])
    BY <1>4 DEF Discover, clusterVars, Promise!Meant
  <2> QED BY <1>4, <2>1, <2>2, <2>3, OwnStep
          DEF Discover, clusterVars, ResIInv, PlaceFits, PlaceSteady
<1>5. CASE RESTMapping(c)
  <2>1. ResTypeOK'
    BY <1>5 DEF RESTMapping, clusterVars, ResIInv, ResTypeOK
  <2>2. /\ pc[c] \in {"called", "scoped"} /\ pc'[c] = "mapped"
        /\ \A d \in Callers \ {c} : pc'[d] = pc[d]
    BY <1>5 DEF RESTMapping, AtMapper, ResIInv, ResTypeOK
  <2>3. Promise!Meant(request[c])' = Promise!Meant(request[c])
    BY <1>5 DEF RESTMapping, clusterVars, Promise!Meant
  <2>4. steady[c] => place[c] = Promise!Meant(request[c])
    BY <1>5 DEF RESTMapping, AtMapper, NeedsScope, Promise!Meant,
                ResIInv, PlaceFits, PlaceSteady
  <2> QED BY <1>5, <2>1, <2>2, <2>3, <2>4, OwnStep
          DEF RESTMapping, clusterVars, ResIInv, PlaceFits
<1>6. CASE NoMapping(c)
  BY <1>6, ReturnResIInv DEF NoMapping
<1>7. CASE getResource(c) \/ listResources(c)
  <2>1. /\ pc[c] = "mapped" /\ UNCHANGED known
        /\ Return(c, Promise!Lookup(request[c], place[c]), TRUE)
    BY <1>7 DEF getResource, listResources
  <2>2. steady[c] => place[c] = Promise!Meant(request[c]) /\ known # NoMapper
    BY <2>1 DEF ResIInv, PlaceSteady, MapperFilled
  <2>3. Promise!Lookup(request[c], place[c]) \in (SUBSET Promise!Objects) \cup {Error}
    BY LookupType DEF ResIInv
  <2> QED BY <2>1, <2>2, <2>3, ReturnResIInv
<1>8. CASE Reject(c) \/ ValidateOutputParams(c) \/ isNamespacedFails(c)
             \/ DiscoverFails(c) \/ ReadFails(c) \/ ConversionFails(c)
  BY <1>2, <1>8 DEF Reject, ValidateOutputParams, isNamespacedFails, DiscoverFails,
                    ReadFails, ConversionFails
<1> QED BY <1>1, <1>3, <1>4, <1>5, <1>6, <1>7, <1>8 DEF CallStep

\* The inductive invariant of reads and changes of the cluster.
THEOREM ResInvariance == Spec => []ResIInv
<1>1. ResIInv /\ [Next]_vars => ResIInv'
  <2> SUFFICES ASSUME ResIInv, [Next]_vars PROVE ResIInv'
    OBVIOUS
  <2>1. CASE UNCHANGED vars
    <3>1. ResTypeOK' /\ PlaceFits' /\ MapperFilled'
      BY <2>1 DEF vars, clusterVars, ResIInv, ResTypeOK, PlaceFits, MapperFilled
    <3>2. \A c \in Callers :
            /\ Promise!Meant(request[c])' = Promise!Meant(request[c])
            /\ Promise!Lookup(request[c], Promise!Meant(request[c]))'
                 = Promise!Lookup(request[c], Promise!Meant(request[c]))
      BY <2>1, OtherKindsDoNotMatter DEF vars, clusterVars, ResIInv
    <3>3. PlaceSteady' /\ FoundIfKnown'
      BY <2>1, <3>2 DEF vars, ResIInv, PlaceSteady, FoundIfKnown, AnsweredRightly
    <3> QED BY <3>1, <3>3 DEF ResIInv
  <2>2. CASE Next
    BY <2>2, ChangeResIInv, CallResIInv DEF Next
  <2> QED BY <2>1, <2>2
<1> QED BY <1>1, InitResIInv, PTL DEF Spec

\* FoundIfKnown for any kinds, callers and changes of the cluster: a call whose
\* kind stayed as it was, whose requests worked and whose kind the shared mapper
\* knows gets what the cluster holds (getResource, listResources).
THEOREM KnownKindsAreFound == Spec => []FoundIfKnown
<1>1. ResIInv => FoundIfKnown
  BY DEF ResIInv
<1> QED BY <1>1, ResInvariance, PTL

-----------------------------------------------------------------------------
(* The refinement. *)

\* A return is an answer of ClusterReads.
LEMMA ReturnIsReply ==
    ASSUME ResIInv, NEW c \in Callers, NEW ok,
           NEW a \in {Error, Promise!Lookup(request[c], Promise!Meant(request[c]))},
           pc[c] # "idle", Return(c, a, ok)
    PROVE  Promise!Reply(c)
<1>1. c \in Busy /\ Busy' = Busy \ {c}
  BY DEF Busy, Return, ResIInv, ResTypeOK
<1> QED BY <1>1 DEF Promise!Reply, Return, clusterVars

\* Every step is a step of ClusterReads or leaves what it sees unchanged.
LEMMA StepsRefine ==
    ASSUME ResIInv, [Next]_vars
    PROVE  [Promise!Next]_(Promise!vars)
<1>1. CASE UNCHANGED vars
  BY <1>1 DEF vars, clusterVars, Busy, Promise!vars
<1>2. ASSUME NEW k \in Kinds, Install(k) \/ Remove(k) \/ Edit(k)
      PROVE  Promise!Change
  <2>1. UNCHANGED <<pc, request, answer>>
    BY <1>2, ClusterChange DEF Unsettle
  <2> QED BY <1>2, <2>1, ClusterChange DEF Promise!Change, Busy
<1>3. ASSUME NEW c \in Callers, Ask(c)
      PROVE  Promise!Ask(c)
  <2>1. c \notin Busy /\ Busy' = Busy \cup {c}
    BY <1>3 DEF Ask, Busy, ResIInv, ResTypeOK
  <2> QED BY <1>3, <2>1 DEF Ask, Promise!Ask, clusterVars
<1>4. ASSUME NEW c \in Callers, isNamespaced(c) \/ Discover(c) \/ RESTMapping(c)
      PROVE  UNCHANGED Promise!vars
  <2>1. UNCHANGED <<served, objects, request, answer>>
    BY <1>4 DEF isNamespaced, Discover, RESTMapping, clusterVars
  <2>2. Busy' = Busy
    BY <1>4 DEF Busy, isNamespaced, NeedsScope, Discover, RESTMapping, AtMapper,
                ResIInv, ResTypeOK
  <2> QED BY <2>1, <2>2 DEF Promise!vars
<1>5. ASSUME NEW c \in Callers, getResource(c) \/ listResources(c)
      PROVE  Promise!Reply(c)
  <2>1. /\ pc[c] = "mapped"
        /\ Return(c, Promise!Lookup(request[c], place[c]), TRUE)
    BY <1>5 DEF getResource, listResources
  <2>2. /\ request[c] \in Promise!Requests /\ place[c] \in Promise!Places
        /\ \/ place[c] = request[c].place
           \/ request[c].op = "get" /\ request[c].place = AllPlaces /\ place[c] = Default
    BY <2>1 DEF ResIInv, ResTypeOK, PlaceFits
  <2>3. Promise!Lookup(request[c], place[c])
          \in {Error, Promise!Lookup(request[c], Promise!Meant(request[c]))}
    BY <2>2, StalePlaceIsHarmless
  <2> QED BY <2>1, <2>3, ReturnIsReply
<1>6. ASSUME NEW c \in Callers,
             Reject(c) \/ ValidateOutputParams(c) \/ isNamespacedFails(c)
               \/ DiscoverFails(c) \/ NoMapping(c) \/ ReadFails(c) \/ ConversionFails(c)
      PROVE  Promise!Reply(c)
  <2>1. \E ok : Return(c, Error, ok)
    BY <1>6 DEF Reject, ValidateOutputParams, isNamespacedFails, DiscoverFails,
                NoMapping, ReadFails, ConversionFails
  <2>2. pc[c] # "idle"
    BY <1>6 DEF Reject, ValidateOutputParams, isNamespacedFails, DiscoverFails,
                NoMapping, ReadFails, ConversionFails, NeedsScope, AtMapper
  <2> QED BY <2>1, <2>2, ReturnIsReply
<1> QED BY <1>1, <1>2, <1>3, <1>4, <1>5, <1>6 DEF Next, CallStep, Promise!Next

\* ImplementsReads for any kinds, callers and changes of the cluster: whatever
\* happens between a call's requests for the scope, for the path and for the
\* objects, it is answered once, with an error or with exactly what the cluster
\* holds for the client's request at the moment of the read.
THEOREM ReadsImplementPromise == Spec => ImplementsReads
<1>1. Init => Promise!Init
  <2> SUFFICES ASSUME Init PROVE Promise!Init
    OBVIOUS
  <2>1. ResTypeOK /\ Busy = {}
    BY InitResIInv DEF ResIInv, Init, Busy
  <2> QED BY <2>1 DEF Init, ResTypeOK, Promise!Init
<1>2. ResIInv /\ [Next]_vars => [Promise!Next]_(Promise!vars)
  BY StepsRefine
<1> QED BY <1>1, <1>2, ResInvariance, PTL DEF Spec, ImplementsReads, Promise!Spec
=============================================================================
