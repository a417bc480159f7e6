---------------------------- MODULE ClusterReads ----------------------------
(***************************************************************************)
(* What resource-get and resource-list promise a client: a call is         *)
(* answered once, with an error or with what the cluster holds at one      *)
(* moment of the call.  Nothing is said of discovery, of REST mappings or  *)
(* of the order of requests.                                               *)
(***************************************************************************)
CONSTANTS Callers,     \* clients with at most one call under way
          Kinds,       \* group, version and kind
          Names,
          Namespaces,
          Default,     \* the namespace "default"
          AllPlaces,   \* the empty namespace: none is given, or cluster-scoped
          Error,       \* the answer that is none
          Selections   \* the sets of names that label selectors select

VARIABLES served,   \* each kind's scope in the cluster, or "absent"
          objects,  \* the objects in the cluster
          busy,     \* the calls that are being served
          request,  \* each caller's last request
          answer    \* its answer: a set of objects, or Error

vars == <<served, objects, busy, request, answer>>

Scopes  == {"absent", "namespaced", "cluster"}
Places  == Namespaces \cup {AllPlaces}
Objects == [kind : Kinds, place : Places, name : Names]

\* A get names one object, a list the ones its label selector selects.
Requests == [op : {"get"}, kind : Kinds, place : Places,
             names : {{n} : n \in Names}]
     \cup   [op : {"list"}, kind : Kinds, place : Places, names : Selections]

\* What the cluster holds for request r at place p.  A path with a namespace is
\* served for namespaced kinds; one without for cluster-scoped kinds, and for
\* the list of a namespaced kind across all namespaces.
Found(r, p) ==
    {o \in objects : /\ o.kind = r.kind
                     /\ o.name \in r.names
                     /\ o.place = p \/ (r.op = "list" /\ p = AllPlaces)}

Exists(r, p) ==
    \/ served[r.kind] = "namespaced" /\ (p # AllPlaces \/ r.op = "list")
    \/ served[r.kind] = "cluster" /\ p = AllPlaces

Lookup(r, p) ==
    IF Exists(r, p) /\ (r.op = "get" => Found(r, p) # {}) THEN Found(r, p)
                                                          ELSE Error

\* The place that a request is about: a get without a namespace is about the
\* default namespace if the kind has namespaces.
Meant(r) ==
    IF r.op = "get" /\ r.place = AllPlaces /\ served[r.kind] = "namespaced"
      THEN Default
      ELSE r.place

Init ==
    /\ served \in [Kinds -> Scopes]
    /\ objects \subseteq Objects
    /\ busy = {}
    /\ request \in [Callers -> Requests]
    /\ answer = [c \in Callers |-> Error]

\* The cluster changes.
Change ==
    /\ served' \in [Kinds -> Scopes]
    /\ objects' \in SUBSET Objects
    /\ UNCHANGED <<busy, request, answer>>

\* A call arrives.
Ask(c) ==
    /\ c \notin busy
    /\ busy' = busy \cup {c}
    /\ \E r \in Requests : request' = [request EXCEPT ![c] = r]
    /\ answer' = [answer EXCEPT ![c] = Error]
    /\ UNCHANGED <<served, objects>>

\* The call is answered with what it is about, or with an error.
Reply(c) ==
    /\ c \in busy
    /\ busy' = busy \ {c}
    /\ \E a \in {Error, Lookup(request[c], Meant(request[c]))} :
         answer' = [answer EXCEPT ![c] = a]
    /\ UNCHANGED <<served, objects, request>>

Next == Change \/ \E c \in Callers : Ask(c) \/ Reply(c)

Spec == Init /\ [][Next]_vars
=============================================================================
