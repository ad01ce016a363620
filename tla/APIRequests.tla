---------------------------- MODULE APIRequests ----------------------------
(***************************************************************************)
(* What stands between a request to the simulated Kubernetes API and the   *)
(* object store (honeypots/k8s/handler/api.go): how a path and a method    *)
(* become an operation on a key, the checks of create, update, patch,      *)
(* delete and their subresources, and lists that are read page by page     *)
(* with a continue token.                                                  *)
(*                                                                         *)
(* The store itself is ObjectStore and the controllers' own writes are     *)
(* Workloads; here a stored object is its metadata (name, namespace and    *)
(* one label), every store method is one step, and a request is a check    *)
(* followed by the store calls it still has to make. A request that is     *)
(* refused changes nothing and is not a step.                              *)
(***************************************************************************)
EXTENDS Integers, Sequences, SequencesExt, FiniteSets, FiniteSetsExt, Functions, TLC

CONSTANTS
    Order,              \* the names and namespaces, in the order of their text
    InvalidNames,       \* those of them that are not DNS subdomains
    RequestPaths,       \* request paths, as sequences of segments
    Bodies,             \* decoded objects: [name, prefix, ns, label, shape]
    GeneratedNames,     \* the names that generateName leads to, in their order
    Queries,            \* list requests: [gv, res, ns, labels, fields, limit, asked]
    Sweeps,             \* selectors of a deleteCollection: [labels, fields]
    Handlers,           \* handlers that run at a time
    InitialObjects,     \* the seeded objects
    Bytes,              \* Bytes[label]: encoded length of an object with that label
    MaxListLimit, MaxListPageItems, MaxListPageBytes,
    MaxWrites           \* bound of the model: writes after the seeds

ASSUME SeedsFinite == IsFiniteSet(DOMAIN InitialObjects)
ASSUME PageConstants == MaxListPageItems \in Nat \ {0} /\ MaxListLimit \in Nat /\ Queries # {}

VARIABLES
    objects,    \* the stored object of every key that has one
    rev,        \* the store's revision
    generated,  \* how many names the store has generated
    job,        \* job[h]: the store calls the request of handler h still makes
    walk        \* one client's list, read page by page

apiVars == <<objects, rev, generated, job, walk>>

FirstRevision == 1000

----------------------------------------------------------------------------
(* Routing.                                                                *)

Core == <<"", "v1">>
Apps == <<"apps", "v1">>
Metrics == <<"metrics.k8s.io", "v1beta1">>
Authorization == <<"authorization.k8s.io", "v1">>

\* A part of the catalogue: namespaced and cluster-wide resources.
Namespaced(gv) ==
    CASE gv = Core -> {"pods", "serviceaccounts", "configmaps"}
      [] gv = Apps -> {"deployments"}
      [] gv = Metrics -> {"pods"}
      [] gv = Authorization -> {"localsubjectaccessreviews"}
      [] OTHER -> {}
ClusterWide(gv) ==
    CASE gv = Core -> {"nodes", "namespaces"} [] gv = Metrics -> {"nodes"} [] OTHER -> {}
Resources(gv) == Namespaced(gv) \cup ClusterWide(gv)

Route(op, gv, res, ns, name) == [op |-> op, gv |-> gv, res |-> res, ns |-> ns, name |-> name]
NoRoute == Route("refused", Core, "", "", "")
Key(r) == [gv |-> r.gv, res |-> r.res, ns |-> r.ns, name |-> r.name]

\* A key under which the catalogue has a resource: in a namespace exactly for a
\* namespaced one, and with a name that is one segment of a path.
Addressable(k) ==
    /\ k = Key(k) /\ k.gv \in {Core, Apps} /\ k.res \in Resources(k.gv)
    /\ IF k.res \in Namespaced(k.gv) THEN k.ns \notin {"", ".", ".."} ELSE k.ns = ""
    /\ k.name \notin {"", ".", "..", "x/y"}

ASSUME PathsAreSequences == \A p \in RequestPaths : p \in Seq(Range(p))
ASSUME NamesAreChecked ==
    /\ {"", ".", "..", "x/y"} \subseteq InvalidNames
    /\ Len(GeneratedNames) \in Nat
    /\ \A i \in 1 .. Len(GeneratedNames) : GeneratedNames[i] \notin InvalidNames
ASSUME SeedsAddressable ==
    \A k \in DOMAIN InitialObjects : Addressable(k) /\ InitialObjects[k].name = k.name

\* splitPath: path.Clean drops empty and "." segments and resolves "..".
Cleaned(clean, s) ==
    CASE s \in {"", "."} -> clean
      [] s = ".." -> IF clean = <<>> THEN clean ELSE Front(clean)
      [] OTHER -> Append(clean, s)
SplitPath(path) == FoldLeft(Cleaned, <<>>, path)

\* serveSubresource. The status and ephemeralcontainers subresources go to
\* update and patch without the checks of serveResourcePath.
Subresource(gv, ns, res, name, sub, method) ==
    LET to(op) == Route(op, gv, res, ns, name)
    IN CASE name = "" -> NoRoute
         [] sub = "eviction" /\ gv = Core /\ res = "pods" ->
              IF method = "POST" THEN to("evict") ELSE NoRoute
         [] sub = "scale" /\ gv = Apps /\ res \in {"deployments", "statefulsets", "replicasets"} ->
              IF method \in {"PUT", "PATCH"} THEN to("scale")
              ELSE IF method = "GET" THEN to("get") ELSE NoRoute
         [] sub = "token" /\ gv = Core /\ res = "serviceaccounts" ->
              IF method = "POST" THEN to("token") ELSE NoRoute
         [] gv # Core -> NoRoute
         [] sub = "ephemeralcontainers" /\ res = "pods" ->
              IF method = "PATCH" THEN to("patch") ELSE to("get")
         [] sub = "log" /\ res = "pods" -> to("log")
         [] sub = "status" /\ method = "GET" -> to("get")
         [] sub = "status" /\ method = "PATCH" /\ res \in Resources(gv) -> to("patch")
         [] sub = "status" /\ method = "PUT" /\ res \in Resources(gv) -> to("update")
         [] OTHER -> NoRoute

\* The operation of a method on a collection and on a named object.
OnCollection(method) ==
    CASE method = "GET" -> "list" [] method = "POST" -> "create" [] method = "DELETE" -> "sweep"
      [] OTHER -> "refused"
OnObject(method) ==
    CASE method = "GET" -> "get" [] method = "PUT" -> "update" [] method = "PATCH" -> "patch"
      [] method = "DELETE" -> "delete" [] OTHER -> "refused"

\* A namespace for a cluster-wide resource, or a named object of a namespaced
\* one without a namespace, is not found.
InScope(gv, res, ns, name) ==
    /\ res \notin Namespaced(gv) => ns = ""
    /\ res \in Namespaced(gv) => ns # "" \/ name = ""

\* serveResourcePath: parts is what follows the group and version.
ResourcePath(gv, parts, method, watch) ==
    LET scoped == Len(parts) >= 3 /\ parts[1] = "namespaces"
        rest == IF scoped THEN SubSeq(parts, 3, Len(parts)) ELSE parts
        ns == IF scoped THEN parts[2] ELSE ""
        name == IF Len(rest) > 1 THEN rest[2] ELSE ""
        to(op) == Route(op, gv, rest[1], ns, name)
    IN CASE parts = <<>> -> NoRoute
         [] Len(rest) > 2 -> Subresource(gv, ns, rest[1], name, rest[3], method)
         [] rest[1] \notin Resources(gv) \/ ~InScope(gv, rest[1], ns, name) -> NoRoute
         [] gv = Metrics -> to("metrics")
         [] gv = Authorization -> to("review")
         [] watch -> IF name = "" /\ method = "GET" THEN to("watch") ELSE NoRoute
         [] OTHER -> to(IF name = "" THEN OnCollection(method) ELSE OnObject(method))

\* ServeHTTP on a path that is none of the fixed documents. "discovery" is a
\* generated document or the refusal of one, which change nothing.
Serve(path, method, watch) ==
    LET parts == SplitPath(path)
        discovery == Route("discovery", Core, "", "", "")
    IN CASE parts = <<>> -> discovery
         [] parts[1] = "apis" ->
              IF Len(parts) <= 3 THEN discovery
              ELSE ResourcePath(<<parts[2], parts[3]>>, SubSeq(parts, 4, Len(parts)), method, watch)
         [] parts[1] = "api" /\ Len(parts) >= 2 /\ parts[2] = "v1" ->
              IF Len(parts) = 2 THEN discovery
              ELSE ResourcePath(Core, SubSeq(parts, 3, Len(parts)), method, watch)
         [] parts = <<"api">> -> discovery
         [] OTHER -> NoRoute

Methods == {"GET", "POST", "PUT", "PATCH", "DELETE", "OPTIONS"}

\* The routes the paths of a run lead to, by the operations that write.
Routes ==
    LET all == {Serve(p, m, w) : p \in RequestPaths, m \in Methods, w \in BOOLEAN}
    IN [op \in {"create", "update", "patch", "scale", "delete", "evict", "sweep"} |-> {r \in all : r.op = op}]

----------------------------------------------------------------------------
(* Selectors, lists and continue tokens.                                   *)

\* parseSelector: requirements or nothing, and whether the text was valid.
ParseSelector(raw) ==
    LET valid == \A i \in DOMAIN raw : raw[i].op # "" /\ raw[i].key # "" /\ raw[i].value # ""
    IN [ok |-> valid, reqs |-> IF valid THEN raw ELSE <<>>]

FieldKeys == {"metadata.name", "metadata.namespace", "status.phase"}

ValidFieldSelector(raw) ==
    /\ ParseSelector(raw).ok
    /\ \A i \in DOMAIN raw : raw[i].key \in FieldKeys

\* matchesRequirement; an absent value is "".
MatchesRequirement(actual, req) ==
    IF req.op = "!=" THEN actual # req.value ELSE actual # "" /\ actual = req.value

ObjectMatches(object, labels, fields) ==
    LET field(key) == CASE key = "metadata.name" -> object.name
                        [] key = "metadata.namespace" -> object.ns
                        [] OTHER -> ""
    IN /\ \A i \in DOMAIN labels :
            MatchesRequirement(IF labels[i].key = "app" THEN object.label ELSE "", labels[i])
       /\ \A i \in DOMAIN fields :
            fields[i].key \in FieldKeys /\ MatchesRequirement(field(fields[i].key), fields[i])

Rank(text) == IF text = "" THEN 0 ELSE SelectInSeq(Order, LAMBDA s : s = text)

\* The keys of a collection that match, in the order of listPage. An invalid
\* label selector is no requirement: list only looks at the field selector.
Candidates(gv, res, ns, labels, fields) ==
    LET matching == {k \in DOMAIN objects :
                       /\ k.gv = gv /\ k.res = res /\ (ns = "" \/ k.ns = ns)
                       /\ ObjectMatches(objects[k], ParseSelector(labels).reqs, ParseSelector(fields).reqs)}
        before(j, k) == \/ Rank(j.ns) < Rank(k.ns)
                        \/ Rank(j.ns) = Rank(k.ns) /\ Rank(j.name) < Rank(k.name)
    IN [i \in 1 .. Cardinality(matching) |->
          CHOOSE k \in matching : Cardinality({j \in matching : before(j, k)}) = i - 1]

Matching(q) == Candidates(q.gv, q.res, q.ns, q.labels, q.fields)

\* parseListLimit: 0 asks for as many as a page holds, NoLimit is no parameter.
NoLimit == -1
ValidLimit(limit) == limit \in -1..MaxListLimit
PageLimit(limit) == IF limit \in {NoLimit, 0} \/ limit > MaxListPageItems THEN MaxListPageItems ELSE limit

\* What the token's digest covers; the limit is not part of it.
Identity(q) == <<q.gv, q.res, q.ns, q.labels, q.fields>>

NoToken == [rev |-> 0, identity |-> <<>>, offset |-> 0]

\* Mutant: the revision of the token is not compared.
ParseContinueAnyRevision(token, revision, q) == token = NoToken \/ token.identity = Identity(q)

\* parseContinue: the token is for this revision and this selection.
ParseContinue(token, revision, q) ==
    token = NoToken \/ (token.rev = revision /\ token.identity = Identity(q))

\* listPage: how many of the candidates after offset fit a page. The first
\* always does, whatever its size.
PageEnd(candidates, offset, limit) ==
    LET size(n) == FoldLeft(LAMBDA sum, k : sum + Bytes[objects[k].label], 0,
                            SubSeq(candidates, offset + 1, n))
        most == IF offset + limit > Len(candidates) THEN Len(candidates) ELSE offset + limit
        fits == {n \in offset..most : n <= offset + 1 \/ size(n) <= MaxListPageBytes}
    IN Max(fits)

Idle == [at |-> "idle", q |-> CHOOSE q \in Queries : TRUE, rev |-> 0, token |-> NoToken,
         got |-> <<>>, promised |-> <<>>, torn |-> FALSE]

\* list up to parseContinue: the revision is read and the token checked, for a
\* first page or with the token of the page before. The request that goes on
\* may ask for another limit or another selection.
ListCheck ==
    /\ walk.at \in {"idle", "between"}
    /\ \E q \in Queries :
         /\ ValidFieldSelector(q.fields) /\ ValidLimit(q.limit)
         /\ walk' = IF ParseContinue(walk.token, rev, q)
                    THEN [walk EXCEPT !.at = "checked", !.q = q, !.rev = rev,
                                      !.promised = IF walk.at = "idle" THEN Matching(q) ELSE @]
                    ELSE [walk EXCEPT !.at = "expired"]
    /\ UNCHANGED <<objects, rev, generated, job>>

\* list from listPage on, in a critical section of its own.
ListPage ==
    /\ walk.at = "checked"
    /\ LET candidates == Matching(walk.q)
           offset == walk.token.offset
           end == PageEnd(candidates, offset, PageLimit(walk.q.limit))
           page == [walk EXCEPT !.got = @ \o SubSeq(candidates, offset + 1, end),
                                !.torn = @ \/ rev # walk.rev]
       IN walk' = CASE \/ offset > Len(candidates)
                       \/ walk.q.asked # 0 /\ walk.q.asked # walk.rev -> [walk EXCEPT !.at = "expired"]
                    [] end < Len(candidates) ->
                         [page EXCEPT !.at = "between",
                                      !.token = [rev |-> walk.rev, identity |-> Identity(walk.q), offset |-> end]]
                    [] OTHER -> [page EXCEPT !.at = "done"]
    /\ UNCHANGED <<objects, rev, generated, job>>

----------------------------------------------------------------------------
(* Writes: the checks of a request, then its store calls one by one.       *)

ValidObjectName(name) == name \notin InvalidNames
NamespaceExists(ns) == [gv |-> Core, res |-> "namespaces", ns |-> "", name |-> ns] \in DOMAIN objects

Idler(h) == job[h] = <<>>
Call(act, key, object) == [act |-> act, key |-> key, object |-> object]
Start(h, calls) == job' = [job EXCEPT ![h] = calls] /\ UNCHANGED <<objects, rev, walk>>

\* The routes of an operation whose object is found.
Stored(op) == {r \in Routes[op] : Key(r) \in DOMAIN objects}

\* seedNamespaceObjects: what every new namespace is given.
NamespaceSeeds(ns) ==
    LET at(res, name) == [gv |-> Core, res |-> res, ns |-> ns, name |-> name]
        object(name) == [name |-> name, ns |-> ns, label |-> ""]
    IN << Call("SEED", at("serviceaccounts", "default"), object("default")),
          Call("SEED", at("configmaps", "kube-root-ca.crt"), object("kube-root-ca.crt")) >>

\* nextName: the counter moves for a prefix that gives a valid name, whatever
\* becomes of the request. Counters are unique, names of one prefix as well.
NextName(prefix) ==
    /\ prefix # "" /\ ValidObjectName(prefix)
    /\ generated < Len(GeneratedNames)
    /\ generated' = generated + 1

\* create up to its put. The body's own namespace must agree with the path's,
\* and is kept as it is for a cluster-wide resource; without a name, one is
\* generated.
Create(h) ==
    /\ Idler(h)
    /\ \E r \in {q \in Routes["create"] : q.res \in Namespaced(q.gv) => q.ns # "" /\ NamespaceExists(q.ns)},
          b \in Bodies :
         /\ b.shape
         /\ r.ns # "" => b.ns \in {"", r.ns}
         /\ IF b.name = "" THEN NextName(b.prefix) ELSE ValidObjectName(b.name) /\ UNCHANGED generated
         /\ LET ns == IF r.ns # "" THEN r.ns ELSE b.ns
                name == IF b.name = "" THEN GeneratedNames[generated + 1] ELSE b.name
            IN Start(h, <<Call("ADDED", [Key(r) EXCEPT !.name = name], [name |-> name, ns |-> ns, label |-> b.label])>>
                        \o IF r.res = "namespaces" THEN NamespaceSeeds(name) ELSE <<>>)

\* Mutant: update does not look whether the object is there.
UpdateAnyKey(h) ==
    /\ Idler(h) /\ UNCHANGED generated
    /\ \E r \in Routes["update"], b \in Bodies :
         /\ b.shape /\ b.name = r.name
         /\ r.ns # "" => b.ns \in {"", r.ns}
         /\ Start(h, <<Call("MODIFIED", Key(r), [name |-> r.name, ns |-> IF r.ns # "" THEN r.ns ELSE b.ns, label |-> b.label])>>)

\* update up to its put: the name must agree, the object must be there.
Update(h) ==
    /\ Idler(h) /\ UNCHANGED generated
    /\ \E r \in Stored("update"), b \in Bodies :
         /\ b.shape /\ b.name = r.name
         /\ r.ns # "" => b.ns \in {"", r.ns}
         /\ Start(h, <<Call("MODIFIED", Key(r), [name |-> r.name, ns |-> IF r.ns # "" THEN r.ns ELSE b.ns, label |-> b.label])>>)

\* patch and scale up to their put. A patch may change anything but the name,
\* which is written back; a scale changes nothing that is modelled here.
Patch(h) ==
    /\ Idler(h) /\ UNCHANGED generated
    /\ \/ \E r \in Stored("patch"), b \in Bodies :
            /\ b.shape
            /\ Start(h, <<Call("MODIFIED", Key(r), [name |-> r.name, ns |-> b.ns, label |-> b.label])>>)
       \/ \E r \in Stored("scale") :
            Start(h, <<Call("MODIFIED", Key(r), objects[Key(r)])>>)

\* delete and eviction: one store call.
Delete(h) ==
    /\ Idler(h) /\ UNCHANGED generated
    /\ \E r \in Stored("delete") \cup Stored("evict") :
         Start(h, <<Call("DELETED", Key(r), objects[Key(r)])>>)

\* deleteCollection: both selectors must be valid; the matching keys are
\* collected first and deleted one by one.
DeleteCollection(h) ==
    /\ Idler(h) /\ UNCHANGED generated
    /\ \E r \in Routes["sweep"], s \in Sweeps :
         /\ ParseSelector(s.labels).ok /\ ValidFieldSelector(s.fields)
         /\ LET keys == Candidates(r.gv, r.res, r.ns, s.labels, s.fields)
            IN keys # <<>> /\ Start(h, [i \in DOMAIN keys |-> Call("DELETED", keys[i], objects[keys[i]])])

\* The next store call of a request. An ADDED key that is taken ends the
\* request, a seed that is taken is passed over, a delete of what is gone does
\* nothing. Keys of a sweep come in any order.
StoreCall(h) ==
    /\ ~Idler(h) /\ rev < FirstRevision + MaxWrites
    /\ \E i \in DOMAIN job[h] :
         LET call == job[h][i]
             there == call.key \in DOMAIN objects
             taken == there /\ call.act \in {"ADDED", "SEED"}
             effect == IF call.act = "DELETED" THEN there ELSE ~taken
         IN /\ i = 1 \/ call.act = "DELETED"
            /\ objects' = IF ~effect THEN objects
                          ELSE IF call.act = "DELETED" THEN Restrict(objects, DOMAIN objects \ {call.key})
                          ELSE [k \in DOMAIN objects \cup {call.key} |->
                                  IF k = call.key THEN call.object ELSE objects[k]]
            /\ rev' = IF effect THEN rev + 1 ELSE rev
            /\ job' = [job EXCEPT ![h] = IF taken /\ call.act = "ADDED" THEN <<>> ELSE RemoveAt(@, i)]
    /\ UNCHANGED <<generated, walk>>

\* put refuses for want of room: the request ends, except for a seed.
Refuse(h) ==
    /\ ~Idler(h) /\ Head(job[h]).act # "DELETED"
    /\ job' = [job EXCEPT ![h] = IF Head(@).act = "SEED" THEN Tail(@) ELSE <<>>]
    /\ UNCHANGED <<objects, rev, generated, walk>>

----------------------------------------------------------------------------

APIInit ==
    /\ objects = InitialObjects /\ rev = FirstRevision /\ generated = 0
    /\ job = [h \in Handlers |-> <<>>] /\ walk = Idle

Writing(h) == Create(h) \/ Update(h) \/ Patch(h) \/ Delete(h) \/ DeleteCollection(h) \/ StoreCall(h) \/ Refuse(h)

List == ListCheck \/ ListPage

APINext == (\E h \in Handlers : Writing(h)) \/ List

APISpec == APIInit /\ [][APINext]_apiVars

----------------------------------------------------------------------------

\* The path under which clients find an object; a name with a slash is two
\* segments of a path.
CanonicalPath(k) ==
    (IF k.gv = Core THEN <<"api", "v1">> ELSE <<"apis">> \o k.gv)
    \o (IF k.ns = "" THEN <<>> ELSE <<"namespaces", k.ns>>)
    \o <<k.res>> \o (IF k.name = "x/y" THEN <<"x", "y">> ELSE <<k.name>>)

\* Whatever requests were made, through subresources too, every stored object
\* can be read, changed and deleted under its own path, and carries the name it
\* is stored under (serveResourcePath, create, update, patch).
StoredIsAddressable ==
    \A k \in DOMAIN objects :
        /\ objects[k].name = k.name
        /\ \A m \in {"GET", "PUT", "PATCH", "DELETE"} :
             Serve(CanonicalPath(k), m, FALSE) = Route(OnObject(m), k.gv, k.res, k.ns, k.name)

\* A list that was read to its end page by page is exactly the matching objects
\* of the revision it began with, in order and each once, whatever was written
\* between two pages, unless a write fell into a page, between the check of the
\* token and the reading of the objects (list, parseContinue, listPage).
PagesAgree == walk.at = "done" /\ ~walk.torn => walk.got = walk.promised
====
