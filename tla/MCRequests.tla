----------------------------- MODULE MCRequests ----------------------------
(* Small instances of the request side: one behaviour either runs the       *)
(* Kubernetes API's requests or is one input of a pure algorithm.           *)
EXTENDS APIRequests, JSONPatch, Inputs

CONSTANT Tasks      \* what a run looks at

vars == <<apiVars, task>>

----------------------------------------------------------------------------
(* Requests to the API.                                                    *)

MCOrder == <<"a", "b", "default", "g1", "kube-root-ca.crt", "p", "q", "x/y">>
MCGeneratedNames == <<"g1">>

At(gv, res, ns, name) == [gv |-> gv, res |-> res, ns |-> ns, name |-> name]
MCInitialObjects ==
    (At(Core, "namespaces", "", "a") :> [name |-> "a", ns |-> "", label |-> ""])
    @@ (At(Core, "pods", "a", "p") :> [name |-> "p", ns |-> "a", label |-> "web"])
    @@ (At(Core, "pods", "a", "q") :> [name |-> "q", ns |-> "a", label |-> ""])
    @@ (At(Core, "pods", "b", "p") :> [name |-> "p", ns |-> "b", label |-> "web"])
    @@ (At(Apps, "deployments", "a", "p") :> [name |-> "p", ns |-> "a", label |-> ""])

\* Every path of up to five segments after the core group, and a few others.
MCPaths ==
    LET first == {"namespaces", "pods", "nodes", "a"}
        parts == UNION {[1..n -> {"a", "p", "pods", "nodes", "namespaces", "status", "eviction"}] : n \in 0..4}
    IN {<<"api", "v1", f>> \o s : f \in first, s \in parts}
       \cup { <<>>, <<"">>, <<"api">>, <<"api", "v1">>, <<"api", "v2", "pods">>, <<"apis">>, <<"apis", "apps">>,
              <<"apis", "apps", "v1">>, <<"apis", "apps", "v1", "namespaces", "a", "deployments", "p", "scale">>,
              <<"apis", "metrics.k8s.io", "v1beta1", "nodes">>, <<"openapi">>,
              <<"apis", "authorization.k8s.io", "v1", "namespaces", "a", "localsubjectaccessreviews">>,
              <<"api", "v1", "..", "v1", "", "nodes", "q", "status">>,
              <<"api", "v1", "namespaces", "a", "pods", "p", "ephemeralcontainers">>,
              <<"api", "v1", "namespaces", "a", "serviceaccounts", "default", "token">>,
              <<"api", "v1", "namespaces", "a", "pods", "p", "log">> }

Body(name, prefix, ns, label) == [name |-> name, prefix |-> prefix, ns |-> ns, label |-> label, shape |-> TRUE]
MCBodies ==
    {Body("p", "", "", "web"), Body("p", "", "a", "web"), Body("b", "", "", "web")}
    \cup {Body("", "g", "", "web"), Body("", "x/y", "", "web"), Body("x/y", "", "", ""),
          [Body("p", "", "", "") EXCEPT !.shape = FALSE]}

Requirement(key, op, value) == [key |-> key, op |-> op, value |-> value]
IsWeb == <<Requirement("app", "=", "web")>>
Broken == <<Requirement("app", "", "")>>
NotP == <<Requirement("metadata.name", "!=", "p")>>

Query(ns, labels, fields, limit, asked) ==
    [gv |-> Core, res |-> "pods", ns |-> ns, labels |-> labels, fields |-> fields, limit |-> limit, asked |-> asked]
MCQueries ==
    {Query("", <<>>, <<>>, 1, 0), Query("", <<>>, <<>>, NoLimit, 0), Query("a", Broken, <<>>, 1, 0),
     Query("", IsWeb, <<>>, 1, 0), Query("", <<>>, NotP, 0, 1001), Query("", <<>>, Broken, 0, 0),
     Query("", <<>>, <<>>, 9, 0)}

MCSweeps == {[labels |-> IsWeb, fields |-> <<>>], [labels |-> <<>>, fields |-> NotP],
             [labels |-> Broken, fields |-> <<>>]}

MCBytes == ("" :> 1) @@ ("web" :> 3)

----------------------------------------------------------------------------
(* Patches.                                                                *)

U == Leaf("u")
V == Leaf("v")
One(k, value) == Obj(k :> value)

Documents ==
    {Obj(("a" :> U) @@ ("b" :> V)), Obj(("a" :> One("b", U)) @@ ("b" :> One("a", V))),
     One("a", Arr(<<U, V>>)), Obj(("a" :> One("b", Arr(<<U>>))) @@ ("b" :> V))}
Pointers == {<<"a">>, <<"b">>, <<"a", "b">>, <<"a", "0">>, <<"a", "1">>, <<"a", "-">>, <<"a", "b", "0">>}

Operations ==
    [op : {"add", "replace", "test"}, path : Pointers, from : {<<"a">>}, value : {U, One("b", V), Arr(<<V>>)}]
    \cup [op : {"remove"}, path : Pointers, from : {<<"a">>}, value : {Null}]
    \cup [op : {"move", "copy"}, path : Pointers, from : Pointers, value : {Null}]

\* The operations of a patch, each with a place of its own for its value.
Numbered(operations) ==
    [i \in DOMAIN operations |->
        [op |-> operations[i].op, path |-> operations[i].path, from |-> operations[i].from,
         value |-> operations[i].value, id |-> IF i = 1 THEN <<"value 1">> ELSE <<"value 2">>]]

PatchTask(d, o) == task = [kind |-> "patch", document |-> d, operations |-> Numbered(o)]
PatchTasks ==
    \E d \in Documents :
        \/ PatchTask(d, <<>>)
        \/ \E a \in Operations : PatchTask(d, <<a>>)
        \/ \E a, b \in Operations : PatchTask(d, <<a, b>>)

MergePatches ==
    LET values == {Null, U, V} IN
    LET nested == {One(k, x) : k \in {"a", "b"}, x \in values} IN
    {Obj(("a" :> x) @@ ("b" :> y)) : x, y \in values \cup nested} \cup {One("c", x) : x \in values \cup nested}

MergeTasks == \E d \in Documents, p \in MergePatches : task = [kind |-> "merge", document |-> d, patch |-> p]

----------------------------------------------------------------------------
(* Configurations.                                                         *)

Lengths(n, max) == UNION {[1..k -> 0..max] : k \in 0..n}
Named(id, lens) == [i \in DOMAIN lens |-> Text(<<id, i>>, lens[i])]
Honeytoken(name, lens) ==
    [name |-> name, ns |-> "", type |-> "", written |-> "well", data |-> Named(name, lens)]

Sink(type, token, password, headers) ==
    [type |-> type, target |-> "well formed", index |-> "valid", token |-> token, password |-> password,
     headers |-> headers]
FileSink == Sink("file", Empty, Empty, <<>>)
BasicSink == Sink("elasticsearch", Text("api key", 1), Text("password", 1), <<Text("header", 1)>>)
TokenSink == Sink("http", Text("bearer", 1), Empty, <<Text("header 2", 1)>>)

Settings(tokens, data, sinks) ==
    ("tokenValues" :> Named("token", tokens)) @@ ("sinks" :> sinks)
    @@ ("honeytokens" :> IF data = <<>> THEN <<>> ELSE <<Honeytoken("one", data)>>)
GoodFile(settings) == [state |-> "good", settings |-> settings]
NoFile(state) == [state |-> state, settings |-> Settings(<<>>, <<>>, <<>>)]

NoEnv == [v \in {} |-> ""]
EnvHoneytokens(data) == <<"honeytokens", "present">> :> <<Honeytoken("two", data)>>

ConfigTask(file, env) == task = [kind |-> "config", file |-> file, env |-> env]

\* Tokens in the file or in the environment, honeytokens in both, and sinks.
BudgetTasks ==
    \E t, d \in Lengths(2, 2), s \in {<<>>, <<BasicSink>>},
       e \in {NoEnv} \cup {EnvHoneytokens(d2) : d2 \in Lengths(2, 2)},
       x \in {NoEnv, <<"tokenValues", "present">> :> Named("env token", <<0, 2>>)} :
        ConfigTask(GoodFile(Settings(t, d, s)), e @@ x)

\* One deviation at a time, in the file or in the environment.
Flaws ==
    [mode : {"K8S ", "nothing", "ai", "kubelet"}] \cup [version : {"1.37", "v2"}] \cup [ip : {"public"}]
    \cup [format : {"", "TEXT", "xml"}] \cup [node : {"bad name"}] \cup [aiToken : {Text("ai", 1), Text("ai", 9)}]
    \cup [hosts : {[m \in {"k8s"} |-> "host name"]}] \cup [ports : {[m \in {"k8s"} |-> "0"]}]
    \cup [namespaces : {<<Text("n", 1)>>, <<Text("n", 1), Text("n", 1)>>}]
    \cup [cidrs : {<<Text("c", 1)>>, <<[id |-> "c", len |-> 1, good |-> FALSE]>>}]

AsEnv(flaw, name) == [v \in {<<s, name>> : s \in DOMAIN flaw} |-> flaw[v[1]]]
FlawTasks ==
    \/ \E f \in Flaws, n \in {"present", "old"} : ConfigTask(GoodFile(Settings(<<2>>, <<1>>, <<>>)), AsEnv(f, n))
    \/ \E s \in {"missing", "unreadable", "too large", "invalid"} : ConfigTask(NoFile(s), NoEnv)
    \/ \E f \in {g \in Flaws : DOMAIN g \cap {"hosts", "ports"} = {}} :
          ConfigTask(GoodFile(f @@ Settings(<<2>>, <<1>>, <<>>)), NoEnv)

SinkTasks ==
    \E s \in UNION {[1..n -> {FileSink, BasicSink, TokenSink}] : n \in 0..2},
       e \in {NoEnv, <<"file sink", "present">> :> FileSink, <<"elasticsearch sink", "old">> :> BasicSink},
       h \in {NoEnv, <<"http sink", "present">> :> TokenSink} :
        ConfigTask(GoodFile(Settings(<<>>, <<>>, s)), e @@ h)

----------------------------------------------------------------------------
(* Forwarded addresses.                                                    *)

Plain(addr) == [addr |-> addr, mapped |-> FALSE, zone |-> FALSE]
Fields3 == {Plain("proxy 1"), Plain("proxy 2"), Plain("client"), [Plain("client") EXCEPT !.mapped = TRUE], Plain("")}
Headers == {[fields |-> f, len |-> Len(f)] : f \in UNION {[1..n -> Fields3] : n \in 1..2}}
Prefix == [addrs |-> {"proxy 1", "proxy 2"}, parses |-> TRUE, zone |-> FALSE, mapped |-> FALSE, long |-> TRUE]

XFFTasks ==
    \E p \in {Plain("proxy 1"), [Plain("proxy 2") EXCEPT !.zone = TRUE], Plain("client")},
       v \in {<<>>} \cup {<<h>> : h \in Headers} \cup {<<g, h>> : g \in Headers, h \in {g2 \in Headers : g2.len = 1}},
       t \in {<<>>, <<Prefix>>, <<[Prefix EXCEPT !.parses = FALSE], [Prefix EXCEPT !.addrs = {"proxy 1"}]>>},
       f \in {[fields |-> <<a>>, len |-> 1] : a \in {Plain("forged"), Plain("proxy 2"), Plain("")}} :
        task = [kind |-> "xff", peer |-> p, values |-> v, prefixes |-> t, forged |-> f]

----------------------------------------------------------------------------

\* The API is at rest, with nothing stored, while an algorithm is looked at.
AtRest == objects = <<>> /\ rev = FirstRevision /\ generated = 0 /\ job = [h \in Handlers |-> <<>>] /\ walk = Idle

Init ==
    \/ "write" \in Tasks /\ task = [kind |-> "write"] /\ APIInit
    \/ "list" \in Tasks /\ task = [kind |-> "list"] /\ APIInit
    \/ "patch" \in Tasks /\ (PatchTasks \/ MergeTasks) /\ AtRest
    \/ "config" \in Tasks /\ (BudgetTasks \/ FlawTasks) /\ AtRest
    \/ Tasks \cap {"config", "sinks"} # {} /\ SinkTasks /\ AtRest
    \/ "xff" \in Tasks /\ XFFTasks /\ AtRest

\* Bound of the model: writes during one list.
ListWrites == 1

\* Requests that write, of all handlers; or those of one while a client lists
\* and until its list is over.
Next ==
    /\ \/ task.kind = "write" /\ \E h \in Handlers : Writing(h)
       \/ task.kind = "list" /\ List
       \/ /\ task.kind = "list" /\ walk.at \in {"checked", "between"} /\ rev < FirstRevision + ListWrites
          /\ Writing(CHOOSE h \in Handlers : TRUE)
    /\ UNCHANGED task

Spec == Init /\ [][Next]_vars

\* Every patch of the run, see PatchAgrees and MergeAgrees (applyJSONPatch,
\* mergeObject).
PatchAgreesWithRFC ==
    /\ task.kind = "patch" => PatchAgrees(task.document, task.operations)
    /\ task.kind = "merge" => MergeAgrees(task.document, task.patch)

\* "Sink tokens, passwords, and header values are added to the event redaction
\* set", see CredentialsCovered (LoggingConfig.SensitiveValues).
SinkCredentialsRedacted == task.kind = "config" => CredentialsCovered(task.file, task.env)
====
