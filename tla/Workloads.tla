----------------------------- MODULE Workloads -----------------------------
(***************************************************************************)
(* The controllers of the simulated cluster                                *)
(* (honeypots/k8s/handler/controller.go) and the requests of api.go that   *)
(* call them: create, update, patch and scale of a Deployment, scale and   *)
(* delete of one of its ReplicaSets, delete and eviction of a pod,         *)
(* deleteCollection, and create and delete of a Service.                   *)
(*                                                                         *)
(* A controller runs inside the request that calls it. It keeps nothing    *)
(* between two calls of the object store, and each such call is one        *)
(* critical section and one step here, so that two requests may interleave *)
(* between any two of them, and what one has read may be out of date when  *)
(* it writes.                                                              *)
(***************************************************************************)
EXTENDS Integers, FiniteSets

CONSTANTS
    Requests,       \* handlers of requests
    Templates,      \* pod templates, numbered in the order of their hashes
    Replicas,       \* values of spec.replicas clients send
    MaxPods,        \* maxControllerPods
    Selected,       \* the templates whose labels the selector of the Service matches
    Visible,        \* how many pods of the Deployment fit on the page that
                    \* listPage returns, after those of others that sort before them
    VisibleSets,    \* how many of its ReplicaSets fit on theirs
    MaxNames,       \* how many pod names workloadPodNames has memory for
    NoObject,       \* stands for "no such object"
    MaxIssued,      \* bound of the model: requests issued
    MaxRefusals     \* bound of the model: puts refused for want of capacity

\* A pod is owned by the ReplicaSet of a template. materializeDeployment and
\* materializePods give different names to the pods of one ReplicaSet.
Pod == [rs : Templates, by : {"deployment", "replicaset"}, i : 0..MaxPods - 1]

\* replicas is spec.replicas, status is status.replicas.
Deployment == [tmpl : Templates, replicas : Int, status : Int]
ReplicaSet == [replicas : Int, revision : Nat]
Endpoints == [addresses : SUBSET Pod]

ASSUME WorkloadConstants ==
    /\ IsFiniteSet(Requests) /\ IsFiniteSet(Templates)
    /\ Templates \subseteq Nat
    /\ Replicas \subseteq Int
    /\ MaxPods \in Nat /\ Visible \in Nat /\ VisibleSets \in Nat /\ MaxNames \in Nat
    /\ MaxIssued \in Nat /\ MaxRefusals \in Nat
    /\ Selected \subseteq Templates
    /\ NoObject \notin Deployment \cup ReplicaSet \cup Endpoints \cup Templates

VARIABLES
    deployment,     \* the Deployment, or NoObject
    replicaSets,    \* replicaSets[t]: its ReplicaSet for template t, or NoObject
    pods,           \* their pods
    service,        \* the Service is there
    endpoints,      \* its Endpoints, or NoObject
    slice,          \* its EndpointSlice, or NoObject
    pc,             \* pc[r]: the store call request r is about to make
    job,            \* job[r]: what r has been asked for and has read so far
    clean,          \* clean[r]: since r began no put of it was refused and no
                    \* other request changed the store
    calm,           \* requests never overlapped, and none removed a ReplicaSet
                    \* or emptied a collection
    issued, refusals

storeVars == <<deployment, replicaSets, pods, service, endpoints, slice>>
vars == <<deployment, replicaSets, pods, service, endpoints, slice,
          pc, job, clean, calm, issued, refusals>>

Labels == {"idle", "answer", "deploymentPut", "rsGet", "rsList", "rsAdd", "rsPut",
           "podList", "podDrop", "podAdd", "emit", "outOfMemory", "oldList", "oldPut", "purgeList",
           "purgeDrop", "statusGet", "statusPut", "reapList", "reapRS", "scalePut",
           "podDelete", "respawnRS", "respawnDeployment", "serviceList",
           "addressList", "endpointsGet", "endpointsPut", "sliceGet", "slicePut"}

Job == [op : {"none", "create", "update", "scaleRS", "delete", "deleteRS",
              "deletePod", "service"},
        by : {"none", "deployment", "replicaset"},  \* which controller is at work
        tmpl : Templates \cup {NoObject},   \* the ReplicaSet it works on
        replicas : Int,                     \* the object's spec.replicas
        read : Deployment \cup {NoObject},  \* the Deployment as last read
        sets : [Templates -> ReplicaSet \cup {NoObject}],   \* the ReplicaSets as read
        revision : Nat,
        drop : SUBSET Pod, add : SUBSET Pod,    \* pods still to delete, to put
        old : SUBSET Templates,             \* ReplicaSets still to retire or to reap
        cur : Templates \cup {NoObject},    \* the one being retired or reaped
        emitted : Nat,                      \* Events put by emitWorkloadEvents
        found : BOOLEAN,                    \* the Endpoints or EndpointSlice was there
        addresses : SUBSET Pod]

NoSets == [t \in Templates |-> NoObject]

NoJob == [op |-> "none", by |-> "none", tmpl |-> NoObject, replicas |-> 0,
          read |-> NoObject, sets |-> NoSets, revision |-> 0, drop |-> {}, add |-> {},
          old |-> {}, cur |-> NoObject, emitted |-> 0,
          found |-> FALSE, addresses |-> {}]

Present == {t \in Templates : replicaSets[t] # NoObject}

\* deploymentReplicaSets: the ReplicaSets of one page whose owner is the
\* Deployment. Their names end in the hashes of the templates.
ListedSets == {t \in Present : Cardinality({u \in Present : u < t}) < VisibleSets}

PodsOf(t) == {p \in pods : p.rs = t}

\* The order in which listPage sorts pods by name. Names end in hashes, so it is
\* arbitrary but fixed.
Before(p, q) ==
    \/ p.rs < q.rs
    \/ p.rs = q.rs /\ p.by = "deployment" /\ q.by = "replicaset"
    \/ p.rs = q.rs /\ p.by = q.by /\ p.i < q.i

\* ownedPodNames: the pods of one page whose owner has this name.
OwnedPods(t) ==
    {p \in PodsOf(t) : Cardinality({q \in pods : Before(q, p)}) < Visible}

\* How many pods a controller wants for a spec.replicas that is not negative.
Desired(n) == IF n > MaxPods THEN MaxPods ELSE n

\* The pods a controller wants for the ReplicaSet of t, by name.
Wanted(t, by, n) == {[rs |-> t, by |-> by, i |-> i] : i \in 0..Desired(n) - 1}

----------------------------------------------------------------------------
(* What every step does besides its store call: where the request goes     *)
(* next, and the history of interference.                                  *)

Idle(r) == pc[r] = "idle"

\* The process is still there: no handler has taken all its memory.
Running == \A r \in Requests : pc[r] # "outOfMemory"

\* r begins with job j; keeps says that this request leaves the history calm.
\* Handlers are all alike, so a request is given to the first that is free.
Begin(r, label, j, keeps) ==
    /\ Running
    /\ Idle(r)
    /\ r = CHOOSE s \in Requests : Idle(s)
    /\ issued < MaxIssued
    /\ issued' = issued + 1
    /\ pc' = [pc EXCEPT ![r] = label]
    /\ job' = [job EXCEPT ![r] = j]
    /\ clean' = [s \in Requests |-> s = r \/ Idle(s) \/ (clean[s] /\ storeVars' = storeVars)]
    /\ calm' = (calm /\ keeps /\ \A s \in Requests : Idle(s))
    /\ UNCHANGED refusals

\* r goes on with job j; a refused put is counted and r is no longer clean.
Continue(r, label, j, refused) ==
    /\ Running
    /\ pc' = [pc EXCEPT ![r] = label]
    /\ job' = [job EXCEPT ![r] = IF label = "idle" THEN NoJob ELSE j]
    /\ clean' = [s \in Requests |->
                   IF s = r THEN label = "idle" \/ (clean[s] /\ ~refused)
                   ELSE clean[s] /\ (Idle(s) \/ storeVars' = storeVars)]
    /\ refusals' = IF refused THEN refusals + 1 ELSE refusals
    /\ UNCHANGED <<calm, issued>>

\* The store may be full of other objects, so any put may be refused.
MayRefuse == IF refusals < MaxRefusals THEN BOOLEAN ELSE {FALSE}

\* Where a request goes when its controllers are done: create goes on to the
\* Endpoints, everything else answers.
AfterControllers(op) == IF op = "create" THEN "serviceList" ELSE "answer"

\* Entry of materializeDeployment, whose first test is for negative replicas.
EnterDeployment(op, n) == IF n < 0 THEN AfterControllers(op) ELSE "rsGet"

\* Entry of materializePods for a ReplicaSet.
EnterReplicaSet(op, n) == IF n < 0 THEN AfterControllers(op) ELSE "podList"

\* After the pods of j.tmpl: materializeDeployment retires the other ReplicaSets,
\* materializePods calls emitWorkloadEvents.
AfterPods(j) == IF j.by = "deployment" THEN "oldList" ELSE "emit"

PodStage(j) ==
    CASE j.drop # {} -> "podDrop"
      [] j.drop = {} /\ j.add # {} -> "podAdd"
      [] OTHER -> AfterPods(j)

----------------------------------------------------------------------------
(* Requests on the Deployment. One that finds nothing (404), or finds its  *)
(* name taken (409), changes nothing and is no step.                       *)

\* create: the put of the Deployment, then materializePods and
\* syncEndpointsForNamespace.
CreateDeployment(r, t, n) ==
    /\ deployment = NoObject
    /\ deployment' = [tmpl |-> t, replicas |-> n, status |-> n]
    /\ UNCHANGED <<replicaSets, pods, service, endpoints, slice>>
    /\ Begin(r, EnterDeployment("create", n),
             [NoJob EXCEPT !.op = "create", !.by = "deployment", !.tmpl = t, !.replicas = n],
             TRUE)

\* update and patch: the object to store takes the template of the request.
UpdateDeployment(r, t, n) ==
    /\ deployment # NoObject
    /\ UNCHANGED storeVars
    /\ Begin(r, "deploymentPut",
             [NoJob EXCEPT !.op = "update", !.by = "deployment", !.tmpl = t, !.replicas = n],
             TRUE)

\* serveScale, and a patch of spec.replicas: the template is the one just read.
ScaleDeployment(r, n) ==
    /\ deployment # NoObject
    /\ UNCHANGED storeVars
    /\ Begin(r, "deploymentPut",
             [NoJob EXCEPT !.op = "update", !.by = "deployment",
                           !.tmpl = deployment.tmpl, !.replicas = n],
             TRUE)

\* The put "MODIFIED" of these requests, which also creates.
DeploymentPut(r) ==
    /\ pc[r] = "deploymentPut"
    /\ LET j == job[r] IN
       \E refused \in MayRefuse :
         /\ deployment' = IF refused THEN deployment
                          ELSE [tmpl |-> j.tmpl, replicas |-> j.replicas,
                                status |-> j.replicas]
         /\ UNCHANGED <<replicaSets, pods, service, endpoints, slice>>
         /\ Continue(r, IF refused THEN "answer" ELSE EnterDeployment(j.op, j.replicas),
                     j, refused)

\* delete of the Deployment, then reapOwnedPods. No pod is owned by the
\* Deployment itself.
DeleteDeployment(r) ==
    /\ deployment # NoObject
    /\ deployment' = NoObject
    /\ UNCHANGED <<replicaSets, pods, service, endpoints, slice>>
    /\ Begin(r, "reapList", [NoJob EXCEPT !.op = "delete"], TRUE)

----------------------------------------------------------------------------
(* materializeDeployment.                                                  *)

\* get of the ReplicaSet of the template.
RsGet(r) ==
    /\ pc[r] = "rsGet"
    /\ LET j == job[r]
           set == replicaSets[j.tmpl] IN
       /\ UNCHANGED storeVars
       /\ Continue(r,
                   CASE set = NoObject -> "rsList"
                     [] set # NoObject /\ set.replicas # Desired(j.replicas) -> "rsPut"
                     [] OTHER -> "podList",
                   [j EXCEPT !.sets = [NoSets EXCEPT ![j.tmpl] = set]], FALSE)

\* Mutant: ReplicaSets without replicas are not counted.
RsListCountsRunning(r) ==
    /\ pc[r] = "rsList"
    /\ UNCHANGED storeVars
    /\ Continue(r, "rsAdd",
                [job[r] EXCEPT !.revision =
                   Cardinality({t \in ListedSets : replicaSets[t].replicas # 0}) + 1], FALSE)

\* nextDeploymentRevision counts the ReplicaSets of one page.
RsList(r) ==
    /\ pc[r] = "rsList"
    /\ UNCHANGED storeVars
    /\ Continue(r, "rsAdd", [job[r] EXCEPT !.revision = Cardinality(ListedSets) + 1], FALSE)

\* put "ADDED" of the ReplicaSet; materializeDeployment returns if it fails.
RsAdd(r) ==
    /\ pc[r] = "rsAdd"
    /\ LET j == job[r] IN
       \E refused \in MayRefuse :
         LET stored == replicaSets[j.tmpl] = NoObject /\ ~refused IN
         /\ replicaSets' = IF stored
                           THEN [replicaSets EXCEPT ![j.tmpl] =
                                   [replicas |-> Desired(j.replicas),
                                    revision |-> j.revision]]
                           ELSE replicaSets
         /\ UNCHANGED <<deployment, pods, service, endpoints, slice>>
         /\ Continue(r, IF stored THEN "podList" ELSE AfterControllers(j.op), j, refused)

\* put "MODIFIED" of the ReplicaSet as read, with the new count; an error is ignored.
RsPut(r) ==
    /\ pc[r] = "rsPut"
    /\ LET j == job[r] IN
       \E refused \in MayRefuse :
         /\ replicaSets' = IF refused THEN replicaSets
                           ELSE [replicaSets EXCEPT ![j.tmpl] =
                                   [j.sets[j.tmpl] EXCEPT !.replicas = Desired(j.replicas)]]
         /\ UNCHANGED <<deployment, pods, service, endpoints, slice>>
         /\ Continue(r, "podList", [j EXCEPT !.sets = NoSets], refused)

\* Mutant: only missing pods are looked for, as when scaling up.
PodListOnlyAdds(r) ==
    /\ pc[r] = "podList"
    /\ LET existing == OwnedPods(job[r].tmpl)
           wanted == Wanted(job[r].tmpl, job[r].by, job[r].replicas)
           j == [job[r] EXCEPT !.add = wanted \ existing, !.sets = NoSets] IN
       /\ UNCHANGED storeVars
       /\ Continue(r, PodStage(j), j, FALSE)

\* The pods there are against the pods wanted, in materializeDeployment as in
\* materializePods.
PodList(r) ==
    /\ pc[r] = "podList"
    /\ LET existing == OwnedPods(job[r].tmpl)
           wanted == Wanted(job[r].tmpl, job[r].by, job[r].replicas)
           j == [job[r] EXCEPT !.drop = existing \ wanted, !.add = wanted \ existing,
                               !.sets = NoSets] IN
       /\ UNCHANGED storeVars
       /\ Continue(r, PodStage(j), j, FALSE)

\* delete of a pod that is not wanted, in the order of a Go map.
PodDrop(r) ==
    /\ pc[r] = "podDrop"
    /\ \E p \in job[r].drop :
         LET j == [job[r] EXCEPT !.drop = @ \ {p}] IN
         /\ pods' = pods \ {p}
         /\ UNCHANGED <<deployment, replicaSets, service, endpoints, slice>>
         /\ Continue(r, PodStage(j), j, FALSE)

\* Mutant: a pod whose put failed is tried again.
PodAddRetries(r) ==
    /\ pc[r] = "podAdd"
    /\ \E p \in job[r].add, refused \in MayRefuse :
         LET taken == p \in pods
             j == IF taken THEN job[r] ELSE [job[r] EXCEPT !.add = @ \ {p}] IN
         /\ \A q \in job[r].add : p.i <= q.i
         /\ pods' = IF refused THEN pods ELSE pods \cup {p}
         /\ UNCHANGED <<deployment, replicaSets, service, endpoints, slice>>
         /\ Continue(r, PodStage(j), j, refused)

\* put "ADDED" of the next missing pod; an error is ignored, whether the pod
\* exists by now or there is no room.
PodAdd(r) ==
    /\ pc[r] = "podAdd"
    /\ \E p \in job[r].add, refused \in MayRefuse :
         LET j == [job[r] EXCEPT !.add = @ \ {p}] IN
         /\ \A q \in job[r].add : p.i <= q.i
         /\ pods' = IF refused THEN pods ELSE pods \cup {p}
         /\ UNCHANGED <<deployment, replicaSets, service, endpoints, slice>>
         /\ Continue(r, PodStage(j), j, refused)

\* emitWorkloadEvents names and reports a pod for each of spec.replicas, which
\* unlike the pods is not capped. A put of an Event touches nothing modelled here
\* and its error is ignored. More names than there is memory for end the process,
\* unless make panics over their number, which recoverPanics answers. The other
\* Events of the controllers, a fixed number with each pod and ReplicaSet, are
\* left out.
Emit(r) ==
    /\ pc[r] = "emit"
    /\ UNCHANGED storeVars
    /\ LET j == job[r]
           done == [j EXCEPT !.emitted = 0] IN
       \/ /\ j.replicas > MaxNames
          /\ \E l \in {"outOfMemory", "answer"} : Continue(r, l, done, FALSE)
       \/ /\ j.replicas <= MaxNames /\ j.emitted < j.replicas
          /\ Continue(r, "emit", [j EXCEPT !.emitted = @ + 1], FALSE)
       \/ /\ j.replicas <= MaxNames /\ j.emitted >= j.replicas
          /\ Continue(r, AfterControllers(j.op), done, FALSE)

\* deploymentReplicaSets: those of other templates.
OldList(r) ==
    /\ pc[r] = "oldList"
    /\ LET old == ListedSets \ {job[r].tmpl} IN
       /\ UNCHANGED storeVars
       /\ Continue(r, IF old = {} THEN "statusGet" ELSE "oldPut",
                   [job[r] EXCEPT !.old = old,
                                  !.sets = IF old = {} THEN NoSets ELSE replicaSets],
                   FALSE)

\* The next old ReplicaSet, as it was read, is put back with no replicas
\* unless it had none; an error is ignored.
OldPut(r) ==
    /\ pc[r] = "oldPut"
    /\ LET j == job[r] IN
       \E t \in j.old :
         \E refused \in IF j.sets[t].replicas = 0 THEN {FALSE} ELSE MayRefuse :
           /\ \A u \in j.old : t <= u
           /\ replicaSets' = IF refused \/ j.sets[t].replicas = 0 THEN replicaSets
                             ELSE [replicaSets EXCEPT ![t] =
                                     [j.sets[t] EXCEPT !.replicas = 0]]
           /\ UNCHANGED <<deployment, pods, service, endpoints, slice>>
           /\ Continue(r, "purgeList", [j EXCEPT !.old = @ \ {t}, !.cur = t], refused)

\* Where a request goes when the pods of j.cur are gone.
AfterPurge(j) ==
    CASE j.op = "delete" -> "reapRS"
      [] j.op = "deleteRS" -> "answer"
      [] j.op \notin {"delete", "deleteRS"} /\ j.old # {} -> "oldPut"
      [] OTHER -> "statusGet"

Purged(j) ==
    IF j.op \notin {"delete", "deleteRS"} /\ j.old = {}
    THEN [j EXCEPT !.cur = NoObject, !.sets = NoSets] ELSE j

\* ownedPodNames of a ReplicaSet that is retired or reaped.
PurgeList(r) ==
    /\ pc[r] = "purgeList"
    /\ LET j == [job[r] EXCEPT !.drop = OwnedPods(job[r].cur)] IN
       /\ UNCHANGED storeVars
       /\ IF j.drop = {} THEN Continue(r, AfterPurge(j), Purged(j), FALSE)
                         ELSE Continue(r, "purgeDrop", j, FALSE)

\* Mutant: one pod is deleted and the rest forgotten.
PurgeDropOne(r) ==
    /\ pc[r] = "purgeDrop"
    /\ \E p \in job[r].drop :
         LET j == [job[r] EXCEPT !.drop = {}] IN
         /\ pods' = pods \ {p}
         /\ UNCHANGED <<deployment, replicaSets, service, endpoints, slice>>
         /\ Continue(r, AfterPurge(j), Purged(j), FALSE)

\* delete of each of them.
PurgeDrop(r) ==
    /\ pc[r] = "purgeDrop"
    /\ \E p \in job[r].drop :
         LET j == [job[r] EXCEPT !.drop = @ \ {p}] IN
         /\ pods' = pods \ {p}
         /\ UNCHANGED <<deployment, replicaSets, service, endpoints, slice>>
         /\ IF j.drop = {} THEN Continue(r, AfterPurge(j), Purged(j), FALSE)
                           ELSE Continue(r, "purgeDrop", j, FALSE)

\* syncDeploymentStatus: get, ...
StatusGet(r) ==
    /\ pc[r] = "statusGet"
    /\ LET j == job[r] IN
       /\ UNCHANGED storeVars
       /\ Continue(r, IF deployment = NoObject THEN AfterControllers(j.op) ELSE "statusPut",
                   [j EXCEPT !.read = deployment], FALSE)

\* ... and put "MODIFIED" of what was read; an error is ignored.
StatusPut(r) ==
    /\ pc[r] = "statusPut"
    /\ LET j == job[r] IN
       \E refused \in MayRefuse :
         /\ deployment' = IF refused THEN deployment
                          ELSE [j.read EXCEPT !.status = Desired(j.replicas)]
         /\ UNCHANGED <<replicaSets, pods, service, endpoints, slice>>
         /\ Continue(r, AfterControllers(j.op), [j EXCEPT !.read = NoObject], refused)

----------------------------------------------------------------------------
(* reapOwnedPods.                                                          *)

ReapList(r) ==
    /\ pc[r] = "reapList"
    /\ UNCHANGED storeVars
    /\ IF ListedSets = {} THEN Continue(r, "answer", job[r], FALSE)
       ELSE \E t \in ListedSets :
              /\ \A u \in ListedSets : t <= u
              /\ Continue(r, "purgeList",
                          [job[r] EXCEPT !.old = ListedSets \ {t}, !.cur = t], FALSE)

\* delete of the ReplicaSet whose pods are gone, then the next one.
ReapRS(r) ==
    /\ pc[r] = "reapRS"
    /\ LET j == job[r] IN
       /\ replicaSets' = [replicaSets EXCEPT ![j.cur] = NoObject]
       /\ UNCHANGED <<deployment, pods, service, endpoints, slice>>
       /\ IF j.old = {} THEN Continue(r, "answer", [j EXCEPT !.cur = NoObject], FALSE)
          ELSE \E t \in j.old :
                 /\ \A u \in j.old : t <= u
                 /\ Continue(r, "purgeList", [j EXCEPT !.old = @ \ {t}, !.cur = t], FALSE)

----------------------------------------------------------------------------
(* Requests on a ReplicaSet of the Deployment. Its own controller is       *)
(* materializePods.                                                        *)

\* serveScale, update and patch of spec.replicas.
ScaleReplicaSet(r, t, n) ==
    /\ t \in Present
    /\ UNCHANGED storeVars
    /\ Begin(r, "scalePut",
             [NoJob EXCEPT !.op = "scaleRS", !.by = "replicaset", !.tmpl = t, !.replicas = n,
                           !.sets = [NoSets EXCEPT ![t] = replicaSets[t]]],
             TRUE)

ScalePut(r) ==
    /\ pc[r] = "scalePut"
    /\ LET j == job[r] IN
       \E refused \in MayRefuse :
         /\ replicaSets' = IF refused THEN replicaSets
                           ELSE [replicaSets EXCEPT ![j.tmpl] =
                                   [j.sets[j.tmpl] EXCEPT !.replicas = j.replicas]]
         /\ UNCHANGED <<deployment, pods, service, endpoints, slice>>
         /\ Continue(r, IF refused THEN "answer" ELSE EnterReplicaSet(j.op, j.replicas),
                     [j EXCEPT !.sets = NoSets], refused)

\* delete, then reapOwnedPods by the name of the ReplicaSet.
DeleteReplicaSet(r, t) ==
    /\ t \in Present
    /\ replicaSets' = [replicaSets EXCEPT ![t] = NoObject]
    /\ UNCHANGED <<deployment, pods, service, endpoints, slice>>
    /\ Begin(r, "purgeList", [NoJob EXCEPT !.op = "deleteRS", !.cur = t], FALSE)

----------------------------------------------------------------------------
(* Requests on a pod.                                                      *)

\* delete: the victim is read, deleted, and respawned by its owners.
DeletePod(r, p) ==
    /\ p \in pods
    /\ UNCHANGED storeVars
    /\ Begin(r, "podDelete", [NoJob EXCEPT !.op = "deletePod", !.drop = {p}], TRUE)

PodDelete(r) ==
    /\ pc[r] = "podDelete"
    /\ \E p \in job[r].drop :
         /\ pods' = pods \ {p}
         /\ UNCHANGED <<deployment, replicaSets, service, endpoints, slice>>
         /\ Continue(r, IF p \in pods THEN "respawnRS" ELSE "answer",
                     [job[r] EXCEPT !.drop = {}, !.cur = p.rs], FALSE)

\* respawnDeletedPod: the ReplicaSet of the victim ...
RespawnRS(r) ==
    /\ pc[r] = "respawnRS"
    /\ LET j == job[r]
           set == replicaSets[j.cur] IN
       /\ UNCHANGED storeVars
       /\ Continue(r, IF set = NoObject THEN "answer" ELSE "respawnDeployment",
                   [j EXCEPT !.sets = [NoSets EXCEPT ![j.cur] = set]], FALSE)

\* ... then the Deployment that owns it, or else the ReplicaSet as it was read.
RespawnDeployment(r) ==
    /\ pc[r] = "respawnDeployment"
    /\ UNCHANGED storeVars
    /\ LET j == [job[r] EXCEPT !.sets = NoSets, !.cur = NoObject]
           set == job[r].sets[job[r].cur] IN
       IF deployment # NoObject
       THEN Continue(r, EnterDeployment(j.op, deployment.replicas),
                     [j EXCEPT !.by = "deployment", !.tmpl = deployment.tmpl,
                               !.replicas = deployment.replicas], FALSE)
       ELSE Continue(r, EnterReplicaSet(j.op, set.replicas),
                     [j EXCEPT !.by = "replicaset", !.tmpl = job[r].cur,
                               !.replicas = set.replicas], FALSE)

\* A request that is a single store step and begins and ends with it.
AtOnce(keeps) ==
    /\ Running
    /\ issued < MaxIssued
    /\ issued' = issued + 1
    /\ clean' = [s \in Requests |-> Idle(s)]
    /\ calm' = (calm /\ keeps /\ \A s \in Requests : Idle(s))
    /\ UNCHANGED <<pc, job, refusals>>

\* serveEviction deletes the pod and nothing else; so does deleteCollection,
\* once for every pod.
Evict(p) ==
    /\ p \in pods
    /\ pods' = pods \ {p}
    /\ UNCHANGED <<deployment, replicaSets, service, endpoints, slice>>
    /\ AtOnce(TRUE)

\* deleteCollection of Deployments and of ReplicaSets: no controller is called.
SweepDeployments ==
    /\ deployment # NoObject
    /\ deployment' = NoObject
    /\ UNCHANGED <<replicaSets, pods, service, endpoints, slice>>
    /\ AtOnce(FALSE)

SweepReplicaSets(t) ==
    /\ t \in Present
    /\ replicaSets' = [replicaSets EXCEPT ![t] = NoObject]
    /\ UNCHANGED <<deployment, pods, service, endpoints, slice>>
    /\ AtOnce(FALSE)

----------------------------------------------------------------------------
(* The Service and syncEndpointsForNamespace, which only create calls.     *)

CreateService(r) ==
    /\ ~service
    /\ service' = TRUE
    /\ UNCHANGED <<deployment, replicaSets, pods, endpoints, slice>>
    /\ Begin(r, "serviceList", [NoJob EXCEPT !.op = "service"], TRUE)

\* delete leaves the Endpoints and the EndpointSlice where they are.
DeleteService ==
    /\ service
    /\ service' = FALSE
    /\ UNCHANGED <<deployment, replicaSets, pods, endpoints, slice>>
    /\ AtOnce(TRUE)

\* The Service is on the page of Services read here: there is only this one.
ServiceList(r) ==
    /\ pc[r] = "serviceList"
    /\ UNCHANGED storeVars
    /\ Continue(r, IF service THEN "addressList" ELSE "answer", job[r], FALSE)

\* The pods of one page that the selector matches.
Addresses == {p \in pods : /\ p.rs \in Selected
                           /\ Cardinality({q \in pods : Before(q, p)}) < Visible}

AddressList(r) ==
    /\ pc[r] = "addressList"
    /\ UNCHANGED storeVars
    /\ Continue(r, "endpointsGet", [job[r] EXCEPT !.addresses = Addresses], FALSE)

EndpointsGet(r) ==
    /\ pc[r] = "endpointsGet"
    /\ UNCHANGED storeVars
    /\ Continue(r, "endpointsPut", [job[r] EXCEPT !.found = (endpoints # NoObject)], FALSE)

\* put "MODIFIED" if they were found, put "ADDED" if not, which fails when they
\* are there by now; errors are ignored.
EndpointsPut(r) ==
    /\ pc[r] = "endpointsPut"
    /\ LET j == job[r] IN
       \E refused \in MayRefuse :
         /\ endpoints' = IF refused \/ (~j.found /\ endpoints # NoObject) THEN endpoints
                         ELSE [addresses |-> j.addresses]
         /\ UNCHANGED <<deployment, replicaSets, pods, service, slice>>
         /\ Continue(r, "sliceGet", [j EXCEPT !.found = FALSE], refused)

SliceGet(r) ==
    /\ pc[r] = "sliceGet"
    /\ UNCHANGED storeVars
    /\ Continue(r, "slicePut", [job[r] EXCEPT !.found = (slice # NoObject)], FALSE)

\* Mutant: the EndpointSlice is only ever added.
SlicePutAdds(r) ==
    /\ pc[r] = "slicePut"
    /\ LET j == job[r] IN
       /\ slice' = IF slice # NoObject THEN slice ELSE [addresses |-> j.addresses]
       /\ UNCHANGED <<deployment, replicaSets, pods, service, endpoints>>
       /\ Continue(r, "answer", [j EXCEPT !.found = FALSE, !.addresses = {}], FALSE)

SlicePut(r) ==
    /\ pc[r] = "slicePut"
    /\ LET j == job[r] IN
       \E refused \in MayRefuse :
         /\ slice' = IF refused \/ (~j.found /\ slice # NoObject) THEN slice
                     ELSE [addresses |-> j.addresses]
         /\ UNCHANGED <<deployment, replicaSets, pods, service, endpoints>>
         /\ Continue(r, "answer", [j EXCEPT !.found = FALSE, !.addresses = {}], refused)

----------------------------------------------------------------------------

\* The mutation is logged and the client is answered.
Answer(r) ==
    /\ pc[r] = "answer"
    /\ UNCHANGED storeVars
    /\ Continue(r, "idle", NoJob, FALSE)

Init ==
    /\ deployment = NoObject
    /\ replicaSets = NoSets
    /\ pods = {}
    /\ service = FALSE
    /\ endpoints = NoObject
    /\ slice = NoObject
    /\ pc = [r \in Requests |-> "idle"]
    /\ job = [r \in Requests |-> NoJob]
    /\ clean = [r \in Requests |-> TRUE]
    /\ calm = TRUE
    /\ issued = 0
    /\ refusals = 0

\* A client sends a request.
Issue(r) ==
    \/ \E t \in Templates, n \in Replicas :
         \/ CreateDeployment(r, t, n)
         \/ UpdateDeployment(r, t, n)
         \/ ScaleReplicaSet(r, t, n)
    \/ \E n \in Replicas : ScaleDeployment(r, n)
    \/ \E t \in Templates : DeleteReplicaSet(r, t)
    \/ \E p \in Pod : DeletePod(r, p)
    \/ DeleteDeployment(r)
    \/ CreateService(r)

\* A handler makes its next store call.
Step(r) ==
    \/ DeploymentPut(r)
    \/ RsGet(r) \/ RsList(r) \/ RsAdd(r) \/ RsPut(r)
    \/ PodList(r) \/ PodDrop(r) \/ PodAdd(r) \/ Emit(r)
    \/ OldList(r) \/ OldPut(r) \/ PurgeList(r) \/ PurgeDrop(r)
    \/ StatusGet(r) \/ StatusPut(r)
    \/ ReapList(r) \/ ReapRS(r)
    \/ ScalePut(r)
    \/ PodDelete(r) \/ RespawnRS(r) \/ RespawnDeployment(r)
    \/ ServiceList(r) \/ AddressList(r) \/ EndpointsGet(r) \/ EndpointsPut(r)
    \/ SliceGet(r) \/ SlicePut(r)
    \/ Answer(r)

Next ==
    \/ \E r \in Requests : Issue(r) \/ Step(r)
    \/ \E p \in Pod : Evict(p)
    \/ \E t \in Templates : SweepReplicaSets(t)
    \/ SweepDeployments
    \/ DeleteService

\* A handler that can go on does; nobody has to send a request.
Spec == Init /\ [][Next]_vars /\ \A r \in Requests : WF_vars(Step(r))

----------------------------------------------------------------------------
(* Properties.                                                             *)

TypeOK ==
    /\ deployment \in Deployment \cup {NoObject}
    /\ replicaSets \in [Templates -> ReplicaSet \cup {NoObject}]
    /\ pods \subseteq Pod
    /\ service \in BOOLEAN
    /\ endpoints \in Endpoints \cup {NoObject}
    /\ slice \in Endpoints \cup {NoObject}
    /\ pc \in [Requests -> Labels]
    /\ job \in [Requests -> Job]
    /\ clean \in [Requests -> BOOLEAN]
    /\ calm \in BOOLEAN
    /\ issued \in 0..MaxIssued
    /\ refusals \in 0..MaxRefusals

\* The ReplicaSet of t is the one in charge of d pods and no other ReplicaSet
\* of the Deployment has any.
RolledOut(t, d) ==
    /\ t \in Present
    /\ replicaSets[t].replicas = d
    /\ PodsOf(t) = Wanted(t, "deployment", d)
    /\ \A u \in Present \ {t} : replicaSets[u].replicas = 0 /\ PodsOf(u) = {}

\* materializeDeployment and materializePods reconcile: whatever earlier races,
\* refused puts, evictions and sweeps have left behind, a request whose
\* controller ran without interference leaves exactly the pods its object asks
\* for, old ReplicaSets empty, and a status that says so, while the pods and
\* the ReplicaSets each fit on one list page.
MaterializeConverges ==
    \A r \in Requests :
        LET j == job[r] IN
        pc[r] = "answer" /\ clean[r] /\ j.replicas >= 0 =>
            /\ j.by = "deployment" =>
                 /\ RolledOut(j.tmpl, Desired(j.replicas))
                 /\ deployment # NoObject
                 /\ deployment.status = Desired(j.replicas)
            /\ j.by = "replicaset" =>
                 PodsOf(j.tmpl) = Wanted(j.tmpl, "replicaset", j.replicas)

\* "Deleting the workload reaps the owned pods, matching cascading delete
\* semantics" (controller.go): one request at a time, no pod is ever without its
\* ReplicaSet, and once a Deployment is deleted nothing of it remains, however
\* often it was scaled, rolled, refused room or had pods deleted. ownedPodNames
\* and deploymentReplicaSets read one page each, so this can only hold while the
\* pods fit on the one and the ReplicaSets on the other.
CascadeIsComplete ==
    calm =>
        /\ \A p \in pods : p.rs \in Present
        /\ deployment = NoObject /\ (\A r \in Requests : Idle(r)) =>
             Present = {} /\ pods = {}

\* nextDeploymentRevision: "each new template bumps the revision". One request
\* at a time, no two ReplicaSets of the rollout history share a revision, while
\* the history fits on one list page: of a fuller one only a page is counted, and
\* every further template gets the same number.
RevisionsDistinct ==
    calm => \A t, u \in Present :
              replicaSets[t].revision = replicaSets[u].revision => t = u

\* syncEndpointsForNamespace: a create that ran without interference leaves the
\* Endpoints and the EndpointSlice of the Service with the same addresses, those
\* of the selected pods.
EndpointsFollowCreate ==
    \A r \in Requests :
        pc[r] = "answer" /\ clean[r] /\ job[r].op \in {"create", "service"} /\ service =>
            /\ endpoints = [addresses |-> {p \in pods : p.rs \in Selected}]
            /\ slice = endpoints

\* The loops of the controllers end, whatever other requests do meanwhile to
\* the objects they visit: every request is answered, unless a ReplicaSet with
\* more replicas than emitWorkloadEvents has memory for has ended the process.
RequestsAnswered == \A r \in Requests : []<>(Idle(r) \/ ~Running)
=============================================================================
