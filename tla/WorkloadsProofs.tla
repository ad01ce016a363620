-------------------------- MODULE WorkloadsProofs --------------------------
(***************************************************************************)
(* Theorems about Workloads, for every set of requests and templates and   *)
(* every number of replicas, pods and refusals.                            *)
(*                                                                         *)
(* What a handler relies on between two of its store calls is an assertion *)
(* about its label and its job: Shape says what the job holds, whatever    *)
(* the others do; Good what the store holds if nobody interfered and       *)
(* nothing was refused; Kept what it holds if requests come one by one,    *)
(* refused or not.                                                         *)
(***************************************************************************)
EXTENDS Workloads, FiniteSetTheorems, TLAPS

\* Labels of materializeDeployment.
Reconciling == {"rsGet", "rsList", "rsAdd", "rsPut", "oldList", "oldPut", "statusGet",
                "statusPut"}

\* Of the pods of either controller.
AtPods == {"podList", "podDrop", "podAdd"}

\* Of the pods of a ReplicaSet that goes.
Purging == {"purgeList", "purgeDrop"}

\* Of syncEndpointsForNamespace.
Addressing == {"addressList", "endpointsGet", "endpointsPut", "sliceGet", "slicePut"}

\* The request removes what it purges.
Removes(j) == j.op \in {"delete", "deleteRS"}

\* What the job of a handler at label l holds.
Shape(l, j) ==
    /\ l \in Reconciling \cup {"deploymentPut"} =>
         j.by = "deployment" /\ j.tmpl \in Templates /\ ~Removes(j)
    /\ l \in AtPods =>
         j.by \in {"deployment", "replicaset"} /\ j.tmpl \in Templates /\ ~Removes(j)
    /\ l \in AtPods /\ j.by = "replicaset" => j.op # "create"
    /\ l = "emit" =>
         j.by = "replicaset" /\ j.tmpl \in Templates /\ ~Removes(j) /\ j.op # "create"
    /\ l \in Purging /\ ~Removes(j) => j.by = "deployment" /\ j.tmpl \in Templates
    /\ l \in Reconciling \cup AtPods \/ (l \in Purging /\ ~Removes(j)) => j.replicas >= 0
    /\ l = "scalePut" => j.by = "replicaset" /\ j.tmpl \in Templates /\ j.op = "scaleRS"
    /\ l \in {"rsPut", "scalePut"} => j.sets[j.tmpl] # NoObject
    /\ l \in {"podDrop", "podAdd"} => j.add \subseteq Wanted(j.tmpl, j.by, j.replicas)
    /\ l = "podAdd" => j.drop = {}
    /\ l = "oldPut" \/ (l \in Purging /\ ~Removes(j)) => \A t \in j.old : j.sets[t] # NoObject
    /\ l \in Purging \cup {"reapRS", "respawnRS", "respawnDeployment"} => j.cur \in Templates
    /\ l = "respawnDeployment" => j.sets[j.cur] # NoObject
    /\ l \in {"podDelete", "respawnRS", "respawnDeployment"} => j.op = "deletePod" /\ j.by = "none"
    /\ l \in {"reapList", "reapRS"} => j.op = "delete"
    /\ l # "idle" /\ (Removes(j) \/ j.op = "service") => j.by = "none"
    /\ l = "statusPut" => j.read # NoObject
    /\ l \in Addressing \cup {"serviceList"} => j.op \in {"create", "service"}

\* The page that listPage returns has room for the pods there are, ...
PodsFit == Cardinality(pods) <= Visible

\* ... and the page of ReplicaSets for those.
SetsFit == Cardinality(Present) <= VisibleSets

OnOnePage == PodsFit /\ SetsFit

\* The pods whose addresses the Service wants.
SelectedPods == {p \in pods : p.rs \in Selected}

\* The ReplicaSet the controller works on is there and wants what it should.
Ready(j) ==
    j.by = "deployment" =>
        /\ deployment # NoObject
        /\ j.tmpl \in Present
        /\ replicaSets[j.tmpl].replicas = Desired(j.replicas)

\* Every ReplicaSet of another template, but those of S, is retired.
Retired(j, S) ==
    \A u \in Present \ ({j.tmpl} \cup S) : replicaSets[u].replicas = 0 /\ PodsOf(u) = {}

\* What the request's controller promises.
Done(j) ==
    j.replicas >= 0 =>
        /\ j.by = "deployment" =>
             /\ RolledOut(j.tmpl, Desired(j.replicas))
             /\ deployment # NoObject
             /\ deployment.status = Desired(j.replicas)
        /\ j.by = "replicaset" => PodsOf(j.tmpl) = Wanted(j.tmpl, "replicaset", j.replicas)

\* What the store holds for a handler at label l that nobody interfered with.
Good(l, j) ==
    /\ l \in {"rsGet", "rsList", "rsAdd", "rsPut"} => deployment # NoObject
    /\ l \in {"rsList", "rsAdd"} => j.tmpl \notin Present
    /\ l \in AtPods \cup {"oldList", "oldPut", "statusGet", "statusPut"}
         \/ (l \in Purging /\ ~Removes(j)) => Ready(j)
    /\ l \in {"podDrop", "podAdd"} =>
         /\ j.drop = PodsOf(j.tmpl) \ Wanted(j.tmpl, j.by, j.replicas)
         /\ j.add = Wanted(j.tmpl, j.by, j.replicas) \ PodsOf(j.tmpl)
    /\ l \in {"oldList", "oldPut", "statusGet", "statusPut"} \/ (l \in Purging /\ ~Removes(j)) =>
         PodsOf(j.tmpl) = Wanted(j.tmpl, j.by, j.replicas)
    /\ l = "oldPut" \/ (l \in Purging /\ ~Removes(j)) =>
         j.old \subseteq Present \ {j.tmpl} /\ \A t \in j.old : j.sets[t] = replicaSets[t]
    /\ l = "oldPut" => Retired(j, j.old)
    /\ l \in Purging /\ ~Removes(j) =>
         /\ j.cur \in Present \ ({j.tmpl} \cup j.old)
         /\ replicaSets[j.cur].replicas = 0
         /\ Retired(j, j.old \cup {j.cur})
    /\ l = "purgeDrop" /\ ~Removes(j) => j.drop = PodsOf(j.cur)
    /\ l \in {"statusGet", "statusPut"} => Retired(j, {})
    /\ l \in Addressing \cup {"serviceList", "answer", "emit"} => Done(j)
    /\ l \in Addressing => service
    /\ l \in Addressing \ {"addressList"} => j.addresses = SelectedPods
    /\ l = "endpointsPut" => j.found = (endpoints # NoObject)
    /\ l \in {"sliceGet", "slicePut"} => endpoints = [addresses |-> SelectedPods]
    /\ l = "slicePut" => j.found = (slice # NoObject)
    /\ l = "answer" /\ j.op \in {"create", "service"} /\ service =>
         endpoints = [addresses |-> SelectedPods] /\ slice = endpoints

\* A handler that is deleting the Deployment has not deleted everything yet.
Reaping(l, j) == j.op = "delete" /\ l \in Purging \cup {"reapList", "reapRS"}

\* What the store holds if requests come one by one, ...
Orderly ==
    \A t, u \in Present : replicaSets[t].revision = replicaSets[u].revision => t = u

\* ... and unless one of them is a deletion at work.
Settled ==
    /\ \A t \in Present : replicaSets[t].revision <= Cardinality(Present)
    /\ deployment = NoObject => Present = {}

\* What it holds for the handler of the one request there is.
Kept(l, j) ==
    /\ l \in Reconciling \cup {"deploymentPut"} \/ (l \in AtPods \cup Purging /\ j.by = "deployment") =>
         deployment # NoObject
    /\ l \in AtPods => j.tmpl \in Present
    /\ l = "rsAdd" => j.revision = Cardinality(Present) + 1
    /\ l \in {"rsPut", "scalePut"} => j.sets[j.tmpl] = replicaSets[j.tmpl]
    /\ l = "oldPut" \/ (l \in Purging /\ ~Removes(j)) => \A t \in j.old : j.sets[t] = replicaSets[t]
    /\ l \in Purging /\ ~Removes(j) => j.cur \notin j.old
    /\ l # "idle" => j.op # "deleteRS"
    /\ l \in Purging \cup {"reapRS"} /\ j.op = "delete" =>
         Present = j.old \cup {j.cur} /\ j.cur \notin j.old
    /\ l = "respawnDeployment" => j.sets[j.cur] = replicaSets[j.cur]

\* Of the pods, if all fit on their pages: every one has its ReplicaSet.
Owned == \A p \in pods : p.rs \in Present

\* A ReplicaSet that is reaped has only pods its handler knows of.
Known(l, j) ==
    /\ l = "purgeDrop" /\ j.op = "delete" => PodsOf(j.cur) \subseteq j.drop
    /\ l = "reapRS" => PodsOf(j.cur) = {}

\* The invariants. The second holds as long as the ReplicaSets fit on their page,
\* the last two as long as the pods fit on theirs too.
Shapes == \A r \in Requests : Shape(pc[r], job[r])

\* Requests that come one by one.
OneByOne ==
    calm =>
        /\ \A r, s \in Requests : ~Idle(r) /\ ~Idle(s) => r = s
        /\ \A r \in Requests : Kept(pc[r], job[r])
        /\ Orderly
        /\ (\A r \in Requests : ~Reaping(pc[r], job[r])) => Settled

\* A handler that nobody interfered with.
Undisturbed == \A r \in Requests : clean[r] => Good(pc[r], job[r])

\* The pods of requests that come one by one.
PodsOwned == calm => Owned /\ \A r \in Requests : Known(pc[r], job[r])

USE DEF Reconciling, AtPods, Purging, Addressing, Removes

----------------------------------------------------------------------------
(* One step of one handler.                                                *)

\* The shape of the store.
StoreOK ==
    /\ deployment \in Deployment \cup {NoObject}
    /\ replicaSets \in [Templates -> ReplicaSet \cup {NoObject}]
    /\ pods \subseteq Pod
    /\ service \in BOOLEAN
    /\ endpoints \in Endpoints \cup {NoObject}
    /\ slice \in Endpoints \cup {NoObject}

\* What a step of r must do for the invariants to hold after it.
Advances(r) ==
    /\ StoreOK'
    /\ job'[r] \in Job
    /\ Shape(pc[r], job[r])'
    /\ OnOnePage /\ clean[r] /\ clean'[r] /\ Good(pc[r], job[r]) => Good(pc[r], job[r])'
    /\ SetsFit /\ calm /\ Orderly /\ (~Reaping(pc[r], job[r]) => Settled) /\ Kept(pc[r], job[r]) =>
         Orderly' /\ (~Reaping(pc[r], job[r]) => Settled)' /\ Kept(pc[r], job[r])'

\* What a handler's step does to the handlers.
LEMMA Continues ==
  ASSUME TypeOK, NEW r \in Requests, NEW l, NEW j, NEW refused \in BOOLEAN,
         Continue(r, l, j, refused)
  PROVE  /\ pc'[r] = l /\ (l # "idle" => job'[r] = j) /\ (l = "idle" => job'[r] = NoJob)
         /\ l # "idle" /\ clean'[r] => clean[r] /\ ~refused
         /\ refused => refusals' = refusals + 1
         /\ ~refused => refusals' = refusals
         /\ calm' = calm /\ issued' = issued
         /\ \A s \in Requests \ {r} :
              /\ pc'[s] = pc[s] /\ job'[s] = job[s]
              /\ clean'[s] => clean[s] /\ (Idle(s) \/ storeVars' = storeVars)
  BY DEF Continue, TypeOK

\* A step in which no put is refused and the request goes on.
LEMMA Goes ==
  ASSUME TypeOK, NEW r \in Requests, NEW l, NEW j, l # "idle", Continue(r, l, j, FALSE)
  PROVE  pc'[r] = l /\ job'[r] = j
  BY DEF Continue, TypeOK

\* A store call that only reads.
LEMMA Reads ==
  ASSUME TypeOK, UNCHANGED storeVars
  PROVE  /\ StoreOK' /\ deployment' = deployment /\ replicaSets' = replicaSets /\ pods' = pods
         /\ service' = service /\ endpoints' = endpoints /\ slice' = slice
         /\ Present' = Present /\ (Orderly => Orderly') /\ (Settled => Settled')
         /\ SelectedPods' = SelectedPods /\ \A t : PodsOf(t)' = PodsOf(t)
<1>1. /\ deployment' = deployment /\ replicaSets' = replicaSets /\ pods' = pods
      /\ service' = service /\ endpoints' = endpoints /\ slice' = slice
  BY DEF storeVars
<1>2. StoreOK'
  BY <1>1 DEF StoreOK, TypeOK
<1>3. Present' = Present /\ SelectedPods' = SelectedPods /\ \A t : PodsOf(t)' = PodsOf(t)
  BY <1>1 DEF Present, SelectedPods, PodsOf
<1>4. (Orderly => Orderly') /\ (Settled => Settled')
  BY <1>1, <1>3 DEF Orderly, Settled
<1> QED
  BY <1>1, <1>2, <1>3, <1>4

\* No pod is off the page if the page has room for them all.
LEMMA AllOnPage ==
  ASSUME TypeOK, PodsFit
  PROVE  Addresses = SelectedPods /\ \A t : OwnedPods(t) = PodsOf(t)
<1>1. IsFiniteSet(Pod)
  <2> DEFINE C == (Templates \X {"deployment", "replicaset"}) \X (0 .. MaxPods - 1)
             f == [p \in Pod |-> <<<<p.rs, p.by>>, p.i>>]
  <2>1. MaxPods \in Nat /\ IsFiniteSet(Templates)
    BY WorkloadConstants
  <2>2. IsFiniteSet({"deployment", "replicaset"})
    <3>1. {"deployment", "replicaset"} = {"deployment"} \cup {"replicaset"}
      OBVIOUS
    <3>2. IsFiniteSet({"deployment"})
      BY FS_Singleton
    <3> QED
      BY <3>1, <3>2, FS_AddElement
  <2>3. IsFiniteSet(C)
    <3>1. IsFiniteSet(0 .. MaxPods - 1)
      BY <2>1, FS_Interval
    <3>2. IsFiniteSet(Templates \X {"deployment", "replicaset"})
      BY <2>1, <2>2, FS_Product
    <3> QED
      BY <3>1, <3>2, FS_Product
  <2>4. f \in [Pod -> C]
    BY DEF Pod
  <2>5. \A p, q \in Pod : f[p] = f[q] => p = q
    BY DEF Pod
  <2>6. f \in Injection(Pod, C)
    BY <2>4, <2>5, Zenon DEF Injection, IsInjective
  <2> HIDE DEF f, C
  <2> QED
    BY <2>3, <2>6, FS_Injection
<1>2. ASSUME NEW p \in pods
      PROVE  Cardinality({q \in pods : Before(q, p)}) < Visible
  <2> DEFINE B == {q \in pods : Before(q, p)}
  <2>1. B \subseteq pods \ {p}
    <3>1. pods \subseteq Pod
      BY DEF TypeOK
    <3>2. p.rs \in Nat /\ p.i \in Int
      <4>1. p \in Pod
        BY <3>1
      <4>2. p.rs \in Templates /\ p.i \in 0 .. MaxPods - 1
        BY <4>1 DEF Pod
      <4>3. (\A t \in Templates : t \in Nat) /\ MaxPods \in Nat
        BY WorkloadConstants
      <4> QED
        BY <4>2, <4>3
    <3>3. ~Before(p, p)
      BY <3>2 DEF Before
    <3> QED
      BY <3>3
  <2>2. IsFiniteSet(pods)
    BY <1>1, FS_Subset DEF TypeOK
  <2>3. IsFiniteSet(pods \ {p}) /\ Cardinality(pods \ {p}) = Cardinality(pods) - 1
    BY <2>2, FS_RemoveElement
  <2>4. Cardinality(B) <= Cardinality(pods \ {p}) /\ IsFiniteSet(B)
    BY <2>1, <2>3, FS_Subset
  <2>5. Cardinality(pods) \in Nat /\ Cardinality(B) \in Nat /\ Visible \in Nat
    BY <2>2, <2>4, FS_CardinalityType, WorkloadConstants
  <2> QED
    BY <2>3, <2>4, <2>5 DEF PodsFit
<1>3. Addresses = SelectedPods
  BY <1>2 DEF Addresses, SelectedPods
<1>4. \A t : OwnedPods(t) = PodsOf(t)
  BY <1>2 DEF OwnedPods, PodsOf
<1> QED
  BY <1>3, <1>4

\* No ReplicaSet is off its page if there is room for them all.
LEMMA AllSetsListed ==
  ASSUME TypeOK
  PROVE  /\ ListedSets \subseteq Present /\ Cardinality(ListedSets) \in Nat
         /\ SetsFit => ListedSets = Present
<1>1. IsFiniteSet(Present) /\ Present \subseteq Nat
  BY WorkloadConstants, FS_Subset DEF Present
<1>2. ListedSets \subseteq Present
  BY DEF ListedSets
<1>3. Cardinality(ListedSets) \in Nat
  BY <1>1, <1>2, FS_Subset, FS_CardinalityType
<1>4. ASSUME SetsFit, NEW t \in Present
      PROVE  Cardinality({u \in Present : u < t}) < VisibleSets
  <2> DEFINE B == {u \in Present : u < t}
  <2>1. B \subseteq Present \ {t}
    BY <1>1
  <2>2. IsFiniteSet(Present \ {t}) /\ Cardinality(Present \ {t}) = Cardinality(Present) - 1
    BY <1>1, FS_RemoveElement
  <2>3. Cardinality(B) <= Cardinality(Present \ {t}) /\ IsFiniteSet(B)
    BY <2>1, <2>2, FS_Subset
  <2>4. Cardinality(Present) \in Nat /\ Cardinality(B) \in Nat /\ VisibleSets \in Nat
    BY <1>1, <2>3, FS_CardinalityType, WorkloadConstants
  <2> QED
    BY <1>4, <2>2, <2>3, <2>4 DEF SetsFit
<1>5. SetsFit => ListedSets = Present
  BY <1>4 DEF ListedSets
<1> QED
  BY <1>2, <1>3, <1>5

\* A request without a job.
LEMMA NoJobType == NoJob \in Job /\ NoSets \in [Templates -> ReplicaSet \cup {NoObject}]
  BY DEF NoJob, NoSets, Job

\* The pods a controller wants are pods of its ReplicaSet.
LEMMA WantedPods ==
  ASSUME NEW t \in Templates, NEW by \in {"deployment", "replicaset"}, NEW n \in Int, n >= 0
  PROVE  /\ Desired(n) \in Int /\ Desired(n) >= 0 /\ Desired(Desired(n)) = Desired(n)
         /\ Wanted(t, by, n) = Wanted(t, by, Desired(n))
         /\ Wanted(t, by, n) \subseteq Pod
         /\ \A p \in Wanted(t, by, n) : p.rs = t
<1>1. Desired(n) \in Int /\ Desired(n) >= 0 /\ Desired(n) <= MaxPods /\ Desired(Desired(n)) = Desired(n)
  BY WorkloadConstants DEF Desired
<1>2. Wanted(t, by, n) = Wanted(t, by, Desired(n))
  BY <1>1 DEF Wanted
<1>3. \A i \in 0 .. Desired(n) - 1 : [rs |-> t, by |-> by, i |-> i] \in Pod
  BY <1>1, WorkloadConstants DEF Pod
<1> QED
  BY <1>1, <1>2, <1>3 DEF Wanted

\* get of the ReplicaSet of the template.
LEMMA RsGetAdvances ==
  ASSUME TypeOK, Shapes, NEW r \in Requests, RsGet(r)
  PROVE  Advances(r)
<1> DEFINE j == job[r]
           set == replicaSets[j.tmpl]
           l == CASE set = NoObject -> "rsList"
                  [] set # NoObject /\ set.replicas # Desired(j.replicas) -> "rsPut"
                  [] OTHER -> "podList"
           j1 == [j EXCEPT !.sets = [NoSets EXCEPT ![j.tmpl] = set]]
<1>1. pc[r] = "rsGet" /\ j \in Job /\ Shape("rsGet", j)
  BY DEF RsGet, TypeOK, Shapes
<1>2. UNCHANGED storeVars /\ Continue(r, l, j1, FALSE)
  BY DEF RsGet
<1>3. j1 \in Job
  BY <1>1 DEF Job, TypeOK, Shape, NoSets
<1>4. Shape(l, j1)
  BY <1>1, <1>3 DEF Job, Shape, NoSets
<1>5. l \in {"rsList", "rsPut", "podList"}
  OBVIOUS
<1>6. pc'[r] = l /\ job'[r] = j1
  <2> HIDE DEF l, j1
  <2> QED
    BY <1>2, <1>5, Goes
<1>7. Good("rsGet", j) => Good(pc[r], job[r])'
  BY <1>1, <1>2, <1>6, Reads DEF Good, Ready, Present, Job, Shape
<1>8. Kept("rsGet", j) => Kept(pc[r], job[r])'
  BY <1>1, <1>2, <1>6, Reads DEF Kept, Present, Job, Shape, NoSets
<1>9. ~Reaping("rsGet", j)
  BY DEF Reaping
<1> QED
  BY <1>1, <1>2, <1>3, <1>4, <1>6, <1>7, <1>8, <1>9, Reads DEF Advances

\* nextDeploymentRevision.
LEMMA RsListAdvances ==
  ASSUME TypeOK, Shapes, NEW r \in Requests, RsList(r)
  PROVE  Advances(r)
<1> DEFINE j == job[r]
           j1 == [j EXCEPT !.revision = Cardinality(ListedSets) + 1]
<1>1. pc[r] = "rsList" /\ j \in Job /\ Shape("rsList", j)
  BY DEF RsList, TypeOK, Shapes
<1>2. UNCHANGED storeVars /\ Continue(r, "rsAdd", j1, FALSE)
  BY DEF RsList
<1>3. Cardinality(ListedSets) + 1 \in Nat
  BY AllSetsListed
<1>4. j1 \in Job
  BY <1>1, <1>3 DEF Job
<1>5. Shape("rsAdd", j1)
  BY <1>1, <1>4 DEF Job, Shape
<1>6. pc'[r] = "rsAdd" /\ job'[r] = j1
  <2> HIDE DEF j1
  <2> QED
    BY <1>2, Goes
<1>7. Good("rsList", j) => Good(pc[r], job[r])'
  BY <1>1, <1>2, <1>6, Reads DEF Good, Job
<1>8. SetsFit /\ Kept("rsList", j) => Kept(pc[r], job[r])'
  BY <1>1, <1>2, <1>6, AllSetsListed, Reads DEF Kept, Job, Shape
<1>9. ~Reaping("rsList", j)
  BY DEF Reaping
<1> QED
  BY <1>1, <1>2, <1>4, <1>5, <1>6, <1>7, <1>8, <1>9, Reads DEF Advances

\* The pods there are against the pods wanted.
LEMMA PodListAdvances ==
  ASSUME TypeOK, Shapes, NEW r \in Requests, PodList(r)
  PROVE  Advances(r)
<1> DEFINE j == job[r]
           existing == OwnedPods(j.tmpl)
           wanted == Wanted(j.tmpl, j.by, j.replicas)
           j1 == [j EXCEPT !.drop = existing \ wanted, !.add = wanted \ existing, !.sets = NoSets]
           l == PodStage(j1)
<1>1. pc[r] = "podList" /\ j \in Job /\ Shape("podList", j)
  BY DEF PodList, TypeOK, Shapes
<1>2. UNCHANGED storeVars /\ Continue(r, l, j1, FALSE)
  BY DEF PodList
<1>3. existing \subseteq Pod /\ wanted \subseteq Pod
  <2>1. existing \subseteq pods /\ pods \subseteq Pod
    BY DEF OwnedPods, PodsOf, TypeOK
  <2>2. j.replicas \in Int
    BY <1>1 DEF Job
  <2> QED
    BY <1>1, <2>1, <2>2, WantedPods DEF Shape
<1> HIDE DEF existing, wanted
<1>4. /\ j1 \in Job /\ j1.drop = existing \ wanted /\ j1.add = wanted \ existing
      /\ j1.by = j.by /\ j1.tmpl = j.tmpl /\ j1.replicas = j.replicas /\ j1.op = j.op
  BY <1>1, <1>3, NoJobType DEF Job
<1>5. /\ l \in {"podDrop", "podAdd", "oldList", "emit"}
      /\ l = "podDrop" => j1.drop # {}
      /\ l = "podAdd" => j1.drop = {}
      /\ l \notin {"podDrop", "podAdd"} => j1.drop = {} /\ j1.add = {}
      /\ l = "oldList" => j.by = "deployment"
      /\ l = "emit" => j.by # "deployment"
  BY <1>4 DEF PodStage, AfterPods
<1> HIDE DEF l, j1
<1>6. pc'[r] = l /\ job'[r] = j1
  <2>1. l # "idle"
    BY <1>5
  <2> QED
    BY <1>2, <2>1, Goes
<1>7. Shape(l, j1)
  BY <1>1, <1>4, <1>5 DEF Shape, wanted
<1>8. PodsFit /\ Good("podList", j) => Good(pc[r], job[r])'
  <2> SUFFICES ASSUME PodsFit, Good("podList", j) PROVE Good(pc[r], job[r])'
    OBVIOUS
  <2>1. existing = PodsOf(j.tmpl)
    BY AllOnPage DEF existing
  <2>2. l \notin {"podDrop", "podAdd"} => PodsOf(j.tmpl) = wanted
    BY <1>4, <1>5, <2>1
  <2> QED
    BY <1>1, <1>2, <1>4, <1>5, <1>6, <2>1, <2>2, Reads DEF Good, Ready, Done, wanted, Shape
<1>9. Kept("podList", j) => Kept(pc[r], job[r])'
  BY <1>1, <1>2, <1>4, <1>5, <1>6, Reads DEF Kept, Shape
<1>10. ~Reaping("podList", j)
  BY DEF Reaping
<1> QED
  BY <1>1, <1>2, <1>4, <1>6, <1>7, <1>8, <1>9, <1>10, Reads DEF Advances, OnOnePage

\* deploymentReplicaSets.
LEMMA OldListAdvances ==
  ASSUME TypeOK, Shapes, NEW r \in Requests, OldList(r)
  PROVE  Advances(r)
<1> DEFINE j == job[r]
           old == ListedSets \ {j.tmpl}
           l == IF old = {} THEN "statusGet" ELSE "oldPut"
           j1 == [j EXCEPT !.old = old, !.sets = IF old = {} THEN NoSets ELSE replicaSets]
<1>1. pc[r] = "oldList" /\ j \in Job /\ Shape("oldList", j)
  BY DEF OldList, TypeOK, Shapes
<1>2. UNCHANGED storeVars /\ Continue(r, l, j1, FALSE)
  BY DEF OldList
<1>3. old \subseteq Templates /\ replicaSets \in [Templates -> ReplicaSet \cup {NoObject}]
  BY AllSetsListed DEF Present, TypeOK
<1>4. \A t \in old : replicaSets[t] # NoObject
  BY AllSetsListed DEF Present
<1> HIDE DEF old
<1>5. /\ j1 \in Job /\ j1.old = old /\ (old # {} => j1.sets = replicaSets)
      /\ j1.by = j.by /\ j1.tmpl = j.tmpl /\ j1.replicas = j.replicas /\ j1.op = j.op
  BY <1>1, <1>3, NoJobType DEF Job
<1>6. (old = {} /\ l = "statusGet") \/ (old # {} /\ l = "oldPut")
  OBVIOUS
<1> HIDE DEF l, j1
<1>7. pc'[r] = l /\ job'[r] = j1
  <2>1. l # "idle"
    BY <1>6
  <2> QED
    BY <1>2, <2>1, Goes
<1>8. Shape(l, j1)
  BY <1>1, <1>4, <1>5, <1>6 DEF Shape
<1>9. SetsFit /\ Good("oldList", j) => Good(pc[r], job[r])'
  <2> SUFFICES ASSUME SetsFit, Good("oldList", j) PROVE Good(pc[r], job[r])'
    OBVIOUS
  <2>1. old = Present \ {j.tmpl}
    BY AllSetsListed DEF old
  <2> QED
    BY <1>1, <1>2, <1>5, <1>6, <1>7, <2>1, Reads DEF Good, Ready, Retired, Shape
<1>10. Kept("oldList", j) => Kept(pc[r], job[r])'
  BY <1>1, <1>2, <1>5, <1>6, <1>7, Reads DEF Kept, Shape
<1>11. ~Reaping("oldList", j)
  BY DEF Reaping
<1> QED
  BY <1>1, <1>2, <1>5, <1>7, <1>8, <1>9, <1>10, <1>11, Reads DEF Advances, OnOnePage

\* Where a request goes when the pods of a ReplicaSet are gone: what its job and
\* label are then.
LEMMA AfterPurged ==
  ASSUME NEW j \in Job
  PROVE  /\ Purged(j) \in Job
         /\ Purged(j).op = j.op /\ Purged(j).by = j.by /\ Purged(j).tmpl = j.tmpl
         /\ Purged(j).replicas = j.replicas /\ Purged(j).old = j.old
         /\ Purged(j).addresses = j.addresses
         /\ Removes(j) \/ j.old # {} => Purged(j).sets = j.sets /\ Purged(j).cur = j.cur
         /\ \/ AfterPurge(j) = "reapRS" /\ j.op = "delete"
            \/ AfterPurge(j) = "answer" /\ j.op = "deleteRS"
            \/ AfterPurge(j) = "oldPut" /\ ~Removes(j) /\ j.old # {}
            \/ AfterPurge(j) = "statusGet" /\ ~Removes(j) /\ j.old = {}
<1>1. Purged(j) = j \/ (/\ Purged(j) = [j EXCEPT !.cur = NoObject, !.sets = NoSets]
                         /\ ~Removes(j) /\ j.old = {})
  BY DEF Purged
<1> DEFINE k == [j EXCEPT !.cur = NoObject, !.sets = NoSets]
<1>3. /\ k \in Job /\ k.op = j.op /\ k.by = j.by /\ k.tmpl = j.tmpl
      /\ k.replicas = j.replicas /\ k.old = j.old /\ k.addresses = j.addresses
  BY NoJobType DEF Job
<1> HIDE DEF k
<1>4. Purged(j) = j \/ (Purged(j) = k /\ ~Removes(j) /\ j.old = {})
  BY <1>1 DEF k
<1>5. \/ AfterPurge(j) = "reapRS" /\ j.op = "delete"
      \/ AfterPurge(j) = "answer" /\ j.op = "deleteRS"
      \/ AfterPurge(j) = "oldPut" /\ ~Removes(j) /\ j.old # {}
      \/ AfterPurge(j) = "statusGet" /\ ~Removes(j) /\ j.old = {}
  BY DEF AfterPurge
<1> QED
  BY <1>3, <1>4, <1>5

\* A handler that has found the pods of j.cur gone goes on.
LEMMA PurgeEnds ==
  ASSUME TypeOK, NEW r \in Requests, NEW j \in Job, Shape("purgeDrop", j),
         Continue(r, AfterPurge(j), Purged(j), FALSE)
  PROVE  /\ job'[r] \in Job /\ Shape(pc[r], job[r])'
         /\ ~Removes(j) /\ Good("purgeList", j)' /\ PodsOf(j.cur)' = {} => Good(pc[r], job[r])'
         /\ Removes(j) => Good(pc[r], job[r])'
         /\ Kept("purgeList", j)' => Kept(pc[r], job[r])'
         /\ j.op = "delete" <=> Reaping(pc[r], job[r])'
<1> DEFINE l == AfterPurge(j)
           k == Purged(j)
<1>1. /\ k \in Job /\ k.op = j.op /\ k.by = j.by /\ k.tmpl = j.tmpl /\ k.replicas = j.replicas
      /\ k.old = j.old /\ k.addresses = j.addresses
      /\ Removes(j) \/ j.old # {} => k.sets = j.sets /\ k.cur = j.cur
      /\ \/ l = "reapRS" /\ j.op = "delete"
         \/ l = "answer" /\ j.op = "deleteRS"
         \/ l = "oldPut" /\ ~Removes(j) /\ j.old # {}
         \/ l = "statusGet" /\ ~Removes(j) /\ j.old = {}
  BY AfterPurged
<1> HIDE DEF l, k
<1>2. pc'[r] = l /\ job'[r] = k
  <2>1. l # "idle"
    BY <1>1
  <2>2. Continue(r, l, k, FALSE)
    BY DEF l, k
  <2> QED
    BY <2>1, <2>2, Goes
<1>3. Shape(l, k)
  BY <1>1 DEF Shape
<1>4. ~Removes(j) /\ Good("purgeList", j)' /\ PodsOf(j.cur)' = {} => Good(pc[r], job[r])'
  <2> SUFFICES ASSUME ~Removes(j), Good("purgeList", j)', PodsOf(j.cur)' = {}
               PROVE  Good(pc[r], job[r])'
    OBVIOUS
  <2>1. Retired(j, j.old)'
    BY DEF Good, Retired
  <2>2. Retired(k, k.old)'
    BY <1>1, <2>1 DEF Retired
  <2>3. Ready(k)'
    BY <1>1 DEF Good, Ready
  <2>4. PodsOf(k.tmpl)' = Wanted(k.tmpl, k.by, k.replicas)
    BY <1>1 DEF Good
  <2>5. k.old # {} => k.old \subseteq Present' \ {k.tmpl} /\ \A t \in k.old : k.sets[t] = replicaSets'[t]
    BY <1>1 DEF Good
  <2> QED
    BY <1>1, <1>2, <2>2, <2>3, <2>4, <2>5 DEF Good
<1>5. Removes(j) => Good(pc[r], job[r])'
  <2> SUFFICES ASSUME Removes(j) PROVE Good(pc[r], job[r])'
    OBVIOUS
  <2>1. (l = "reapRS" \/ l = "answer") /\ k.by = "none" /\ k.op \notin {"create", "service"}
    BY <1>1 DEF Shape
  <2> QED
    BY <1>2, <2>1 DEF Good, Done
<1>6. Kept("purgeList", j)' => Kept(pc[r], job[r])'
  <2> SUFFICES ASSUME Kept("purgeList", j)' PROVE Kept(pc[r], job[r])'
    OBVIOUS
  <2>1. CASE l = "reapRS" /\ j.op = "delete"
    BY <1>1, <1>2, <2>1 DEF Kept
  <2>2. CASE l = "answer" /\ j.op = "deleteRS"
    BY <2>2 DEF Kept
  <2>3. CASE ~Removes(j)
    BY <1>1, <1>2, <2>3 DEF Kept, Shape
  <2> QED
    BY <1>1, <2>1, <2>2, <2>3
<1>7. j.op = "delete" <=> Reaping(pc[r], job[r])'
  BY <1>1, <1>2 DEF Reaping
<1> QED
  BY <1>1, <1>2, <1>3, <1>4, <1>5, <1>6, <1>7

\* A store call that deletes a pod, if it is there.
LEMMA PodGoes ==
  ASSUME TypeOK, NEW p, pods' = pods \ {p},
         UNCHANGED <<deployment, replicaSets, service, endpoints, slice>>
  PROVE  /\ StoreOK' /\ Present' = Present /\ (Orderly => Orderly') /\ (Settled => Settled')
         /\ deployment' = deployment /\ replicaSets' = replicaSets /\ service' = service
         /\ \A t : PodsOf(t)' = PodsOf(t) \ {p}
<1>1. Present' = Present /\ \A t : PodsOf(t)' = PodsOf(t) \ {p}
  BY DEF Present, PodsOf
<1>2. StoreOK'
  BY DEF StoreOK, TypeOK
<1> QED
  BY <1>1, <1>2 DEF Orderly, Settled

\* ownedPodNames of a ReplicaSet that goes.
LEMMA PurgeListAdvances ==
  ASSUME TypeOK, Shapes, NEW r \in Requests, PurgeList(r)
  PROVE  Advances(r)
<1> DEFINE j == job[r]
<1>1. pc[r] = "purgeList" /\ j \in Job /\ Shape("purgeList", j)
  BY DEF PurgeList, TypeOK, Shapes
<1>2. PICK k : k = [j EXCEPT !.drop = OwnedPods(j.cur)]
  OBVIOUS
<1>3. /\ UNCHANGED storeVars
      /\ k.drop = {} => Continue(r, AfterPurge(k), Purged(k), FALSE)
      /\ k.drop # {} => Continue(r, "purgeDrop", k, FALSE)
  BY <1>2, Zenon DEF PurgeList
<1>4. OwnedPods(j.cur) \subseteq Pod
  BY DEF OwnedPods, PodsOf, TypeOK
<1>5. /\ k \in Job /\ k.drop = OwnedPods(j.cur) /\ k.by = j.by /\ k.tmpl = j.tmpl
      /\ k.replicas = j.replicas /\ k.op = j.op /\ k.old = j.old /\ k.cur = j.cur
      /\ k.sets = j.sets
  BY <1>1, <1>2, <1>4 DEF Job
<1>6. PodsFit => k.drop = PodsOf(k.cur)
  BY <1>5, AllOnPage
<1>7. Shape("purgeDrop", k) /\ Shape("purgeList", k)
  BY <1>1, <1>5 DEF Shape
<1>8. Good("purgeList", j) => Good("purgeList", k)'
  BY <1>3, <1>5, Reads DEF Good, Ready, Retired
<1>9. Kept("purgeList", j) => Kept("purgeList", k)'
  BY <1>3, <1>5, Reads DEF Kept
<1>10. Reaping("purgeList", j) <=> k.op = "delete"
  BY <1>5 DEF Reaping
<1>11. CASE k.drop = {}
  <2>1. PodsFit => PodsOf(k.cur)' = {}
    BY <1>3, <1>6, <1>11, Reads
  <2>2. Continue(r, AfterPurge(k), Purged(k), FALSE)
    BY <1>3, <1>11
  <2>3. /\ job'[r] \in Job /\ Shape(pc[r], job[r])'
        /\ ~Removes(k) /\ Good("purgeList", k)' /\ PodsOf(k.cur)' = {} => Good(pc[r], job[r])'
        /\ Removes(k) => Good(pc[r], job[r])'
        /\ Kept("purgeList", k)' => Kept(pc[r], job[r])'
        /\ k.op = "delete" <=> Reaping(pc[r], job[r])'
    BY <1>5, <1>7, <2>2, PurgeEnds
  <2> QED
    BY <1>1, <1>3, <1>8, <1>9, <1>10, <2>1, <2>3, Reads DEF Advances, OnOnePage
<1>12. CASE k.drop # {}
  <2>1. pc'[r] = "purgeDrop" /\ job'[r] = k
    BY <1>3, <1>12, Goes
  <2>2. PodsFit /\ Good("purgeList", j) => Good(pc[r], job[r])'
    BY <1>3, <1>6, <1>8, <2>1, Reads DEF Good
  <2>3. Kept("purgeList", j) => Kept(pc[r], job[r])'
    BY <1>3, <1>6, <1>9, <2>1, Reads DEF Kept
  <2>4. Reaping(pc[r], job[r])' <=> k.op = "delete"
    BY <2>1 DEF Reaping
  <2> QED
    BY <1>1, <1>3, <1>5, <1>7, <1>10, <2>1, <2>2, <2>3, <2>4, Reads DEF Advances, OnOnePage
<1> QED
  BY <1>11, <1>12

\* delete of one of them.
LEMMA PurgeDropAdvances ==
  ASSUME TypeOK, Shapes, NEW r \in Requests, PurgeDrop(r)
  PROVE  Advances(r)
<1> DEFINE j == job[r]
<1>1. pc[r] = "purgeDrop" /\ j \in Job /\ Shape("purgeDrop", j)
  BY DEF PurgeDrop, TypeOK, Shapes
<1>2. PICK p \in j.drop :
        LET k == [j EXCEPT !.drop = @ \ {p}] IN
         /\ pods' = pods \ {p}
         /\ UNCHANGED <<deployment, replicaSets, service, endpoints, slice>>
         /\ IF k.drop = {} THEN Continue(r, AfterPurge(k), Purged(k), FALSE)
                           ELSE Continue(r, "purgeDrop", k, FALSE)
  BY DEF PurgeDrop
<1>3. PICK k : k = [j EXCEPT !.drop = @ \ {p}]
  OBVIOUS
<1>4. /\ pods' = pods \ {p}
      /\ UNCHANGED <<deployment, replicaSets, service, endpoints, slice>>
      /\ k.drop = {} => Continue(r, AfterPurge(k), Purged(k), FALSE)
      /\ k.drop # {} => Continue(r, "purgeDrop", k, FALSE)
  BY <1>2, <1>3, Zenon
<1>5. /\ k \in Job /\ k.drop = j.drop \ {p} /\ k.by = j.by /\ k.tmpl = j.tmpl
      /\ k.replicas = j.replicas /\ k.op = j.op /\ k.old = j.old /\ k.cur = j.cur
      /\ k.sets = j.sets
  BY <1>1, <1>3 DEF Job
<1>6. /\ StoreOK' /\ Present' = Present /\ (Orderly => Orderly') /\ (Settled => Settled')
      /\ deployment' = deployment /\ replicaSets' = replicaSets /\ service' = service
      /\ \A t : PodsOf(t)' = PodsOf(t) \ {p}
  BY <1>4, PodGoes
<1>7. Shape("purgeDrop", k)
  BY <1>1, <1>5 DEF Shape
<1>8. Good("purgeDrop", j) /\ ~Removes(j) =>
        Good("purgeList", k)' /\ k.drop = PodsOf(k.cur)'
  <2> SUFFICES ASSUME Good("purgeDrop", j), ~Removes(j)
               PROVE  Good("purgeList", k)' /\ k.drop = PodsOf(k.cur)'
    OBVIOUS
  <2>1. j.drop = PodsOf(j.cur) /\ j.cur # j.tmpl
    BY DEF Good
  <2>2. k.drop = PodsOf(k.cur)'
    BY <1>5, <1>6, <2>1
  <2>3. p.rs = j.cur
    BY <2>1 DEF PodsOf
  <2>4. \A t : t # j.cur => PodsOf(t)' = PodsOf(t)
    BY <1>6, <2>3 DEF PodsOf
  <2>5. Ready(k)'
    BY <1>5, <1>6 DEF Good, Ready
  <2>6. Retired(k, k.old \cup {k.cur})'
    BY <1>5, <1>6, <2>4 DEF Good, Retired
  <2> QED
    BY <1>5, <1>6, <2>1, <2>2, <2>4, <2>5, <2>6 DEF Good
<1>9. Kept("purgeDrop", j) => Kept("purgeList", k)'
  BY <1>5, <1>6 DEF Kept
<1>10. Reaping("purgeDrop", j) <=> k.op = "delete"
  BY <1>5 DEF Reaping
<1>11. CASE k.drop = {}
  <2>2. Continue(r, AfterPurge(k), Purged(k), FALSE)
    BY <1>4, <1>11
  <2>3. /\ job'[r] \in Job /\ Shape(pc[r], job[r])'
        /\ ~Removes(k) /\ Good("purgeList", k)' /\ PodsOf(k.cur)' = {} => Good(pc[r], job[r])'
        /\ Removes(k) => Good(pc[r], job[r])'
        /\ Kept("purgeList", k)' => Kept(pc[r], job[r])'
        /\ k.op = "delete" <=> Reaping(pc[r], job[r])'
    BY <1>5, <1>7, <2>2, PurgeEnds
  <2> QED
    BY <1>1, <1>5, <1>6, <1>8, <1>9, <1>10, <1>11, <2>3 DEF Advances
<1>12. CASE k.drop # {}
  <2>1. pc'[r] = "purgeDrop" /\ job'[r] = k
    BY <1>4, <1>12, Goes
  <2>2. Good("purgeDrop", j) => Good(pc[r], job[r])'
    BY <1>5, <1>8, <2>1 DEF Good
  <2>3. Kept("purgeDrop", j) => Kept(pc[r], job[r])'
    BY <1>9, <2>1 DEF Kept
  <2>4. Reaping(pc[r], job[r])' <=> k.op = "delete"
    BY <2>1 DEF Reaping
  <2> QED
    BY <1>1, <1>5, <1>6, <1>7, <1>10, <2>1, <2>2, <2>3, <2>4 DEF Advances
<1> QED
  BY <1>11, <1>12

\* get of syncDeploymentStatus.
LEMMA StatusGetAdvances ==
  ASSUME TypeOK, Shapes, NEW r \in Requests, StatusGet(r)
  PROVE  Advances(r)
<1> DEFINE j == job[r]
           l == IF deployment = NoObject THEN AfterControllers(j.op) ELSE "statusPut"
           j1 == [j EXCEPT !.read = deployment]
<1>1. pc[r] = "statusGet" /\ j \in Job /\ Shape("statusGet", j)
  BY DEF StatusGet, TypeOK, Shapes
<1>2. UNCHANGED storeVars /\ Continue(r, l, j1, FALSE)
  BY DEF StatusGet
<1>3. /\ j1 \in Job /\ j1.read = deployment /\ j1.by = j.by /\ j1.tmpl = j.tmpl
      /\ j1.replicas = j.replicas /\ j1.op = j.op
  BY <1>1 DEF Job, TypeOK
<1>4. \/ l = "statusPut" /\ deployment # NoObject
      \/ l = "serviceList" /\ deployment = NoObject /\ j.op = "create"
      \/ l = "answer" /\ deployment = NoObject
  BY DEF AfterControllers
<1> HIDE DEF l, j1
<1>5. pc'[r] = l /\ job'[r] = j1
  <2>1. l # "idle"
    BY <1>4
  <2> QED
    BY <1>2, <2>1, Goes
<1>6. Shape(l, j1)
  BY <1>1, <1>3, <1>4 DEF Shape
<1>7. Good("statusGet", j) => Good(pc[r], job[r])'
  BY <1>1, <1>2, <1>3, <1>4, <1>5, Reads DEF Good, Ready, Retired, Shape
<1>8. Kept("statusGet", j) => Kept(pc[r], job[r])'
  BY <1>1, <1>2, <1>3, <1>4, <1>5, Reads DEF Kept, Shape
<1>9. ~Reaping("statusGet", j)
  BY DEF Reaping
<1> QED
  BY <1>1, <1>2, <1>3, <1>5, <1>6, <1>7, <1>8, <1>9, Reads DEF Advances

\* A store call that puts the Deployment.
LEMMA DeploymentIsPut ==
  ASSUME TypeOK, NEW d \in Deployment, deployment' = d,
         UNCHANGED <<replicaSets, pods, service, endpoints, slice>>
  PROVE  /\ StoreOK' /\ Present' = Present /\ deployment' # NoObject
         /\ (Orderly => Orderly') /\ (Orderly /\ Settled => Settled')
         /\ SelectedPods' = SelectedPods /\ \A t : PodsOf(t)' = PodsOf(t)
<1>1. Present' = Present /\ SelectedPods' = SelectedPods /\ \A t : PodsOf(t)' = PodsOf(t)
  BY DEF Present, SelectedPods, PodsOf
<1>2. deployment' # NoObject
  BY WorkloadConstants
<1>3. StoreOK'
  BY DEF StoreOK, TypeOK
<1> QED
  BY <1>1, <1>2, <1>3 DEF Orderly, Settled

\* put of syncDeploymentStatus.
LEMMA StatusPutAdvances ==
  ASSUME TypeOK, Shapes, NEW r \in Requests, StatusPut(r)
  PROVE  Advances(r)
<1> DEFINE j == job[r]
           l == AfterControllers(j.op)
           j1 == [j EXCEPT !.read = NoObject]
           d == [j.read EXCEPT !.status = Desired(j.replicas)]
<1>1. pc[r] = "statusPut" /\ j \in Job /\ Shape("statusPut", j)
  BY DEF StatusPut, TypeOK, Shapes
<1>2. PICK refused \in BOOLEAN :
        /\ deployment' = IF refused THEN deployment ELSE d
        /\ UNCHANGED <<replicaSets, pods, service, endpoints, slice>>
        /\ Continue(r, l, j1, refused)
  BY DEF StatusPut, MayRefuse
<1>3. /\ j1 \in Job /\ j1.by = j.by /\ j1.tmpl = j.tmpl
      /\ j1.replicas = j.replicas /\ j1.op = j.op
  BY <1>1 DEF Job
<1>4. j.read \in Deployment /\ j.replicas \in Int /\ j.replicas >= 0 /\ j.tmpl \in Templates
  BY <1>1 DEF Job, Shape
<1>5. Desired(j.replicas) \in Int /\ Desired(Desired(j.replicas)) = Desired(j.replicas)
      /\ Wanted(j.tmpl, "deployment", j.replicas) = Wanted(j.tmpl, "deployment", Desired(j.replicas))
  BY <1>4, WantedPods
<1>6. d \in Deployment /\ d.status = Desired(j.replicas)
  BY <1>4, <1>5 DEF Deployment
<1>7. (l = "serviceList" /\ j.op = "create") \/ (l = "answer" /\ j.op # "create")
  BY DEF AfterControllers
<1> HIDE DEF l, j1, d
<1>8. pc'[r] = l /\ job'[r] = j1 /\ (clean'[r] => ~refused)
  <2>1. l # "idle"
    BY <1>7
  <2> QED
    BY <1>2, <2>1, Continues
<1>9. Shape(l, j1)
  BY <1>1, <1>3, <1>7 DEF Shape
<1>10. ~Reaping("statusPut", j) /\ ~Reaping(pc[r], job[r])'
  BY <1>7, <1>8 DEF Reaping
<1>11. CASE refused
  <2>1. UNCHANGED storeVars
    BY <1>2, <1>11 DEF storeVars
  <2>2. Kept("statusPut", j) => Kept(pc[r], job[r])'
    BY <1>1, <1>3, <1>7, <1>8 DEF Kept, Shape
  <2> QED
    BY <1>1, <1>3, <1>8, <1>9, <1>10, <1>11, <2>1, <2>2, Reads DEF Advances
<1>12. CASE ~refused
  <2>1. deployment' = d /\ UNCHANGED <<replicaSets, pods, service, endpoints, slice>>
    BY <1>2, <1>12
  <2>2. /\ StoreOK' /\ Present' = Present /\ deployment' # NoObject
        /\ (Orderly => Orderly') /\ (Orderly /\ Settled => Settled')
        /\ SelectedPods' = SelectedPods /\ \A t : PodsOf(t)' = PodsOf(t)
    BY <1>6, <2>1, DeploymentIsPut
  <2>3. Kept("statusPut", j) => Kept(pc[r], job[r])'
    BY <1>1, <1>3, <1>7, <1>8 DEF Kept, Shape
  <2>4. Good("statusPut", j) => Good(pc[r], job[r])'
    <3> SUFFICES ASSUME Good("statusPut", j) PROVE Good(pc[r], job[r])'
      OBVIOUS
    <3>1. j.by = "deployment" /\ j.op \notin {"delete", "deleteRS", "service"}
      BY <1>1 DEF Shape
    <3>2. RolledOut(j.tmpl, Desired(j.replicas))
      BY <1>5, <3>1 DEF Good, Ready, Retired, RolledOut
    <3>3. RolledOut(job[r].tmpl, Desired(job[r].replicas))'
      BY <1>3, <1>8, <2>1, <2>2, <3>2 DEF RolledOut
    <3>4. Done(job[r])'
      BY <1>3, <1>6, <1>8, <2>1, <2>2, <3>1, <3>3 DEF Done
    <3> QED
      BY <1>3, <1>7, <1>8, <3>1, <3>4 DEF Good
  <2> QED
    BY <1>1, <1>3, <1>8, <1>9, <1>10, <2>2, <2>3, <2>4 DEF Advances
<1> QED
  BY <1>11, <1>12

\* put of the Deployment by update, patch and scale.
LEMMA DeploymentPutAdvances ==
  ASSUME TypeOK, Shapes, NEW r \in Requests, DeploymentPut(r)
  PROVE  Advances(r)
<1> DEFINE j == job[r]
           d == [tmpl |-> j.tmpl, replicas |-> j.replicas, status |-> j.replicas]
<1>1. pc[r] = "deploymentPut" /\ j \in Job /\ Shape("deploymentPut", j)
  BY DEF DeploymentPut, TypeOK, Shapes
<1>2. PICK refused \in BOOLEAN :
        /\ deployment' = IF refused THEN deployment ELSE d
        /\ UNCHANGED <<replicaSets, pods, service, endpoints, slice>>
        /\ Continue(r, IF refused THEN "answer" ELSE EnterDeployment(j.op, j.replicas), j, refused)
  BY DEF DeploymentPut, MayRefuse
<1>3. PICK l : l = IF refused THEN "answer" ELSE EnterDeployment(j.op, j.replicas)
  OBVIOUS
<1>4. Continue(r, l, j, refused)
  BY <1>2, <1>3
<1>5. /\ l \in {"answer", "serviceList", "rsGet"}
      /\ l = "rsGet" => ~refused /\ j.replicas >= 0
      /\ l # "rsGet" => refused \/ j.replicas < 0
      /\ l = "serviceList" => j.op = "create"
      /\ l = "answer" => refused \/ j.op # "create"
  <2>1. j.replicas \in Int
    BY <1>1 DEF Job
  <2> QED
    BY <1>3, <2>1 DEF EnterDeployment, AfterControllers
<1>6. pc'[r] = l /\ job'[r] = j /\ (clean'[r] => ~refused)
  <2>1. l # "idle"
    BY <1>5
  <2> QED
    BY <1>4, <2>1, Continues
<1>7. d \in Deployment
  BY <1>1 DEF Job, Shape, Deployment
<1> HIDE DEF d
<1>8. Shape(l, j)
  BY <1>1, <1>5 DEF Shape
<1>9. ~Reaping("deploymentPut", j) /\ ~Reaping(pc[r], job[r])'
  BY <1>5, <1>6 DEF Reaping
<1>10. j.by = "deployment" /\ j.op # "deleteRS" /\ j.op # "service" /\ ~Removes(j) /\ j.replicas \in Int
  BY <1>1 DEF Shape, Job
<1>11. CASE refused
  <2>1. UNCHANGED storeVars
    BY <1>2, <1>11 DEF storeVars
  <2>2. l = "answer"
    BY <1>3, <1>11
  <2>3. Kept(pc[r], job[r])'
    BY <1>6, <1>10, <2>2 DEF Kept
  <2> QED
    BY <1>1, <1>6, <1>8, <1>9, <1>11, <2>1, <2>3, Reads DEF Advances
<1>12. CASE ~refused
  <2>1. deployment' = d /\ UNCHANGED <<replicaSets, pods, service, endpoints, slice>>
    BY <1>2, <1>12
  <2>2. /\ StoreOK' /\ Present' = Present /\ deployment' # NoObject
        /\ (Orderly => Orderly') /\ (Orderly /\ Settled => Settled')
        /\ SelectedPods' = SelectedPods /\ \A t : PodsOf(t)' = PodsOf(t)
    BY <1>7, <2>1, DeploymentIsPut
  <2>3. Kept(pc[r], job[r])'
    BY <1>5, <1>6, <1>10, <2>2 DEF Kept
  <2>4. Good(pc[r], job[r])'
    BY <1>5, <1>6, <1>10, <1>12, <2>2 DEF Good, Done
  <2> QED
    BY <1>1, <1>6, <1>8, <1>9, <2>2, <2>3, <2>4 DEF Advances
<1> QED
  BY <1>11, <1>12

\* A store call that puts a ReplicaSet where one is, or as a new one.
LEMMA SetIsPut ==
  ASSUME TypeOK, NEW t \in Templates, NEW set \in ReplicaSet,
         replicaSets' = [replicaSets EXCEPT ![t] = set],
         UNCHANGED <<deployment, pods, service, endpoints, slice>>
  PROVE  /\ StoreOK' /\ Present' = Present \cup {t} /\ set # NoObject
         /\ replicaSets'[t] = set /\ \A u \in Templates \ {t} : replicaSets'[u] = replicaSets[u]
         /\ SelectedPods' = SelectedPods /\ \A u : PodsOf(u)' = PodsOf(u)
         /\ t \in Present /\ set.revision = replicaSets[t].revision /\ Orderly => Orderly'
         /\ t \in Present /\ set.revision = replicaSets[t].revision /\ Settled => Settled'
         /\ t \notin Present /\ set.revision = Cardinality(Present) + 1 /\ Orderly /\ Settled
              /\ deployment # NoObject => Orderly' /\ Settled'
<1>1. set # NoObject
  BY WorkloadConstants
<1>2. /\ Present' = Present \cup {t} /\ replicaSets'[t] = set
      /\ \A u \in Templates \ {t} : replicaSets'[u] = replicaSets[u]
  BY <1>1 DEF Present, TypeOK
<1>3. SelectedPods' = SelectedPods /\ \A u : PodsOf(u)' = PodsOf(u)
  BY DEF SelectedPods, PodsOf
<1>4. StoreOK'
  BY DEF StoreOK, TypeOK
<1>5. Present \subseteq Templates
  BY DEF Present
<1>6. ASSUME t \in Present, set.revision = replicaSets[t].revision
      PROVE  (Orderly => Orderly') /\ (Settled => Settled')
  <2>1. Present' = Present /\ \A u \in Present : replicaSets'[u].revision = replicaSets[u].revision
    BY <1>2, <1>5, <1>6
  <2> QED
    BY <2>1 DEF Orderly, Settled
<1>7. ASSUME t \notin Present, set.revision = Cardinality(Present) + 1, Orderly, Settled,
             deployment # NoObject
      PROVE  Orderly' /\ Settled'
  <2>1. IsFiniteSet(Present)
    BY <1>5, WorkloadConstants, FS_Subset
  <2>2. Cardinality(Present') = Cardinality(Present) + 1 /\ Cardinality(Present) \in Nat
    BY <1>2, <1>7, <2>1, FS_AddElement, FS_CardinalityType
  <2>3. ASSUME NEW u \in Present
        PROVE  /\ replicaSets'[u].revision = replicaSets[u].revision
               /\ replicaSets[u].revision \in Nat
               /\ replicaSets[u].revision <= Cardinality(Present)
    <3>1. replicaSets[u] \in ReplicaSet
      BY <1>5 DEF TypeOK, Present
    <3> QED
      BY <1>2, <1>5, <1>7, <3>1 DEF Settled, ReplicaSet
  <2>4. replicaSets'[t].revision = Cardinality(Present) + 1
    BY <1>2, <1>7
  <2>5. \A u \in Present' : replicaSets'[u].revision <= Cardinality(Present')
    BY <1>2, <2>2, <2>3, <2>4
  <2>6. \A u, v \in Present' : replicaSets'[u].revision = replicaSets'[v].revision => u = v
    <3>1. \A u, v \in Present : replicaSets'[u].revision = replicaSets'[v].revision => u = v
      BY <1>7, <2>3 DEF Orderly
    <3>2. \A u \in Present : replicaSets'[u].revision # replicaSets'[t].revision
      BY <2>2, <2>3, <2>4
    <3> QED
      BY <1>2, <3>1, <3>2
  <2> QED
    BY <1>2, <1>7, <2>5, <2>6 DEF Orderly, Settled
<1> QED
  BY <1>1, <1>2, <1>3, <1>4, <1>6, <1>7

\* put "ADDED" of the ReplicaSet.
LEMMA RsAddAdvances ==
  ASSUME TypeOK, Shapes, NEW r \in Requests, RsAdd(r)
  PROVE  Advances(r)
<1> DEFINE j == job[r]
           set == [replicas |-> Desired(j.replicas), revision |-> j.revision]
<1>1. pc[r] = "rsAdd" /\ j \in Job /\ Shape("rsAdd", j)
  BY DEF RsAdd, TypeOK, Shapes
<1>2. PICK refused \in BOOLEAN :
        LET stored == replicaSets[j.tmpl] = NoObject /\ ~refused IN
        /\ replicaSets' = IF stored THEN [replicaSets EXCEPT ![j.tmpl] = set] ELSE replicaSets
        /\ UNCHANGED <<deployment, pods, service, endpoints, slice>>
        /\ Continue(r, IF stored THEN "podList" ELSE AfterControllers(j.op), j, refused)
  BY DEF RsAdd, MayRefuse
<1>3. /\ j.by = "deployment" /\ j.tmpl \in Templates /\ ~Removes(j) /\ j.op # "service"
      /\ j.replicas \in Int /\ j.replicas >= 0 /\ j.revision \in Nat
  BY <1>1 DEF Shape, Job
<1>4. set \in ReplicaSet /\ set.replicas = Desired(j.replicas) /\ set.revision = j.revision
  BY <1>3, WantedPods DEF ReplicaSet
<1>5. j.tmpl \in Present <=> replicaSets[j.tmpl] # NoObject
  BY <1>3 DEF Present
<1> HIDE DEF set
<1>6. ~Reaping("rsAdd", j)
  BY DEF Reaping
<1>7. CASE j.tmpl \notin Present /\ ~refused
  <2>1. /\ replicaSets' = [replicaSets EXCEPT ![j.tmpl] = set]
        /\ UNCHANGED <<deployment, pods, service, endpoints, slice>>
        /\ Continue(r, "podList", j, FALSE)
    BY <1>2, <1>5, <1>7
  <2>2. pc'[r] = "podList" /\ job'[r] = j
    BY <2>1, Goes
  <2>3. /\ StoreOK' /\ Present' = Present \cup {j.tmpl} /\ replicaSets'[j.tmpl] = set
        /\ set.revision = Cardinality(Present) + 1 /\ Orderly /\ Settled
              /\ deployment # NoObject => Orderly' /\ Settled'
    <3>1. PICK t : t = j.tmpl
      OBVIOUS
    <3>2. PICK v : v = set
      OBVIOUS
    <3>3. t \in Templates /\ v \in ReplicaSet /\ t \notin Present
      BY <1>3, <1>4, <1>7, <3>1, <3>2
    <3>4. /\ replicaSets' = [replicaSets EXCEPT ![t] = v]
          /\ UNCHANGED <<deployment, pods, service, endpoints, slice>>
      BY <2>1, <3>1, <3>2
    <3>5. /\ StoreOK' /\ Present' = Present \cup {t} /\ replicaSets'[t] = v
          /\ t \notin Present /\ v.revision = Cardinality(Present) + 1 /\ Orderly /\ Settled
               /\ deployment # NoObject => Orderly' /\ Settled'
      BY <3>3, <3>4, SetIsPut
    <3> QED
      BY <3>1, <3>2, <3>3, <3>5
  <2>4. Shape("podList", j)
    BY <1>1 DEF Shape
  <2>5. Good("rsAdd", j) => Good(pc[r], job[r])'
    BY <1>3, <1>4, <2>1, <2>2, <2>3 DEF Good, Ready
  <2>6. Orderly /\ Settled /\ Kept("rsAdd", j) => Orderly' /\ Settled' /\ Kept(pc[r], job[r])'
    BY <1>3, <1>4, <2>1, <2>2, <2>3 DEF Kept
  <2> QED
    BY <1>1, <1>6, <2>2, <2>3, <2>4, <2>5, <2>6 DEF Advances
<1>8. CASE j.tmpl \in Present \/ refused
  <2>1. PICK l : l = AfterControllers(j.op)
    OBVIOUS
  <2>2. UNCHANGED storeVars /\ Continue(r, l, j, refused)
    BY <1>2, <1>5, <1>8, <2>1 DEF storeVars
  <2>3. (l = "serviceList" /\ j.op = "create") \/ (l = "answer" /\ j.op # "create")
    BY <2>1 DEF AfterControllers
  <2>4. pc'[r] = l /\ job'[r] = j /\ (clean'[r] => ~refused)
    <3>1. l # "idle"
      BY <2>3
    <3> QED
      BY <2>2, <3>1, Continues
  <2>5. Shape(l, j)
    BY <1>3, <2>3 DEF Shape
  <2>6. Good("rsAdd", j) /\ clean'[r] => FALSE
    BY <1>8, <2>4 DEF Good
  <2>7. Kept(pc[r], job[r])'
    BY <1>3, <2>3, <2>4 DEF Kept
  <2>8. ~Reaping(pc[r], job[r])'
    BY <2>3, <2>4 DEF Reaping
  <2> QED
    BY <1>1, <1>6, <2>2, <2>4, <2>5, <2>6, <2>7, <2>8, Reads DEF Advances
<1> QED
  BY <1>7, <1>8

\* put "MODIFIED" of the ReplicaSet as read.
LEMMA RsPutAdvances ==
  ASSUME TypeOK, Shapes, NEW r \in Requests, RsPut(r)
  PROVE  Advances(r)
<1> DEFINE j == job[r]
           set == [j.sets[j.tmpl] EXCEPT !.replicas = Desired(j.replicas)]
           j1 == [j EXCEPT !.sets = NoSets]
<1>1. pc[r] = "rsPut" /\ j \in Job /\ Shape("rsPut", j)
  BY DEF RsPut, TypeOK, Shapes
<1>2. PICK refused \in BOOLEAN :
        /\ replicaSets' = IF refused THEN replicaSets ELSE [replicaSets EXCEPT ![j.tmpl] = set]
        /\ UNCHANGED <<deployment, pods, service, endpoints, slice>>
        /\ Continue(r, "podList", j1, refused)
  BY DEF RsPut, MayRefuse
<1>3. /\ j.by = "deployment" /\ j.tmpl \in Templates /\ ~Removes(j)
      /\ j.replicas \in Int /\ j.replicas >= 0 /\ j.sets[j.tmpl] \in ReplicaSet
  BY <1>1 DEF Shape, Job
<1>4. /\ set \in ReplicaSet /\ set.replicas = Desired(j.replicas)
      /\ set.revision = j.sets[j.tmpl].revision
  BY <1>3, WantedPods DEF ReplicaSet
<1>5. /\ j1 \in Job /\ j1.by = j.by /\ j1.tmpl = j.tmpl
      /\ j1.replicas = j.replicas /\ j1.op = j.op
  BY <1>1, NoJobType DEF Job
<1>6. j.tmpl \in Present <=> replicaSets[j.tmpl] # NoObject
  BY <1>3 DEF Present
<1> HIDE DEF set, j1
<1>7. pc'[r] = "podList" /\ job'[r] = j1 /\ (clean'[r] => ~refused)
  BY <1>2, Continues
<1>8. ~Reaping("rsPut", j) /\ ~Reaping(pc[r], job[r])'
  BY <1>7 DEF Reaping
<1>9. Shape("podList", j1)
  BY <1>1, <1>3, <1>5 DEF Shape
<1>10. Kept("rsPut", j) => j.tmpl \in Present /\ replicaSets[j.tmpl] = j.sets[j.tmpl]
  BY <1>3, <1>6, WorkloadConstants DEF Kept
<1>11. CASE refused
  <2>1. UNCHANGED storeVars
    BY <1>2, <1>11 DEF storeVars
  <2>2. Kept("rsPut", j) => Kept(pc[r], job[r])'
    BY <1>3, <1>5, <1>7, <1>10, <2>1, Reads DEF Kept
  <2> QED
    BY <1>1, <1>5, <1>7, <1>8, <1>9, <1>11, <2>1, <2>2, Reads DEF Advances
<1>12. CASE ~refused
  <2>1. /\ replicaSets' = [replicaSets EXCEPT ![j.tmpl] = set]
        /\ UNCHANGED <<deployment, pods, service, endpoints, slice>>
    BY <1>2, <1>12
  <2>2. /\ StoreOK' /\ Present' = Present \cup {j.tmpl} /\ replicaSets'[j.tmpl] = set
        /\ j.tmpl \in Present /\ set.revision = replicaSets[j.tmpl].revision /\ Orderly => Orderly'
        /\ j.tmpl \in Present /\ set.revision = replicaSets[j.tmpl].revision /\ Settled => Settled'
    BY <1>3, <1>4, <2>1, SetIsPut
  <2>3. Good("rsPut", j) => Good(pc[r], job[r])'
    BY <1>3, <1>4, <1>5, <1>7, <2>1, <2>2 DEF Good, Ready
  <2>4. Kept("rsPut", j) => Kept(pc[r], job[r])'
    BY <1>3, <1>5, <1>7, <2>1, <2>2 DEF Kept
  <2> QED
    BY <1>1, <1>4, <1>5, <1>7, <1>8, <1>9, <1>10, <2>2, <2>3, <2>4 DEF Advances
<1> QED
  BY <1>11, <1>12

\* A handler that has deleted or put a pod goes on with job j.
LEMMA PodsGoOn ==
  ASSUME TypeOK, NEW r \in Requests, NEW j \in Job, Shape("podDrop", j), NEW refused \in BOOLEAN,
         Continue(r, PodStage(j), j, refused)
  PROVE  /\ job'[r] = j /\ (clean'[r] => ~refused)
         /\ Shape(pc[r], job[r])' /\ ~Reaping(pc[r], job[r])'
         /\ /\ Ready(j)'
            /\ j.drop = PodsOf(j.tmpl)' \ Wanted(j.tmpl, j.by, j.replicas)
            /\ j.add = Wanted(j.tmpl, j.by, j.replicas) \ PodsOf(j.tmpl)'
            => Good(pc[r], job[r])'
         /\ Kept("podDrop", j)' => Kept(pc[r], job[r])'
<1> DEFINE l == PodStage(j)
<1>1. /\ l \in {"podDrop", "podAdd", "oldList", "emit"}
      /\ l = "podDrop" => j.drop # {}
      /\ l = "podAdd" => j.drop = {}
      /\ l \notin {"podDrop", "podAdd"} => j.drop = {} /\ j.add = {}
      /\ l = "oldList" => j.by = "deployment"
      /\ l = "emit" => j.by # "deployment"
  BY DEF PodStage, AfterPods
<1>2. Continue(r, l, j, refused)
  OBVIOUS
<1> HIDE DEF l
<1>3. pc'[r] = l /\ job'[r] = j /\ (clean'[r] => ~refused)
  <2>1. l # "idle"
    BY <1>1
  <2> QED
    BY <1>2, <2>1, Continues
<1>4. Shape(l, j)
  BY <1>1 DEF Shape
<1>5. ~Reaping(pc[r], job[r])'
  BY <1>1, <1>3 DEF Reaping
<1>6. /\ Ready(j)'
      /\ j.drop = PodsOf(j.tmpl)' \ Wanted(j.tmpl, j.by, j.replicas)
      /\ j.add = Wanted(j.tmpl, j.by, j.replicas) \ PodsOf(j.tmpl)'
      => Good(pc[r], job[r])'
  <2> SUFFICES ASSUME Ready(j)',
                      j.drop = PodsOf(j.tmpl)' \ Wanted(j.tmpl, j.by, j.replicas),
                      j.add = Wanted(j.tmpl, j.by, j.replicas) \ PodsOf(j.tmpl)'
               PROVE  Good(pc[r], job[r])'
    OBVIOUS
  <2>1. l \notin {"podDrop", "podAdd"} => PodsOf(j.tmpl)' = Wanted(j.tmpl, j.by, j.replicas)
    BY <1>1
  <2> QED
    BY <1>1, <1>3, <2>1 DEF Good, Done, Shape
<1>7. Kept("podDrop", j)' => Kept(pc[r], job[r])'
  BY <1>1, <1>3 DEF Kept, Shape
<1> QED
  BY <1>3, <1>4, <1>5, <1>6, <1>7

\* delete of a pod that is not wanted.
LEMMA PodDropAdvances ==
  ASSUME TypeOK, Shapes, NEW r \in Requests, PodDrop(r)
  PROVE  Advances(r)
<1> DEFINE j == job[r]
<1>1. pc[r] = "podDrop" /\ j \in Job /\ Shape("podDrop", j)
  BY DEF PodDrop, TypeOK, Shapes
<1>2. PICK p \in j.drop :
        LET k == [j EXCEPT !.drop = @ \ {p}] IN
         /\ pods' = pods \ {p}
         /\ UNCHANGED <<deployment, replicaSets, service, endpoints, slice>>
         /\ Continue(r, PodStage(k), k, FALSE)
  BY DEF PodDrop
<1>3. PICK k : k = [j EXCEPT !.drop = @ \ {p}]
  OBVIOUS
<1>4. /\ pods' = pods \ {p}
      /\ UNCHANGED <<deployment, replicaSets, service, endpoints, slice>>
      /\ Continue(r, PodStage(k), k, FALSE)
  BY <1>2, <1>3, Zenon
<1>5. /\ k \in Job /\ k.drop = j.drop \ {p} /\ k.add = j.add /\ k.by = j.by /\ k.tmpl = j.tmpl
      /\ k.replicas = j.replicas /\ k.op = j.op
  BY <1>1, <1>3 DEF Job
<1>6. /\ StoreOK' /\ Present' = Present /\ (Orderly => Orderly') /\ (Settled => Settled')
      /\ deployment' = deployment /\ replicaSets' = replicaSets
      /\ \A t : PodsOf(t)' = PodsOf(t) \ {p}
  BY <1>4, PodGoes
<1>7. Shape("podDrop", k)
  BY <1>1, <1>5 DEF Shape
<1>8. /\ job'[r] = k /\ Shape(pc[r], job[r])' /\ ~Reaping(pc[r], job[r])'
      /\ /\ Ready(k)'
         /\ k.drop = PodsOf(k.tmpl)' \ Wanted(k.tmpl, k.by, k.replicas)
         /\ k.add = Wanted(k.tmpl, k.by, k.replicas) \ PodsOf(k.tmpl)'
         => Good(pc[r], job[r])'
      /\ Kept("podDrop", k)' => Kept(pc[r], job[r])'
  BY <1>4, <1>5, <1>7, PodsGoOn
<1>9. Good("podDrop", j) => Good(pc[r], job[r])'
  <2> SUFFICES ASSUME Good("podDrop", j) PROVE Good(pc[r], job[r])'
    OBVIOUS
  <2>1. Ready(k)'
    BY <1>5, <1>6 DEF Good, Ready
  <2>2. /\ j.drop = PodsOf(j.tmpl) \ Wanted(j.tmpl, j.by, j.replicas)
        /\ j.add = Wanted(j.tmpl, j.by, j.replicas) \ PodsOf(j.tmpl)
    BY DEF Good
  <2>3. /\ k.drop = PodsOf(k.tmpl)' \ Wanted(k.tmpl, k.by, k.replicas)
        /\ k.add = Wanted(k.tmpl, k.by, k.replicas) \ PodsOf(k.tmpl)'
    BY <1>5, <1>6, <2>2
  <2> QED
    BY <1>8, <2>1, <2>3
<1>10. Kept("podDrop", j) => Kept(pc[r], job[r])'
  <2>1. Kept("podDrop", j) => Kept("podDrop", k)'
    BY <1>5, <1>6 DEF Kept
  <2> QED
    BY <1>8, <2>1
<1>11. ~Reaping("podDrop", j)
  BY DEF Reaping
<1> QED
  BY <1>1, <1>5, <1>6, <1>8, <1>9, <1>10, <1>11 DEF Advances

\* put "ADDED" of the next missing pod.
LEMMA PodAddAdvances ==
  ASSUME TypeOK, Shapes, NEW r \in Requests, PodAdd(r)
  PROVE  Advances(r)
<1> DEFINE j == job[r]
<1>1. pc[r] = "podAdd" /\ j \in Job /\ Shape("podAdd", j)
  BY DEF PodAdd, TypeOK, Shapes
<1>2. PICK p \in j.add, refused \in BOOLEAN :
        LET k == [j EXCEPT !.add = @ \ {p}] IN
         /\ pods' = IF refused THEN pods ELSE pods \cup {p}
         /\ UNCHANGED <<deployment, replicaSets, service, endpoints, slice>>
         /\ Continue(r, PodStage(k), k, refused)
  BY DEF PodAdd, MayRefuse
<1>3. PICK k : k = [j EXCEPT !.add = @ \ {p}]
  OBVIOUS
<1>4. /\ pods' = IF refused THEN pods ELSE pods \cup {p}
      /\ UNCHANGED <<deployment, replicaSets, service, endpoints, slice>>
      /\ Continue(r, PodStage(k), k, refused)
  BY <1>2, <1>3
<1>5. /\ k \in Job /\ k.drop = j.drop /\ k.add = j.add \ {p} /\ k.by = j.by /\ k.tmpl = j.tmpl
      /\ k.replicas = j.replicas /\ k.op = j.op
  BY <1>1, <1>3 DEF Job
<1>6. p \in Pod /\ p.rs = j.tmpl /\ p \in Wanted(j.tmpl, j.by, j.replicas)
  <2>1. j.tmpl \in Templates /\ j.by \in {"deployment", "replicaset"} /\ j.replicas \in Int
        /\ j.replicas >= 0 /\ p \in Wanted(j.tmpl, j.by, j.replicas)
    BY <1>1 DEF Shape, Job
  <2>2. /\ Wanted(j.tmpl, j.by, j.replicas) \subseteq Pod
        /\ \A q \in Wanted(j.tmpl, j.by, j.replicas) : q.rs = j.tmpl
    BY <2>1, WantedPods
  <2> QED
    BY <2>1, <2>2
<1>7. Shape("podDrop", k)
  BY <1>1, <1>5 DEF Shape
<1>8. /\ job'[r] = k /\ (clean'[r] => ~refused)
      /\ Shape(pc[r], job[r])' /\ ~Reaping(pc[r], job[r])'
      /\ /\ Ready(k)'
         /\ k.drop = PodsOf(k.tmpl)' \ Wanted(k.tmpl, k.by, k.replicas)
         /\ k.add = Wanted(k.tmpl, k.by, k.replicas) \ PodsOf(k.tmpl)'
         => Good(pc[r], job[r])'
      /\ Kept("podDrop", k)' => Kept(pc[r], job[r])'
  BY <1>4, <1>5, <1>7, PodsGoOn
<1>9. Present' = Present /\ StoreOK'
  BY <1>4, <1>6 DEF Present, StoreOK, TypeOK
<1>10. Good("podAdd", j) /\ clean'[r] => Good(pc[r], job[r])'
  <2> SUFFICES ASSUME Good("podAdd", j), clean'[r] PROVE Good(pc[r], job[r])'
    OBVIOUS
  <2>1. Ready(k)'
    BY <1>4, <1>5, <1>9 DEF Good, Ready
  <2>2. /\ j.drop = PodsOf(j.tmpl) \ Wanted(j.tmpl, j.by, j.replicas)
        /\ j.add = Wanted(j.tmpl, j.by, j.replicas) \ PodsOf(j.tmpl)
    BY DEF Good
  <2>3. PodsOf(k.tmpl)' = PodsOf(k.tmpl) \cup {p}
    <3>1. pods' = pods \cup {p}
      BY <1>4, <1>8
    <3>2. \A t : t = j.tmpl => PodsOf(t)' = PodsOf(t) \cup {p}
      BY <1>6, <3>1 DEF PodsOf
    <3> QED
      BY <1>5, <3>2
  <2>4. k.drop = PodsOf(k.tmpl) \ Wanted(k.tmpl, k.by, k.replicas)
    BY <1>5, <2>2
  <2>5. k.add = (Wanted(k.tmpl, k.by, k.replicas) \ PodsOf(k.tmpl)) \ {p}
    BY <1>5, <2>2
  <2>6. p \in Wanted(k.tmpl, k.by, k.replicas)
    BY <1>5, <1>6
  <2>7. /\ k.drop = PodsOf(k.tmpl)' \ Wanted(k.tmpl, k.by, k.replicas)
        /\ k.add = Wanted(k.tmpl, k.by, k.replicas) \ PodsOf(k.tmpl)'
    BY <2>3, <2>4, <2>5, <2>6
  <2> QED
    BY <1>8, <2>1, <2>7
<1>11. Kept("podAdd", j) => Kept(pc[r], job[r])'
  <2>1. Kept("podAdd", j) => Kept("podDrop", k)'
    BY <1>4, <1>5, <1>9 DEF Kept
  <2> QED
    BY <1>8, <2>1
<1>12. Kept("podAdd", j) /\ Orderly /\ Settled => Orderly' /\ Settled'
  <2>1. Kept("podAdd", j) => j.tmpl \in Present
    BY DEF Kept
  <2>2. pods' \subseteq pods \cup {p}
    BY <1>4
  <2> QED
    BY <1>4, <1>6, <1>9, <2>1, <2>2 DEF Orderly, Settled
<1>13. ~Reaping("podAdd", j)
  BY DEF Reaping
<1> QED
  BY <1>1, <1>5, <1>8, <1>9, <1>10, <1>11, <1>12, <1>13 DEF Advances

\* The Events of materializePods.
LEMMA EmitAdvances ==
  ASSUME TypeOK, Shapes, NEW r \in Requests, Emit(r)
  PROVE  Advances(r)
<1> DEFINE j == job[r]
<1>1. pc[r] = "emit" /\ j \in Job /\ Shape("emit", j) /\ UNCHANGED storeVars
  BY DEF Emit, TypeOK, Shapes
<1>2. PICK l \in {"emit", "outOfMemory", "answer"}, n \in Nat :
        Continue(r, l, [j EXCEPT !.emitted = n], FALSE)
  <2>1. j.emitted \in Nat /\ AfterControllers(j.op) = "answer"
    BY <1>1 DEF Job, Shape, AfterControllers
  <2>2. j.emitted + 1 \in Nat /\ 0 \in Nat
    BY <2>1
  <2> QED
    BY <2>1, <2>2, Zenon DEF Emit
<1>3. PICK k : k = [j EXCEPT !.emitted = n]
  OBVIOUS
<1>4. /\ k \in Job /\ k.by = j.by /\ k.tmpl = j.tmpl /\ k.replicas = j.replicas /\ k.op = j.op
  BY <1>1, <1>3 DEF Job
<1>5. pc'[r] = l /\ job'[r] = k
  <2>1. Continue(r, l, k, FALSE) /\ l # "idle"
    BY <1>2, <1>3
  <2> QED
    BY <2>1, Goes
<1>6. Shape(l, k)
  BY <1>1, <1>4 DEF Shape
<1>7. Good("emit", j) => Good(pc[r], job[r])'
  <2> SUFFICES ASSUME Good("emit", j) PROVE Good(pc[r], job[r])'
    OBVIOUS
  <2>1. Done(j) /\ j.by = "replicaset" /\ j.op \notin {"create", "service"}
    BY <1>1 DEF Good, Shape
  <2>2. Done(k)'
    BY <1>1, <1>4, <2>1, Reads DEF Done
  <2> QED
    BY <1>4, <1>5, <2>1, <2>2 DEF Good
<1>8. Kept("emit", j) => Kept(pc[r], job[r])'
  BY <1>4, <1>5 DEF Kept
<1>9. ~Reaping("emit", j) /\ ~Reaping(pc[r], job[r])'
  BY <1>5 DEF Reaping
<1> QED
  BY <1>1, <1>4, <1>5, <1>6, <1>7, <1>8, <1>9, Reads DEF Advances

\* put of the next old ReplicaSet with no replicas.
LEMMA OldPutAdvances ==
  ASSUME TypeOK, Shapes, NEW r \in Requests, OldPut(r)
  PROVE  Advances(r)
<1> DEFINE j == job[r]
<1>1. pc[r] = "oldPut" /\ j \in Job /\ Shape("oldPut", j)
  BY DEF OldPut, TypeOK, Shapes
<1>2. PICK t \in j.old, refused \in BOOLEAN :
        /\ j.sets[t].replicas = 0 => ~refused
        /\ replicaSets' = IF refused \/ j.sets[t].replicas = 0 THEN replicaSets
                          ELSE [replicaSets EXCEPT ![t] = [j.sets[t] EXCEPT !.replicas = 0]]
        /\ UNCHANGED <<deployment, pods, service, endpoints, slice>>
        /\ Continue(r, "purgeList", [j EXCEPT !.old = @ \ {t}, !.cur = t], refused)
  BY DEF OldPut, MayRefuse
<1>3. PICK k : k = [j EXCEPT !.old = @ \ {t}, !.cur = t]
  OBVIOUS
<1>4. PICK set : set = [j.sets[t] EXCEPT !.replicas = 0]
  OBVIOUS
<1>5. t \in Templates /\ j.sets[t] \in ReplicaSet /\ j.tmpl \in Templates /\ j.by = "deployment"
      /\ ~Removes(j) /\ j.replicas \in Int /\ j.replicas >= 0
  BY <1>1 DEF Shape, Job
<1>6. set \in ReplicaSet /\ set.replicas = 0 /\ set.revision = j.sets[t].revision
  BY <1>4, <1>5 DEF ReplicaSet
<1>7. /\ k \in Job /\ k.old = j.old \ {t} /\ k.cur = t /\ k.sets = j.sets /\ k.by = j.by
      /\ k.tmpl = j.tmpl /\ k.replicas = j.replicas /\ k.op = j.op
  BY <1>1, <1>3, <1>5 DEF Job
<1>8. pc'[r] = "purgeList" /\ job'[r] = k /\ (clean'[r] => ~refused)
  <2>1. Continue(r, "purgeList", k, refused)
    BY <1>2, <1>3
  <2> QED
    BY <2>1, Continues
<1>9. Shape("purgeList", k)
  BY <1>1, <1>5, <1>7 DEF Shape
<1>10. ~Reaping("oldPut", j) /\ ~Reaping(pc[r], job[r])'
  BY <1>5, <1>7, <1>8 DEF Reaping
<1>11. Good("oldPut", j) => t \in Present \ {j.tmpl} /\ replicaSets[t] = j.sets[t]
  BY DEF Good
<1>12. Kept("oldPut", j) => t \in Present /\ replicaSets[t] = j.sets[t]
  <2>1. Kept("oldPut", j) => replicaSets[t] = j.sets[t]
    BY DEF Kept
  <2>2. j.sets[t] # NoObject
    BY <1>1 DEF Shape
  <2> QED
    BY <1>5, <2>1, <2>2 DEF Present
<1>13. CASE refused \/ j.sets[t].replicas = 0
  <2>1. UNCHANGED storeVars
    BY <1>2, <1>13 DEF storeVars
  <2>2. Kept("oldPut", j) => Kept(pc[r], job[r])'
    BY <1>5, <1>7, <1>8, <1>12, <2>1, Reads DEF Kept
  <2>3. Good("oldPut", j) /\ clean'[r] => Good(pc[r], job[r])'
    <3> SUFFICES ASSUME Good("oldPut", j), clean'[r] PROVE Good(pc[r], job[r])'
      OBVIOUS
    <3>1. replicaSets[t].replicas = 0
      BY <1>8, <1>11, <1>13
    <3>2. Retired(k, k.old \cup {k.cur})'
      BY <1>7, <2>1, Reads DEF Good, Retired
    <3>3. Ready(k)'
      BY <1>7, <2>1, Reads DEF Good, Ready
    <3>4. PodsOf(k.tmpl)' = Wanted(k.tmpl, k.by, k.replicas)
      BY <1>7, <2>1, Reads DEF Good
    <3>5. k.old \subseteq Present' \ {k.tmpl} /\ \A u \in k.old : k.sets[u] = replicaSets'[u]
      BY <1>7, <2>1, Reads DEF Good
    <3>6. k.cur \in Present' \ ({k.tmpl} \cup k.old) /\ replicaSets'[k.cur].replicas = 0
      BY <1>7, <1>11, <2>1, <3>1, Reads
    <3>7. Good("purgeList", k)'
      BY <1>5, <1>7, <3>2, <3>3, <3>4, <3>5, <3>6 DEF Good
    <3> QED
      BY <1>8, <3>7
  <2> QED
    BY <1>1, <1>7, <1>8, <1>9, <1>10, <2>1, <2>2, <2>3, Reads DEF Advances
<1>14. CASE ~(refused \/ j.sets[t].replicas = 0)
  <2>1. /\ replicaSets' = [replicaSets EXCEPT ![t] = set]
        /\ UNCHANGED <<deployment, pods, service, endpoints, slice>>
    BY <1>2, <1>4, <1>14
  <2>2. /\ StoreOK' /\ Present' = Present \cup {t} /\ replicaSets'[t] = set
        /\ \A u \in Templates \ {t} : replicaSets'[u] = replicaSets[u]
        /\ \A u : PodsOf(u)' = PodsOf(u)
        /\ t \in Present /\ set.revision = replicaSets[t].revision /\ Orderly => Orderly'
        /\ t \in Present /\ set.revision = replicaSets[t].revision /\ Settled => Settled'
    BY <1>5, <1>6, <2>1, SetIsPut
  <2>3. j.old \subseteq Templates /\ Present \subseteq Templates
    BY <1>1 DEF Job, Present
  <2>4. Kept("oldPut", j) => Kept(pc[r], job[r])'
    BY <1>5, <1>7, <1>8, <1>12, <2>1, <2>2, <2>3 DEF Kept
  <2>5. Good("oldPut", j) => Good(pc[r], job[r])'
    <3> SUFFICES ASSUME Good("oldPut", j) PROVE Good(pc[r], job[r])'
      OBVIOUS
    <3>1. Present' = Present
      BY <1>11, <2>2
    <3>2. Retired(k, k.old \cup {k.cur})'
      BY <1>7, <2>2, <2>3, <3>1 DEF Good, Retired
    <3>3. Ready(k)'
      BY <1>5, <1>7, <1>11, <2>1, <2>2, <2>3, <3>1 DEF Good, Ready
    <3>4. \A u \in k.old : k.sets[u] = replicaSets'[u]
      BY <1>7, <2>2, <2>3 DEF Good
    <3> QED
      BY <1>5, <1>6, <1>7, <1>8, <1>11, <2>2, <3>1, <3>2, <3>3, <3>4 DEF Good
  <2> QED
    BY <1>1, <1>6, <1>7, <1>8, <1>9, <1>10, <1>12, <2>2, <2>4, <2>5 DEF Advances
<1> QED
  BY <1>13, <1>14


\* The ReplicaSets of a Deployment that is gone.
LEMMA ReapListAdvances ==
  ASSUME TypeOK, Shapes, NEW r \in Requests, ReapList(r)
  PROVE  Advances(r)
<1> DEFINE j == job[r]
<1>1. pc[r] = "reapList" /\ j \in Job /\ Shape("reapList", j) /\ j.op = "delete" /\ j.by = "none"
  BY DEF ReapList, TypeOK, Shapes, Shape
<1>2. UNCHANGED storeVars
  BY DEF ReapList
<1>3. Reaping("reapList", j)
  BY <1>1 DEF Reaping
<1>4. CASE ListedSets = {}
  <2>1. Continue(r, "answer", j, FALSE)
    BY <1>4 DEF ReapList
  <2>2. pc'[r] = "answer" /\ job'[r] = j
    BY <2>1, Goes
  <2>3. Shape("answer", j)
    BY <1>1 DEF Shape
  <2>4. Good(pc[r], job[r])' /\ ~Reaping(pc[r], job[r])'
    BY <1>1, <2>2 DEF Good, Done, Reaping
  <2>5. Kept("reapList", j) => Kept(pc[r], job[r])'
    BY <1>1, <2>2 DEF Kept
  <2>6. SetsFit /\ Orderly => Settled
    BY <1>4, AllSetsListed DEF Orderly, Settled
  <2> QED
    BY <1>1, <1>2, <1>3, <2>2, <2>3, <2>4, <2>5, <2>6, Reads DEF Advances
<1>5. CASE ListedSets # {}
  <2>1. PICK t \in ListedSets :
          Continue(r, "purgeList", [j EXCEPT !.old = ListedSets \ {t}, !.cur = t], FALSE)
    BY <1>5 DEF ReapList
  <2>2. PICK k : k = [j EXCEPT !.old = ListedSets \ {t}, !.cur = t]
    OBVIOUS
  <2>3. t \in Templates /\ ListedSets \ {t} \subseteq Templates
    BY AllSetsListed DEF Present
  <2>4. k \in Job /\ k.old = ListedSets \ {t} /\ k.cur = t /\ k.op = j.op /\ k.by = j.by
    BY <1>1, <2>2, <2>3 DEF Job
  <2>5. pc'[r] = "purgeList" /\ job'[r] = k
    BY <2>1, <2>2, Goes
  <2>6. Shape("purgeList", k)
    BY <1>1, <2>3, <2>4 DEF Shape
  <2>7. Good(pc[r], job[r])' /\ Reaping(pc[r], job[r])'
    BY <1>1, <2>4, <2>5 DEF Good, Reaping
  <2>8. SetsFit => Kept(pc[r], job[r])'
    <3>1. SetsFit => Present' = k.old \cup {k.cur} /\ k.cur \notin k.old
      BY <1>2, <2>4, AllSetsListed, Reads
    <3> QED
      BY <1>1, <2>4, <2>5, <3>1 DEF Kept
  <2> QED
    BY <1>1, <1>2, <1>3, <2>4, <2>5, <2>6, <2>7, <2>8, Reads DEF Advances
<1> QED
  BY <1>4, <1>5

\* A store call that deletes a ReplicaSet, if it is there.
LEMMA SetGoes ==
  ASSUME TypeOK, NEW t \in Templates, replicaSets' = [replicaSets EXCEPT ![t] = NoObject],
         UNCHANGED <<deployment, pods, service, endpoints, slice>>
  PROVE  /\ StoreOK' /\ Present' = Present \ {t} /\ \A u : PodsOf(u)' = PodsOf(u)
         /\ Orderly => Orderly'
<1>1. Present' = Present \ {t} /\ \A u \in Present' : replicaSets'[u] = replicaSets[u]
  BY DEF Present, TypeOK
<1>2. \A u : PodsOf(u)' = PodsOf(u)
  BY DEF PodsOf
<1>3. StoreOK'
  BY DEF StoreOK, TypeOK
<1>4. Orderly => Orderly'
  BY <1>1 DEF Orderly
<1> QED
  BY <1>1, <1>2, <1>3, <1>4

\* delete of a ReplicaSet whose pods are gone.
LEMMA ReapRSAdvances ==
  ASSUME TypeOK, Shapes, NEW r \in Requests, ReapRS(r)
  PROVE  Advances(r)
<1> DEFINE j == job[r]
<1>1. /\ pc[r] = "reapRS" /\ j \in Job /\ Shape("reapRS", j) /\ j.op = "delete" /\ j.by = "none"
      /\ j.cur \in Templates /\ j.old \subseteq Templates
  BY DEF ReapRS, TypeOK, Shapes, Shape, Job
<1>2. /\ replicaSets' = [replicaSets EXCEPT ![j.cur] = NoObject]
      /\ UNCHANGED <<deployment, pods, service, endpoints, slice>>
  BY DEF ReapRS
<1>3. /\ StoreOK' /\ Present' = Present \ {j.cur} /\ \A u : PodsOf(u)' = PodsOf(u)
      /\ Orderly => Orderly'
  BY <1>1, <1>2, SetGoes
<1>4. Kept("reapRS", j) => Present' = j.old /\ j.cur \notin j.old
  BY <1>1, <1>3 DEF Kept
<1>5. Reaping("reapRS", j)
  BY <1>1 DEF Reaping
<1>6. CASE j.old = {}
  <2>1. PICK k : k = [j EXCEPT !.cur = NoObject]
    OBVIOUS
  <2>2. Continue(r, "answer", k, FALSE)
    BY <1>6, <2>1 DEF ReapRS
  <2>3. pc'[r] = "answer" /\ job'[r] = k
    BY <2>2, Goes
  <2>4. k \in Job /\ k.op = j.op /\ k.by = j.by
    BY <1>1, <2>1 DEF Job
  <2>5. Shape("answer", k)
    BY <1>1, <2>4 DEF Shape
  <2>6. Good(pc[r], job[r])' /\ ~Reaping(pc[r], job[r])'
    BY <1>1, <2>3, <2>4 DEF Good, Done, Reaping
  <2>7. Kept(pc[r], job[r])'
    BY <1>1, <2>3, <2>4 DEF Kept
  <2>8. Kept("reapRS", j) /\ Orderly => Orderly' /\ Settled'
    BY <1>3, <1>4, <1>6 DEF Orderly, Settled
  <2> QED
    BY <1>1, <1>3, <1>5, <2>3, <2>4, <2>5, <2>6, <2>7, <2>8 DEF Advances
<1>7. CASE j.old # {}
  <2>1. PICK t \in j.old : Continue(r, "purgeList", [j EXCEPT !.old = @ \ {t}, !.cur = t], FALSE)
    BY <1>7 DEF ReapRS
  <2>2. PICK k : k = [j EXCEPT !.old = @ \ {t}, !.cur = t]
    OBVIOUS
  <2>3. t \in Templates
    BY <1>1
  <2>4. k \in Job /\ k.old = j.old \ {t} /\ k.cur = t /\ k.op = j.op /\ k.by = j.by
    BY <1>1, <2>2, <2>3 DEF Job
  <2>5. pc'[r] = "purgeList" /\ job'[r] = k
    BY <2>1, <2>2, Goes
  <2>6. Shape("purgeList", k)
    BY <1>1, <2>3, <2>4 DEF Shape
  <2>7. Good(pc[r], job[r])' /\ Reaping(pc[r], job[r])'
    BY <1>1, <2>4, <2>5 DEF Good, Reaping
  <2>8. Kept("reapRS", j) => Kept(pc[r], job[r])'
    <3>1. Kept("reapRS", j) => Present' = k.old \cup {k.cur} /\ k.cur \notin k.old
      BY <1>4, <2>4
    <3> QED
      BY <1>1, <2>4, <2>5, <3>1 DEF Kept
  <2> QED
    BY <1>1, <1>3, <1>4, <1>5, <2>4, <2>5, <2>6, <2>7, <2>8 DEF Advances
<1> QED
  BY <1>6, <1>7

\* put of a ReplicaSet by scale, update and patch.
LEMMA ScalePutAdvances ==
  ASSUME TypeOK, Shapes, NEW r \in Requests, ScalePut(r)
  PROVE  Advances(r)
<1> DEFINE j == job[r]
<1>1. /\ pc[r] = "scalePut" /\ j \in Job /\ Shape("scalePut", j) /\ j.op = "scaleRS"
      /\ j.by = "replicaset" /\ j.tmpl \in Templates /\ j.sets[j.tmpl] \in ReplicaSet
      /\ j.replicas \in Int
  BY DEF ScalePut, TypeOK, Shapes, Shape, Job
<1>2. PICK k : k = [j EXCEPT !.sets = NoSets]
  OBVIOUS
<1>3. PICK set : set = [j.sets[j.tmpl] EXCEPT !.replicas = j.replicas]
  OBVIOUS
<1>4. PICK refused \in BOOLEAN :
        /\ replicaSets' = IF refused THEN replicaSets ELSE [replicaSets EXCEPT ![j.tmpl] = set]
        /\ UNCHANGED <<deployment, pods, service, endpoints, slice>>
        /\ Continue(r, IF refused THEN "answer" ELSE EnterReplicaSet(j.op, j.replicas), k, refused)
  BY <1>2, <1>3 DEF ScalePut, MayRefuse
<1>5. PICK l : l = IF refused THEN "answer" ELSE EnterReplicaSet(j.op, j.replicas)
  OBVIOUS
<1>6. /\ l \in {"answer", "podList"} /\ (refused => l = "answer")
      /\ (l = "podList" => j.replicas >= 0) /\ (l = "answer" => refused \/ j.replicas < 0)
  BY <1>1, <1>5 DEF EnterReplicaSet, AfterControllers
<1>7. set \in ReplicaSet /\ set.revision = j.sets[j.tmpl].revision
  BY <1>1, <1>3 DEF ReplicaSet
<1>8. k \in Job /\ k.by = j.by /\ k.tmpl = j.tmpl /\ k.replicas = j.replicas /\ k.op = j.op
  BY <1>1, <1>2, NoJobType DEF Job
<1>9. pc'[r] = l /\ job'[r] = k /\ (clean'[r] => ~refused)
  <2>1. Continue(r, l, k, refused) /\ l # "idle"
    BY <1>4, <1>5, <1>6
  <2> QED
    BY <2>1, Continues
<1>10. Shape(l, k)
  BY <1>1, <1>6, <1>8 DEF Shape
<1>11. clean'[r] => Good(pc[r], job[r])'
  BY <1>1, <1>6, <1>8, <1>9 DEF Good, Done, Ready
<1>12. ~Reaping("scalePut", j) /\ ~Reaping(pc[r], job[r])'
  BY <1>6, <1>9 DEF Reaping
<1>13. Kept("scalePut", j) => j.tmpl \in Present /\ set.revision = replicaSets[j.tmpl].revision
  <2>1. Kept("scalePut", j) => j.sets[j.tmpl] = replicaSets[j.tmpl]
    BY DEF Kept
  <2>2. j.sets[j.tmpl] # NoObject
    BY <1>1 DEF Shape
  <2> QED
    BY <1>1, <1>7, <2>1, <2>2 DEF Present
<1>14. CASE refused
  <2>1. UNCHANGED storeVars
    BY <1>4, <1>14 DEF storeVars
  <2>2. Kept(pc[r], job[r])'
    BY <1>1, <1>6, <1>8, <1>9, <1>14 DEF Kept
  <2> QED
    BY <1>1, <1>8, <1>9, <1>10, <1>11, <1>12, <2>1, <2>2, Reads DEF Advances
<1>15. CASE ~refused
  <2>1. /\ replicaSets' = [replicaSets EXCEPT ![j.tmpl] = set]
        /\ UNCHANGED <<deployment, pods, service, endpoints, slice>>
    BY <1>4, <1>15
  <2>2. /\ StoreOK' /\ Present' = Present \cup {j.tmpl}
        /\ j.tmpl \in Present /\ set.revision = replicaSets[j.tmpl].revision /\ Orderly => Orderly'
        /\ j.tmpl \in Present /\ set.revision = replicaSets[j.tmpl].revision /\ Settled => Settled'
    BY <1>1, <1>7, <2>1, SetIsPut
  <2>3. Kept(pc[r], job[r])'
    <3>1. k.tmpl \in Present'
      BY <1>8, <2>2
    <3> QED
      BY <1>1, <1>6, <1>8, <1>9, <3>1 DEF Kept
  <2> QED
    BY <1>1, <1>8, <1>9, <1>10, <1>11, <1>12, <1>13, <2>2, <2>3 DEF Advances
<1> QED
  BY <1>14, <1>15

\* delete of a pod by a client.
LEMMA PodDeleteAdvances ==
  ASSUME TypeOK, Shapes, NEW r \in Requests, PodDelete(r)
  PROVE  Advances(r)
<1> DEFINE j == job[r]
<1>1. /\ pc[r] = "podDelete" /\ j \in Job /\ Shape("podDelete", j) /\ j.op = "deletePod"
      /\ j.by = "none" /\ j.drop \subseteq Pod
  BY DEF PodDelete, TypeOK, Shapes, Shape, Job
<1>2. PICK p \in j.drop :
        /\ pods' = pods \ {p}
        /\ UNCHANGED <<deployment, replicaSets, service, endpoints, slice>>
        /\ Continue(r, IF p \in pods THEN "respawnRS" ELSE "answer",
                    [j EXCEPT !.drop = {}, !.cur = p.rs], FALSE)
  BY DEF PodDelete
<1>3. PICK k : k = [j EXCEPT !.drop = {}, !.cur = p.rs]
  OBVIOUS
<1>4. PICK l : l = IF p \in pods THEN "respawnRS" ELSE "answer"
  OBVIOUS
<1>5. p.rs \in Templates
  BY <1>1 DEF Pod
<1>6. k \in Job /\ k.op = j.op /\ k.by = j.by /\ k.cur = p.rs
  BY <1>1, <1>3, <1>5 DEF Job
<1>7. pc'[r] = l /\ job'[r] = k /\ l \in {"respawnRS", "answer"}
  BY <1>2, <1>3, <1>4, Goes
<1>8. Shape(l, k)
  BY <1>1, <1>5, <1>6, <1>7 DEF Shape
<1>9. /\ StoreOK' /\ (Orderly => Orderly') /\ (Settled => Settled')
  BY <1>2, PodGoes
<1>10. Good(pc[r], job[r])' /\ Kept(pc[r], job[r])' /\ ~Reaping(pc[r], job[r])'
  BY <1>1, <1>6, <1>7 DEF Good, Done, Kept, Reaping
<1>11. ~Reaping("podDelete", j)
  BY DEF Reaping
<1> QED
  BY <1>1, <1>6, <1>7, <1>8, <1>9, <1>10, <1>11 DEF Advances

\* respawnDeletedPod: the ReplicaSet of the victim.
LEMMA RespawnRSAdvances ==
  ASSUME TypeOK, Shapes, NEW r \in Requests, RespawnRS(r)
  PROVE  Advances(r)
<1> DEFINE j == job[r]
<1>1. /\ pc[r] = "respawnRS" /\ j \in Job /\ Shape("respawnRS", j) /\ j.op = "deletePod"
      /\ j.by = "none" /\ j.cur \in Templates
  BY DEF RespawnRS, TypeOK, Shapes, Shape
<1>2. PICK set : set = replicaSets[j.cur]
  OBVIOUS
<1>3. PICK k : k = [j EXCEPT !.sets = [NoSets EXCEPT ![j.cur] = set]]
  OBVIOUS
<1>4. PICK l : l = IF set = NoObject THEN "answer" ELSE "respawnDeployment"
  OBVIOUS
<1>5. UNCHANGED storeVars /\ Continue(r, l, k, FALSE) /\ l # "idle"
  BY <1>2, <1>3, <1>4 DEF RespawnRS
<1>6. set \in ReplicaSet \cup {NoObject}
  BY <1>1, <1>2 DEF TypeOK
<1>7. k \in Job /\ k.op = j.op /\ k.by = j.by /\ k.cur = j.cur /\ k.sets[k.cur] = set
  BY <1>1, <1>3, <1>6, NoJobType DEF Job
<1>8. pc'[r] = l /\ job'[r] = k
  BY <1>5, Goes
<1>9. Shape(l, k)
  BY <1>1, <1>4, <1>7 DEF Shape
<1>10. Good(pc[r], job[r])' /\ ~Reaping(pc[r], job[r])'
  BY <1>1, <1>4, <1>7, <1>8 DEF Good, Done, Reaping
<1>11. Kept(pc[r], job[r])'
  <2>1. k.sets[k.cur] = replicaSets'[k.cur]
    BY <1>2, <1>5, <1>7, Reads
  <2> QED
    BY <1>1, <1>4, <1>7, <1>8, <2>1 DEF Kept
<1>12. ~Reaping("respawnRS", j)
  BY DEF Reaping
<1> QED
  BY <1>1, <1>5, <1>7, <1>8, <1>9, <1>10, <1>11, <1>12, Reads DEF Advances

\* respawnDeletedPod: the controller of the Deployment or of the ReplicaSet.
LEMMA RespawnDeploymentAdvances ==
  ASSUME TypeOK, Shapes, NEW r \in Requests, RespawnDeployment(r)
  PROVE  Advances(r)
<1> DEFINE j == job[r]
<1>1. /\ pc[r] = "respawnDeployment" /\ j \in Job /\ Shape("respawnDeployment", j)
      /\ j.op = "deletePod" /\ j.by = "none" /\ j.cur \in Templates
      /\ j.sets[j.cur] \in ReplicaSet /\ UNCHANGED storeVars
  BY DEF RespawnDeployment, TypeOK, Shapes, Shape, Job
<1>2. ~Reaping("respawnDeployment", j)
  BY DEF Reaping
<1>3. PICK i : i = [j EXCEPT !.sets = NoSets, !.cur = NoObject]
  OBVIOUS
<1>4. i \in Job /\ i.op = "deletePod" /\ i.by = "none"
  BY <1>1, <1>3, NoJobType DEF Job
<1>5. CASE deployment # NoObject
  <2>1. deployment \in Deployment
    BY <1>5 DEF TypeOK
  <2>2. PICK k : k = [i EXCEPT !.by = "deployment", !.tmpl = deployment.tmpl,
                               !.replicas = deployment.replicas]
    OBVIOUS
  <2>3. PICK l : l = EnterDeployment(i.op, deployment.replicas)
    OBVIOUS
  <2>4. Continue(r, l, k, FALSE)
    BY <1>3, <1>5, <2>2, <2>3 DEF RespawnDeployment
  <2>5. k \in Job /\ k.op = "deletePod" /\ k.by = "deployment" /\ k.tmpl \in Templates
    BY <1>4, <2>1, <2>2 DEF Job, Deployment
  <2>6. k.replicas = deployment.replicas /\ k.replicas \in Int
    BY <1>4, <2>1, <2>2 DEF Job, Deployment
  <2>7. (l = "rsGet" /\ k.replicas >= 0) \/ (l = "answer" /\ k.replicas < 0)
    BY <1>4, <2>3, <2>6 DEF EnterDeployment, AfterControllers
  <2>8. pc'[r] = l /\ job'[r] = k
    BY <2>4, <2>7, Goes
  <2>9. Shape(l, k)
    BY <2>5, <2>7 DEF Shape
  <2>10. Good(pc[r], job[r])' /\ Kept(pc[r], job[r])' /\ ~Reaping(pc[r], job[r])'
    <3>1. deployment' # NoObject
      BY <1>1, <1>5, Reads
    <3> QED
      BY <2>5, <2>6, <2>7, <2>8, <3>1 DEF Good, Done, Kept, Reaping
  <2> QED
    BY <1>1, <1>2, <2>5, <2>8, <2>9, <2>10, Reads DEF Advances
<1>6. CASE deployment = NoObject
  <2>1. PICK set : set = j.sets[j.cur]
    OBVIOUS
  <2>2. PICK k : k = [i EXCEPT !.by = "replicaset", !.tmpl = j.cur, !.replicas = set.replicas]
    OBVIOUS
  <2>3. PICK l : l = EnterReplicaSet(i.op, set.replicas)
    OBVIOUS
  <2>4. Continue(r, l, k, FALSE)
    BY <1>3, <1>6, <2>1, <2>2, <2>3 DEF RespawnDeployment
  <2>5. set \in ReplicaSet /\ set.replicas \in Int
    BY <1>1, <2>1 DEF ReplicaSet
  <2>6. k \in Job /\ k.op = "deletePod" /\ k.by = "replicaset" /\ k.tmpl = j.cur
        /\ k.replicas = set.replicas
    BY <1>1, <1>4, <2>2, <2>5 DEF Job
  <2>7. (l = "podList" /\ k.replicas >= 0) \/ (l = "answer" /\ k.replicas < 0)
    BY <1>4, <2>3, <2>5, <2>6 DEF EnterReplicaSet, AfterControllers
  <2>8. pc'[r] = l /\ job'[r] = k
    BY <2>4, <2>7, Goes
  <2>9. Shape(l, k)
    BY <1>1, <2>6, <2>7 DEF Shape
  <2>10. Good(pc[r], job[r])' /\ ~Reaping(pc[r], job[r])'
    BY <2>5, <2>6, <2>7, <2>8 DEF Good, Ready, Done, Reaping
  <2>11. Kept("respawnDeployment", j) => Kept(pc[r], job[r])'
    <3>1. Kept("respawnDeployment", j) => j.cur \in Present
      <4>1. j.sets[j.cur] # NoObject
        BY <1>1 DEF Shape
      <4> QED
        BY <1>1, <4>1 DEF Kept, Present
    <3>2. Kept("respawnDeployment", j) => k.tmpl \in Present'
      BY <1>1, <2>6, <3>1, Reads
    <3> QED
      BY <2>6, <2>7, <2>8, <3>2 DEF Kept
  <2> QED
    BY <1>1, <1>2, <2>6, <2>8, <2>9, <2>10, <2>11, Reads DEF Advances
<1> QED
  BY <1>5, <1>6

\* The Services of the namespace.
LEMMA ServiceListAdvances ==
  ASSUME TypeOK, Shapes, NEW r \in Requests, ServiceList(r)
  PROVE  Advances(r)
<1> DEFINE j == job[r]
<1>1. pc[r] = "serviceList" /\ j \in Job /\ Shape("serviceList", j)
  BY DEF ServiceList, TypeOK, Shapes
<1>2. PICK l : l = IF service THEN "addressList" ELSE "answer"
  OBVIOUS
<1>3. UNCHANGED storeVars /\ Continue(r, l, j, FALSE) /\ l # "idle"
  BY <1>2 DEF ServiceList
<1>4. pc'[r] = l /\ job'[r] = j
  BY <1>3, Goes
<1>5. (l = "addressList" /\ service) \/ (l = "answer" /\ ~service)
  BY <1>2
<1>6. Shape(l, j)
  BY <1>1, <1>5 DEF Shape
<1>7. Done(j) => Done(job[r])'
  BY <1>3, <1>4, Reads DEF Done, RolledOut
<1>8. Good("serviceList", j) => Good(pc[r], job[r])'
  BY <1>3, <1>4, <1>5, <1>7, Reads DEF Good
<1>9. Kept("serviceList", j) => Kept(pc[r], job[r])'
  BY <1>4, <1>5 DEF Kept
<1>10. ~Reaping("serviceList", j) /\ ~Reaping(pc[r], job[r])'
  BY <1>4, <1>5 DEF Reaping
<1> QED
  BY <1>1, <1>3, <1>4, <1>6, <1>8, <1>9, <1>10, Reads DEF Advances

\* A handler that writes the Endpoints goes on: what its job is about stays true
\* as long as it changes nothing but the Endpoints and the EndpointSlice.
LEMMA AddressingGoesOn ==
  ASSUME TypeOK, NEW r \in Requests, NEW l, NEW m, NEW k \in Job,
         l \in Addressing, m \in (Addressing \ {"addressList"}) \cup {"answer"},
         Shape(l, job[r]), pc'[r] = m, job'[r] = k,
         k.op = job[r].op, k.by = job[r].by, k.tmpl = job[r].tmpl, k.replicas = job[r].replicas,
         UNCHANGED <<deployment, replicaSets, pods, service>>
  PROVE  /\ Shape(pc[r], job[r])' /\ ~Reaping(l, job[r]) /\ ~Reaping(pc[r], job[r])'
         /\ (Orderly => Orderly') /\ (Settled => Settled')
         /\ SelectedPods' = SelectedPods
         /\ Good(l, job[r]) => Done(job[r])' /\ service'
         /\ Kept(l, job[r]) => Kept(pc[r], job[r])'
<1> DEFINE j == job[r]
<1>1. Present' = Present /\ SelectedPods' = SelectedPods /\ \A t : PodsOf(t)' = PodsOf(t)
  BY DEF Present, SelectedPods, PodsOf
<1>2. (Orderly => Orderly') /\ (Settled => Settled')
  BY <1>1 DEF Orderly, Settled
<1>3. Done(j) => Done(job[r])'
  BY <1>1 DEF Done, RolledOut
<1>4. Good(l, j) => Done(job[r])' /\ service'
  BY <1>3 DEF Good
<1>5. Shape(pc[r], job[r])'
  BY DEF Shape
<1>6. Kept(l, j) => Kept(pc[r], job[r])'
  BY DEF Kept, Shape
<1>7. ~Reaping(l, j) /\ ~Reaping(pc[r], job[r])'
  BY DEF Reaping
<1> QED
  BY <1>1, <1>2, <1>4, <1>5, <1>6, <1>7

\* The pods the selector matches.
LEMMA AddressListAdvances ==
  ASSUME TypeOK, Shapes, NEW r \in Requests, AddressList(r)
  PROVE  Advances(r)
<1> DEFINE j == job[r]
<1>1. pc[r] = "addressList" /\ j \in Job /\ Shape("addressList", j)
  BY DEF AddressList, TypeOK, Shapes
<1>2. PICK k : k = [j EXCEPT !.addresses = Addresses]
  OBVIOUS
<1>3. UNCHANGED storeVars /\ Continue(r, "endpointsGet", k, FALSE)
  BY <1>2 DEF AddressList
<1>4. Addresses \subseteq Pod
  BY DEF Addresses, TypeOK
<1>5. /\ k \in Job /\ k.addresses = Addresses /\ k.op = j.op /\ k.by = j.by /\ k.tmpl = j.tmpl
      /\ k.replicas = j.replicas
  BY <1>1, <1>2, <1>4 DEF Job
<1>6. pc'[r] = "endpointsGet" /\ job'[r] = k
  BY <1>3, Goes
<1>7. /\ Shape(pc[r], job[r])' /\ ~Reaping("addressList", j) /\ ~Reaping(pc[r], job[r])'
      /\ (Orderly => Orderly') /\ (Settled => Settled')
      /\ SelectedPods' = SelectedPods
      /\ Good("addressList", j) => Done(job[r])' /\ service'
      /\ Kept("addressList", j) => Kept(pc[r], job[r])'
  <2>1. UNCHANGED <<deployment, replicaSets, pods, service>>
    BY <1>3 DEF storeVars
  <2> QED
    BY <1>1, <1>5, <1>6, <2>1, AddressingGoesOn
<1>8. PodsFit => k.addresses = SelectedPods'
  BY <1>5, <1>7, AllOnPage
<1>9. PodsFit /\ Good("addressList", j) => Good(pc[r], job[r])'
  BY <1>6, <1>7, <1>8 DEF Good
<1> QED
  BY <1>1, <1>3, <1>5, <1>6, <1>7, <1>9, Reads DEF Advances, OnOnePage

\* get of the Endpoints.
LEMMA EndpointsGetAdvances ==
  ASSUME TypeOK, Shapes, NEW r \in Requests, EndpointsGet(r)
  PROVE  Advances(r)
<1> DEFINE j == job[r]
<1>1. pc[r] = "endpointsGet" /\ j \in Job /\ Shape("endpointsGet", j)
  BY DEF EndpointsGet, TypeOK, Shapes
<1>2. PICK k : k = [j EXCEPT !.found = (endpoints # NoObject)]
  OBVIOUS
<1>3. UNCHANGED storeVars /\ Continue(r, "endpointsPut", k, FALSE)
  BY <1>2 DEF EndpointsGet
<1>4. /\ k \in Job /\ k.found = (endpoints # NoObject) /\ k.addresses = j.addresses
      /\ k.op = j.op /\ k.by = j.by /\ k.tmpl = j.tmpl /\ k.replicas = j.replicas
  BY <1>1, <1>2 DEF Job
<1>5. pc'[r] = "endpointsPut" /\ job'[r] = k
  BY <1>3, Goes
<1>6. /\ Shape(pc[r], job[r])' /\ ~Reaping("endpointsGet", j) /\ ~Reaping(pc[r], job[r])'
      /\ (Orderly => Orderly') /\ (Settled => Settled')
      /\ SelectedPods' = SelectedPods
      /\ Good("endpointsGet", j) => Done(job[r])' /\ service'
      /\ Kept("endpointsGet", j) => Kept(pc[r], job[r])'
  <2>1. UNCHANGED <<deployment, replicaSets, pods, service>>
    BY <1>3 DEF storeVars
  <2> QED
    BY <1>1, <1>4, <1>5, <2>1, AddressingGoesOn
<1>7. Good("endpointsGet", j) => k.addresses = SelectedPods' /\ k.found = (endpoints' # NoObject)
  <2>1. Good("endpointsGet", j) => j.addresses = SelectedPods
    BY DEF Good
  <2> QED
    BY <1>3, <1>4, <1>6, <2>1, Reads
<1>8. Good("endpointsGet", j) => Good(pc[r], job[r])'
  BY <1>5, <1>6, <1>7 DEF Good
<1> QED
  BY <1>1, <1>3, <1>4, <1>5, <1>6, <1>8, Reads DEF Advances

\* put of the Endpoints.
LEMMA EndpointsPutAdvances ==
  ASSUME TypeOK, Shapes, NEW r \in Requests, EndpointsPut(r)
  PROVE  Advances(r)
<1> DEFINE j == job[r]
<1>1. /\ pc[r] = "endpointsPut" /\ j \in Job /\ Shape("endpointsPut", j)
      /\ j.addresses \subseteq Pod
  BY DEF EndpointsPut, TypeOK, Shapes, Job
<1>2. PICK k : k = [j EXCEPT !.found = FALSE]
  OBVIOUS
<1>3. PICK refused \in BOOLEAN :
        /\ endpoints' = IF refused \/ (~j.found /\ endpoints # NoObject) THEN endpoints
                        ELSE [addresses |-> j.addresses]
        /\ UNCHANGED <<deployment, replicaSets, pods, service, slice>>
        /\ Continue(r, "sliceGet", k, refused)
  BY <1>2 DEF EndpointsPut, MayRefuse
<1>4. /\ k \in Job /\ k.addresses = j.addresses
      /\ k.op = j.op /\ k.by = j.by /\ k.tmpl = j.tmpl /\ k.replicas = j.replicas
  BY <1>1, <1>2 DEF Job
<1>5. pc'[r] = "sliceGet" /\ job'[r] = k /\ (clean'[r] => ~refused)
  BY <1>3, Continues
<1>6. StoreOK'
  BY <1>1, <1>3 DEF StoreOK, TypeOK, Endpoints
<1>7. /\ Shape(pc[r], job[r])' /\ ~Reaping("endpointsPut", j) /\ ~Reaping(pc[r], job[r])'
      /\ (Orderly => Orderly') /\ (Settled => Settled')
      /\ SelectedPods' = SelectedPods
      /\ Good("endpointsPut", j) => Done(job[r])' /\ service'
      /\ Kept("endpointsPut", j) => Kept(pc[r], job[r])'
  <2>1. UNCHANGED <<deployment, replicaSets, pods, service>>
    BY <1>3
  <2> QED
    BY <1>1, <1>4, <1>5, <2>1, AddressingGoesOn
<1>8. Good("endpointsPut", j) /\ clean'[r] =>
        k.addresses = SelectedPods' /\ endpoints' = [addresses |-> SelectedPods']
  <2>1. Good("endpointsPut", j) => j.addresses = SelectedPods /\ j.found = (endpoints # NoObject)
    BY DEF Good
  <2> QED
    BY <1>3, <1>4, <1>5, <1>7, <2>1
<1>9. Good("endpointsPut", j) /\ clean'[r] => Good(pc[r], job[r])'
  BY <1>5, <1>7, <1>8 DEF Good
<1> QED
  BY <1>1, <1>4, <1>5, <1>6, <1>7, <1>9 DEF Advances

\* get of the EndpointSlice.
LEMMA SliceGetAdvances ==
  ASSUME TypeOK, Shapes, NEW r \in Requests, SliceGet(r)
  PROVE  Advances(r)
<1> DEFINE j == job[r]
<1>1. pc[r] = "sliceGet" /\ j \in Job /\ Shape("sliceGet", j)
  BY DEF SliceGet, TypeOK, Shapes
<1>2. PICK k : k = [j EXCEPT !.found = (slice # NoObject)]
  OBVIOUS
<1>3. UNCHANGED storeVars /\ Continue(r, "slicePut", k, FALSE)
  BY <1>2 DEF SliceGet
<1>4. /\ k \in Job /\ k.found = (slice # NoObject) /\ k.addresses = j.addresses
      /\ k.op = j.op /\ k.by = j.by /\ k.tmpl = j.tmpl /\ k.replicas = j.replicas
  BY <1>1, <1>2 DEF Job
<1>5. pc'[r] = "slicePut" /\ job'[r] = k
  BY <1>3, Goes
<1>6. /\ Shape(pc[r], job[r])' /\ ~Reaping("sliceGet", j) /\ ~Reaping(pc[r], job[r])'
      /\ (Orderly => Orderly') /\ (Settled => Settled')
      /\ SelectedPods' = SelectedPods
      /\ Good("sliceGet", j) => Done(job[r])' /\ service'
      /\ Kept("sliceGet", j) => Kept(pc[r], job[r])'
  <2>1. UNCHANGED <<deployment, replicaSets, pods, service>>
    BY <1>3 DEF storeVars
  <2> QED
    BY <1>1, <1>4, <1>5, <2>1, AddressingGoesOn
<1>7. Good("sliceGet", j) =>
        /\ k.addresses = SelectedPods' /\ k.found = (slice' # NoObject)
        /\ endpoints' = [addresses |-> SelectedPods']
  <2>1. Good("sliceGet", j) => j.addresses = SelectedPods /\ endpoints = [addresses |-> SelectedPods]
    BY DEF Good
  <2> QED
    BY <1>3, <1>4, <1>6, <2>1, Reads
<1>8. Good("sliceGet", j) => Good(pc[r], job[r])'
  BY <1>5, <1>6, <1>7 DEF Good
<1> QED
  BY <1>1, <1>3, <1>4, <1>5, <1>6, <1>8, Reads DEF Advances

\* put of the EndpointSlice.
LEMMA SlicePutAdvances ==
  ASSUME TypeOK, Shapes, NEW r \in Requests, SlicePut(r)
  PROVE  Advances(r)
<1> DEFINE j == job[r]
<1>1. /\ pc[r] = "slicePut" /\ j \in Job /\ Shape("slicePut", j)
      /\ j.addresses \subseteq Pod
  BY DEF SlicePut, TypeOK, Shapes, Job
<1>2. PICK k : k = [j EXCEPT !.found = FALSE, !.addresses = {}]
  OBVIOUS
<1>3. PICK refused \in BOOLEAN :
        /\ slice' = IF refused \/ (~j.found /\ slice # NoObject) THEN slice
                    ELSE [addresses |-> j.addresses]
        /\ UNCHANGED <<deployment, replicaSets, pods, service, endpoints>>
        /\ Continue(r, "answer", k, refused)
  BY <1>2 DEF SlicePut, MayRefuse
<1>4. k \in Job /\ k.op = j.op /\ k.by = j.by /\ k.tmpl = j.tmpl /\ k.replicas = j.replicas
  BY <1>1, <1>2 DEF Job
<1>5. pc'[r] = "answer" /\ job'[r] = k /\ (clean'[r] => ~refused)
  BY <1>3, Continues
<1>6. StoreOK'
  BY <1>1, <1>3 DEF StoreOK, TypeOK, Endpoints
<1>7. /\ Shape(pc[r], job[r])' /\ ~Reaping("slicePut", j) /\ ~Reaping(pc[r], job[r])'
      /\ (Orderly => Orderly') /\ (Settled => Settled')
      /\ SelectedPods' = SelectedPods
      /\ Good("slicePut", j) => Done(job[r])' /\ service'
      /\ Kept("slicePut", j) => Kept(pc[r], job[r])'
  <2>1. UNCHANGED <<deployment, replicaSets, pods, service>>
    BY <1>3
  <2> QED
    BY <1>1, <1>4, <1>5, <2>1, AddressingGoesOn
<1>8. Good("slicePut", j) /\ clean'[r] =>
        endpoints' = [addresses |-> SelectedPods'] /\ slice' = endpoints'
  <2>1. Good("slicePut", j) =>
          /\ j.addresses = SelectedPods /\ j.found = (slice # NoObject)
          /\ endpoints = [addresses |-> SelectedPods]
    BY DEF Good
  <2> QED
    BY <1>3, <1>4, <1>5, <1>7, <2>1
<1>9. Good("slicePut", j) /\ clean'[r] => Good(pc[r], job[r])'
  BY <1>5, <1>7, <1>8 DEF Good
<1> QED
  BY <1>1, <1>4, <1>5, <1>6, <1>7, <1>9 DEF Advances

\* The client is answered.
LEMMA AnswerAdvances ==
  ASSUME TypeOK, Shapes, NEW r \in Requests, Answer(r)
  PROVE  Advances(r)
<1>1. pc[r] = "answer" /\ UNCHANGED storeVars /\ Continue(r, "idle", NoJob, FALSE)
  BY DEF Answer
<1>2. pc'[r] = "idle" /\ job'[r] = NoJob
  BY <1>1, Continues
<1>3. /\ Shape(pc[r], job[r])' /\ Good(pc[r], job[r])' /\ Kept(pc[r], job[r])'
      /\ ~Reaping(pc[r], job[r])' /\ ~Reaping("answer", job[r])
  BY <1>2 DEF Shape, Good, Kept, Reaping
<1> QED
  BY <1>1, <1>2, <1>3, NoJobType, Reads DEF Advances

----------------------------------------------------------------------------
(* A step of one handler and all the others.                               *)

\* What a handler's step leaves of the handlers.
Moves(r) ==
    /\ ~Idle(r)
    /\ pc' \in [Requests -> Labels] /\ DOMAIN job' = Requests
    /\ clean' \in [Requests -> BOOLEAN] /\ refusals' \in 0..MaxRefusals
    /\ calm' = calm /\ issued' = issued
    /\ \E j : job' = [job EXCEPT ![r] = j]
    /\ clean'[r] => clean[r] \/ pc'[r] = "idle"
    /\ \A s \in Requests \ {r} :
         /\ pc'[s] = pc[s] /\ job'[s] = job[s]
         /\ clean'[s] => clean[s] /\ (Idle(s) \/ storeVars' = storeVars)

\* Continue moves the handler it is told to.
LEMMA ContinueMoves ==
  ASSUME TypeOK, NEW r \in Requests, ~Idle(r), NEW l \in Labels, NEW j,
         NEW refused \in BOOLEAN, refused \in MayRefuse, Continue(r, l, j, refused)
  PROVE  Moves(r)
<1>1. pc' \in [Requests -> Labels]
  BY DEF Continue, TypeOK
<1>2. DOMAIN job' = Requests /\ \E k : job' = [job EXCEPT ![r] = k]
  BY DEF Continue, TypeOK
<1>3. clean' \in [Requests -> BOOLEAN]
  <2>1. clean' = [s \in Requests |->
                   IF s = r THEN l = "idle" \/ (clean[s] /\ ~refused)
                   ELSE clean[s] /\ (Idle(s) \/ storeVars' = storeVars)]
    BY DEF Continue
  <2>2. \A s \in Requests : clean[s] \in BOOLEAN
    BY DEF TypeOK
  <2>3. \A s \in Requests : (IF s = r THEN l = "idle" \/ (clean[s] /\ ~refused)
                   ELSE clean[s] /\ (Idle(s) \/ storeVars' = storeVars)) \in BOOLEAN
    BY <2>2
  <2> QED
    BY <2>1, <2>3
<1>4. refusals' \in 0..MaxRefusals
  <2>1. refused => refusals < MaxRefusals
    BY DEF MayRefuse
  <2>2. refusals \in Nat /\ refusals <= MaxRefusals /\ MaxRefusals \in Nat
    BY WorkloadConstants DEF TypeOK
  <2>3. refusals' = IF refused THEN refusals + 1 ELSE refusals
    BY DEF Continue
  <2> QED
    BY <2>1, <2>2, <2>3
<1>5. calm' = calm /\ issued' = issued
  BY DEF Continue
<1>6. clean'[r] => clean[r] \/ pc'[r] = "idle"
  BY DEF Continue, TypeOK
<1>7. \A s \in Requests \ {r} :
         /\ pc'[s] = pc[s] /\ job'[s] = job[s]
         /\ clean'[s] => clean[s] /\ (Idle(s) \/ storeVars' = storeVars)
  BY DEF Continue, TypeOK
<1> QED
  BY <1>1, <1>2, <1>3, <1>4, <1>5, <1>6, <1>7 DEF Moves

\* Where the request goes is a label.
LEMMA NextLabels ==
  ASSUME NEW j, NEW op, NEW n
  PROVE  /\ PodStage(j) \in Labels /\ AfterPurge(j) \in Labels /\ AfterControllers(op) \in Labels
         /\ EnterDeployment(op, n) \in Labels /\ EnterReplicaSet(op, n) \in Labels
<1>1. AfterControllers(op) \in Labels /\ AfterControllers(j.op) \in Labels
  BY DEF AfterControllers, Labels
<1>2. PodStage(j) \in Labels
  BY <1>1 DEF PodStage, AfterPods, Labels
<1>3. AfterPurge(j) \in Labels
  BY DEF AfterPurge, Labels
<1>4. EnterDeployment(op, n) \in Labels /\ EnterReplicaSet(op, n) \in Labels
  BY <1>1 DEF EnterDeployment, EnterReplicaSet, Labels
<1> QED
  BY <1>1, <1>2, <1>3, <1>4

\* Every step of a handler does.
LEMMA StepMoves ==
  ASSUME TypeOK, NEW r \in Requests, Step(r)
  PROVE  Moves(r)
<1>1. ~Idle(r)
  BY DEF Step, Idle, DeploymentPut, RsGet, RsList, RsAdd, RsPut, PodList, PodDrop, PodAdd, Emit,
         OldList, OldPut, PurgeList, PurgeDrop, StatusGet, StatusPut, ReapList, ReapRS, ScalePut, PodDelete,
         RespawnRS, RespawnDeployment, ServiceList, AddressList, EndpointsGet, EndpointsPut,
         SliceGet, SlicePut, Answer
<1>2. FALSE \in MayRefuse /\ MayRefuse \subseteq BOOLEAN
  BY DEF MayRefuse
<1>3. \A l \in Labels, refused \in MayRefuse : \A j : Continue(r, l, j, refused) => Moves(r)
  BY <1>1, <1>2, ContinueMoves
<1>4. {"idle", "answer", "emit", "outOfMemory", "rsList", "rsAdd", "rsPut", "podList", "oldPut",
       "purgeList", "purgeDrop",
       "statusGet", "statusPut", "respawnRS", "respawnDeployment", "addressList", "endpointsGet",
       "endpointsPut", "sliceGet", "slicePut"} \subseteq Labels
  BY DEF Labels
<1>5. CASE DeploymentPut(r)
  BY <1>3, <1>4, <1>5, NextLabels, Zenon DEF DeploymentPut
<1>6. CASE RsGet(r)
  BY <1>2, <1>3, <1>4, <1>6, Zenon DEF RsGet
<1>7. CASE RsList(r)
  BY <1>2, <1>3, <1>4, <1>7, Zenon DEF RsList
<1>8. CASE RsAdd(r)
  BY <1>3, <1>4, <1>8, NextLabels, Zenon DEF RsAdd
<1>9. CASE RsPut(r)
  BY <1>3, <1>4, <1>9, Zenon DEF RsPut
<1>10. CASE PodList(r)
  BY <1>2, <1>3, <1>10, NextLabels, Zenon DEF PodList
<1>11. CASE PodDrop(r)
  BY <1>2, <1>3, <1>11, NextLabels, Zenon DEF PodDrop
<1>12. CASE PodAdd(r)
  BY <1>3, <1>12, NextLabels, Zenon DEF PodAdd
<1>13. CASE OldList(r)
  BY <1>2, <1>3, <1>4, <1>13, Zenon DEF OldList
<1>25. CASE Emit(r)
  BY <1>2, <1>3, <1>4, <1>25, NextLabels, Zenon DEF Emit
<1>14. CASE OldPut(r)
  BY <1>2, <1>3, <1>4, <1>14, Zenon DEF OldPut
<1>15. CASE PurgeList(r)
  BY <1>2, <1>3, <1>4, <1>15, NextLabels, Zenon DEF PurgeList
<1>16. CASE PurgeDrop(r)
  BY <1>2, <1>3, <1>4, <1>16, NextLabels, Zenon DEF PurgeDrop
<1>17. CASE StatusGet(r)
  BY <1>2, <1>3, <1>4, <1>17, NextLabels, Zenon DEF StatusGet
<1>18. CASE StatusPut(r)
  BY <1>3, <1>18, NextLabels, Zenon DEF StatusPut
<1>19. CASE ReapList(r) \/ ReapRS(r)
  BY <1>2, <1>3, <1>4, <1>19, Zenon DEF ReapList, ReapRS
<1>20. CASE ScalePut(r)
  BY <1>3, <1>4, <1>20, NextLabels, Zenon DEF ScalePut
<1>21. CASE PodDelete(r) \/ RespawnRS(r)
  BY <1>2, <1>3, <1>4, <1>21, Zenon DEF PodDelete, RespawnRS
<1>22. CASE RespawnDeployment(r)
  BY <1>2, <1>3, <1>22, NextLabels, Zenon DEF RespawnDeployment
<1>23. CASE ServiceList(r) \/ AddressList(r) \/ EndpointsGet(r) \/ SliceGet(r) \/ Answer(r)
  BY <1>2, <1>3, <1>4, <1>23, Zenon DEF ServiceList, AddressList, EndpointsGet, SliceGet, Answer
<1>24. CASE EndpointsPut(r) \/ SlicePut(r)
  BY <1>3, <1>4, <1>24, Zenon DEF EndpointsPut, SlicePut
<1> QED
  BY <1>5, <1>6, <1>7, <1>8, <1>9, <1>10, <1>11, <1>12, <1>13, <1>14, <1>15, <1>16, <1>17, <1>18,
     <1>19, <1>20, <1>21, <1>22, <1>23, <1>24, <1>25 DEF Step

\* Every step of a handler keeps what the handler relies on.
LEMMA StepAdvances ==
  ASSUME TypeOK, Shapes, NEW r \in Requests, Step(r)
  PROVE  Advances(r)
  BY DeploymentPutAdvances, RsGetAdvances, RsListAdvances, RsAddAdvances, RsPutAdvances,
     PodListAdvances, PodDropAdvances, PodAddAdvances, EmitAdvances, OldListAdvances, OldPutAdvances,
     PurgeListAdvances, PurgeDropAdvances, StatusGetAdvances, StatusPutAdvances,
     ReapListAdvances, ReapRSAdvances, ScalePutAdvances, PodDeleteAdvances, RespawnRSAdvances,
     RespawnDeploymentAdvances, ServiceListAdvances, AddressListAdvances, EndpointsGetAdvances,
     EndpointsPutAdvances, SliceGetAdvances, SlicePutAdvances, AnswerAdvances DEF Step

\* What a handler relies on stays true as long as the store does.
LEMMA GoodStays ==
  ASSUME NEW s \in Requests, pc'[s] = pc[s], job'[s] = job[s], storeVars' = storeVars, TypeOK,
         Good(pc[s], job[s])
  PROVE  Good(pc[s], job[s])'
<1>1. /\ deployment' = deployment /\ replicaSets' = replicaSets /\ pods' = pods
      /\ service' = service /\ endpoints' = endpoints /\ slice' = slice
      /\ Present' = Present /\ SelectedPods' = SelectedPods /\ \A t : PodsOf(t)' = PodsOf(t)
  BY Reads
<1>2. \A j : /\ Ready(j)' <=> Ready(j)
             /\ Done(j)' <=> Done(j)
             /\ \A S : Retired(j, S)' <=> Retired(j, S)
  BY <1>1 DEF Ready, Done, RolledOut, Retired
<1>3. \A l, j : Good(l, j) <=> Good(l, j)'
  BY <1>1, <1>2 DEF Good
<1> QED
  BY <1>3

\* A handler at rest relies on nothing.
LEMMA AtRest ==
  ASSUME NEW j
  PROVE  /\ Shape("idle", j) /\ Good("idle", j) /\ Kept("idle", j) /\ Known("idle", j)
         /\ ~Reaping("idle", j) /\ Good("idle", j)' /\ Kept("idle", j)' /\ Known("idle", j)'
  BY DEF Shape, Good, Kept, Known, Reaping

\* A step of r after which no pod has lost its ReplicaSet, and r is not about to
\* rely on what it knows of them.
Spares(r) ==
    /\ pods' \subseteq pods /\ Present \subseteq Present'
    /\ pc'[r] \notin {"purgeDrop", "reapRS"}

\* Such a step keeps every pod owned.
LEMMA SparesOwned ==
  ASSUME NEW r \in Requests, Spares(r), Owned
  PROVE  Owned' /\ Known(pc[r], job[r])'
  BY DEF Spares, Owned, Known

\* A put of a ReplicaSet takes none away.
LEMMA PutSpares ==
  ASSUME TypeOK, NEW t \in Templates, NEW set \in ReplicaSet,
         replicaSets' = [replicaSets EXCEPT ![t] = set]
  PROVE  Present \subseteq Present'
  BY WorkloadConstants DEF Present, TypeOK

\* All steps but four do.
LEMMA MostStepsSpare ==
  ASSUME TypeOK, Shapes, NEW r \in Requests, Step(r),
         ~PurgeList(r), ~PurgeDrop(r), ~PodAdd(r), ~ReapRS(r)
  PROVE  Spares(r)
<1> DEFINE L == Labels \ {"purgeDrop", "reapRS"}
<1>1. ASSUME NEW l \in L, NEW j, NEW refused, Continue(r, l, j, refused)
      PROVE  pc'[r] \notin {"purgeDrop", "reapRS"}
  BY <1>1 DEF Continue, TypeOK
<1>2. \A j, op, n : /\ PodStage(j) \in L /\ AfterControllers(op) \in L
                    /\ EnterDeployment(op, n) \in L /\ EnterReplicaSet(op, n) \in L
  BY DEF PodStage, AfterPods, AfterControllers, EnterDeployment, EnterReplicaSet, Labels
<1>3. {"idle", "answer", "emit", "outOfMemory", "rsList", "rsAdd", "rsPut", "podList", "oldPut",
       "purgeList",
       "statusGet", "statusPut", "respawnRS", "respawnDeployment", "addressList", "endpointsGet",
       "endpointsPut", "sliceGet", "slicePut"} \subseteq L
  BY DEF Labels
<1> HIDE DEF L
<1>4. pc'[r] \notin {"purgeDrop", "reapRS"}
  <2>1. CASE DeploymentPut(r)
    BY <1>1, <1>2, <1>3, <2>1, Zenon DEF DeploymentPut
  <2>2. CASE RsGet(r) \/ RsList(r) \/ RsPut(r)
    BY <1>1, <1>3, <2>2, Zenon DEF RsGet, RsList, RsPut
  <2>3. CASE RsAdd(r)
    BY <1>1, <1>2, <1>3, <2>3, Zenon DEF RsAdd
  <2>4. CASE PodList(r) \/ PodDrop(r)
    BY <1>1, <1>2, <2>4, Zenon DEF PodList, PodDrop
  <2>5. CASE OldList(r) \/ OldPut(r) \/ ReapList(r)
    BY <1>1, <1>3, <2>5, Zenon DEF OldList, OldPut, ReapList
  <2>6. CASE StatusGet(r) \/ StatusPut(r)
    BY <1>1, <1>2, <1>3, <2>6, Zenon DEF StatusGet, StatusPut
  <2>7. CASE ScalePut(r)
    BY <1>1, <1>2, <1>3, <2>7, Zenon DEF ScalePut
  <2>8. CASE PodDelete(r) \/ RespawnRS(r)
    BY <1>1, <1>3, <2>8, Zenon DEF PodDelete, RespawnRS
  <2>9. CASE RespawnDeployment(r)
    BY <1>1, <1>2, <2>9, Zenon DEF RespawnDeployment
  <2>10. CASE \/ ServiceList(r) \/ AddressList(r) \/ EndpointsGet(r) \/ EndpointsPut(r)
              \/ SliceGet(r) \/ SlicePut(r) \/ Answer(r)
    BY <1>1, <1>3, <2>10, Zenon DEF ServiceList, AddressList, EndpointsGet, EndpointsPut, SliceGet,
       SlicePut, Answer
  <2>11. CASE Emit(r)
    BY <1>1, <1>2, <1>3, <2>11, Zenon DEF Emit
  <2> QED
    BY <2>1, <2>2, <2>3, <2>4, <2>5, <2>6, <2>7, <2>8, <2>9, <2>10, <2>11 DEF Step
<1>5. pods' \subseteq pods
  BY DEF Step, DeploymentPut, RsGet, RsList, RsAdd, RsPut, PodList, PodDrop, Emit, OldList,
         OldPut, StatusGet, StatusPut, ReapList, ScalePut, PodDelete, RespawnRS, RespawnDeployment,
         ServiceList, AddressList, EndpointsGet, EndpointsPut, SliceGet, SlicePut, Answer, storeVars
<1>6. Present \subseteq Present'
  <2>1. job[r] \in Job /\ Shape(pc[r], job[r])
    BY DEF TypeOK, Shapes
  <2>2. CASE RsAdd(r)
    <3>1. PICK set : set = [replicas |-> Desired(job[r].replicas), revision |-> job[r].revision]
      OBVIOUS
    <3>2. /\ job[r].tmpl \in Templates /\ job[r].replicas \in Int /\ job[r].revision \in Nat
      BY <2>1, <2>2 DEF RsAdd, Shape, Job
    <3>3. set \in ReplicaSet
      BY <3>1, <3>2, WorkloadConstants DEF ReplicaSet, Desired
    <3>4. replicaSets' = replicaSets \/ replicaSets' = [replicaSets EXCEPT ![job[r].tmpl] = set]
      BY <2>2, <3>1 DEF RsAdd
    <3> QED
      BY <3>2, <3>3, <3>4, PutSpares DEF Present
  <2>3. CASE RsPut(r)
    <3>1. PICK set : set = [job[r].sets[job[r].tmpl] EXCEPT !.replicas = Desired(job[r].replicas)]
      OBVIOUS
    <3>2. /\ job[r].tmpl \in Templates /\ job[r].replicas \in Int
          /\ job[r].sets[job[r].tmpl] \in ReplicaSet
      BY <2>1, <2>3 DEF RsPut, Shape, Job
    <3>3. set \in ReplicaSet
      BY <3>1, <3>2, WorkloadConstants DEF ReplicaSet, Desired
    <3>4. replicaSets' = replicaSets \/ replicaSets' = [replicaSets EXCEPT ![job[r].tmpl] = set]
      BY <2>3, <3>1 DEF RsPut
    <3> QED
      BY <3>2, <3>3, <3>4, PutSpares DEF Present
  <2>4. CASE ScalePut(r)
    <3>1. PICK set : set = [job[r].sets[job[r].tmpl] EXCEPT !.replicas = job[r].replicas]
      OBVIOUS
    <3>2. /\ job[r].tmpl \in Templates /\ job[r].replicas \in Int
          /\ job[r].sets[job[r].tmpl] \in ReplicaSet
      BY <2>1, <2>4 DEF ScalePut, Shape, Job
    <3>3. set \in ReplicaSet
      BY <3>1, <3>2 DEF ReplicaSet
    <3>4. replicaSets' = replicaSets \/ replicaSets' = [replicaSets EXCEPT ![job[r].tmpl] = set]
      BY <2>4, <3>1 DEF ScalePut
    <3> QED
      BY <3>2, <3>3, <3>4, PutSpares DEF Present
  <2>5. CASE OldPut(r)
    <3>1. PICK t \in job[r].old :
            \/ replicaSets' = replicaSets
            \/ replicaSets' = [replicaSets EXCEPT ![t] = [job[r].sets[t] EXCEPT !.replicas = 0]]
      BY <2>5 DEF OldPut
    <3>2. PICK set : set = [job[r].sets[t] EXCEPT !.replicas = 0]
      OBVIOUS
    <3>3. t \in Templates /\ job[r].sets[t] \in ReplicaSet
      BY <2>1, <2>5 DEF OldPut, Shape, Job
    <3>4. set \in ReplicaSet
      BY <3>2, <3>3 DEF ReplicaSet
    <3> QED
      BY <3>1, <3>2, <3>3, <3>4, PutSpares DEF Present
  <2>6. CASE ~RsAdd(r) /\ ~RsPut(r) /\ ~ScalePut(r) /\ ~OldPut(r)
    <3>1. replicaSets' = replicaSets
      BY <2>6 DEF Step, DeploymentPut, RsGet, RsList, PodList, PodDrop, Emit, OldList, StatusGet,
         StatusPut, ReapList, PodDelete, RespawnRS, RespawnDeployment, ServiceList, AddressList,
         EndpointsGet, EndpointsPut, SliceGet, SlicePut, Answer, storeVars
    <3> QED
      BY <3>1 DEF Present
  <2> QED
    BY <2>2, <2>3, <2>4, <2>5, <2>6
<1> QED
  BY <1>4, <1>5, <1>6 DEF Spares

\* A handler that has deleted the pods of j.cur that it found.
LEMMA PurgedOfAll ==
  ASSUME TypeOK, NEW r \in Requests, NEW j \in Job, j.op = "delete" => PodsOf(j.cur)' = {},
         Continue(r, AfterPurge(j), Purged(j), FALSE)
  PROVE  Known(pc[r], job[r])'
<1>1. PICK l : l = AfterPurge(j)
  OBVIOUS
<1>2. PICK k : k = Purged(j)
  OBVIOUS
<1>3. l \in {"reapRS", "answer", "oldPut", "statusGet"} /\ (l = "reapRS" => j.op = "delete")
  BY <1>1 DEF AfterPurge
<1>4. j.op = "delete" => k = j
  BY <1>2 DEF Purged
<1>5. pc'[r] = l /\ job'[r] = k
  <2>1. Continue(r, l, k, FALSE) /\ l # "idle"
    BY <1>1, <1>2, <1>3
  <2> QED
    BY <2>1, Goes
<1> QED
  BY <1>3, <1>4, <1>5 DEF Known

\* One request at a time, a step leaves no pod without its ReplicaSet.
LEMMA StepOwned ==
  ASSUME TypeOK, Shapes, OnOnePage, NEW r \in Requests, Step(r), Kept(pc[r], job[r]), Owned,
         Known(pc[r], job[r])
  PROVE  Owned' /\ Known(pc[r], job[r])'
<1> DEFINE j == job[r]
<1>1. j \in Job /\ Shape(pc[r], j)
  BY DEF TypeOK, Shapes
<1>2. CASE PurgeList(r)
  <2>1. PICK k : k = [j EXCEPT !.drop = OwnedPods(j.cur)]
    OBVIOUS
  <2>2. /\ UNCHANGED storeVars
        /\ k.drop = {} => Continue(r, AfterPurge(k), Purged(k), FALSE)
        /\ k.drop # {} => Continue(r, "purgeDrop", k, FALSE)
    BY <1>2, <2>1, Zenon DEF PurgeList
  <2>3. OwnedPods(j.cur) \subseteq Pod
    BY DEF OwnedPods, PodsOf, TypeOK
  <2>4. k \in Job /\ k.drop = OwnedPods(j.cur) /\ k.op = j.op /\ k.cur = j.cur
    BY <1>1, <2>1, <2>3 DEF Job
  <2>5. k.drop = PodsOf(k.cur) /\ PodsOf(k.cur)' = PodsOf(k.cur) /\ Owned'
    BY <2>2, <2>4, AllOnPage, Reads DEF Owned, OnOnePage
  <2>6. CASE k.drop = {}
    BY <2>2, <2>4, <2>5, <2>6, PurgedOfAll
  <2>7. CASE k.drop # {}
    <3>1. pc'[r] = "purgeDrop" /\ job'[r] = k
      BY <2>2, <2>7, Goes
    <3> QED
      BY <2>5, <3>1 DEF Known
  <2> QED
    BY <2>5, <2>6, <2>7
<1>3. CASE PurgeDrop(r)
  <2>1. PICK p \in j.drop :
        LET k == [j EXCEPT !.drop = @ \ {p}] IN
         /\ pods' = pods \ {p}
         /\ UNCHANGED <<deployment, replicaSets, service, endpoints, slice>>
         /\ IF k.drop = {} THEN Continue(r, AfterPurge(k), Purged(k), FALSE)
                           ELSE Continue(r, "purgeDrop", k, FALSE)
    BY <1>3 DEF PurgeDrop
  <2>2. PICK k : k = [j EXCEPT !.drop = @ \ {p}]
    OBVIOUS
  <2>3. /\ pods' = pods \ {p}
        /\ UNCHANGED <<deployment, replicaSets, service, endpoints, slice>>
        /\ k.drop = {} => Continue(r, AfterPurge(k), Purged(k), FALSE)
        /\ k.drop # {} => Continue(r, "purgeDrop", k, FALSE)
    BY <2>1, <2>2, Zenon
  <2>4. k \in Job /\ k.drop = j.drop \ {p} /\ k.op = j.op /\ k.cur = j.cur
    BY <1>1, <2>2 DEF Job
  <2>5. Owned' /\ PodsOf(k.cur)' = PodsOf(k.cur) \ {p}
    BY <2>3, PodGoes DEF Owned
  <2>6. k.op = "delete" => PodsOf(k.cur)' \subseteq k.drop
    <3>1. pc[r] = "purgeDrop"
      BY <1>3 DEF PurgeDrop
    <3> QED
      BY <2>4, <2>5, <3>1 DEF Known
  <2>7. CASE k.drop = {}
    BY <2>3, <2>4, <2>5, <2>6, <2>7, PurgedOfAll
  <2>8. CASE k.drop # {}
    <3>1. pc'[r] = "purgeDrop" /\ job'[r] = k
      BY <2>3, <2>8, Goes
    <3> QED
      BY <2>5, <2>6, <3>1 DEF Known
  <2> QED
    BY <2>5, <2>7, <2>8
<1>4. CASE PodAdd(r)
  <2>1. PICK p \in j.add, refused \in MayRefuse, k \in {[j EXCEPT !.add = @ \ {p}] : p \in j.add} :
          /\ pods' \subseteq pods \cup {p} /\ replicaSets' = replicaSets
          /\ Continue(r, PodStage(k), k, refused)
    BY <1>4, Zenon DEF PodAdd
  <2>2. pc[r] = "podAdd" /\ p \in Wanted(j.tmpl, j.by, j.replicas) /\ j.tmpl \in Present
    BY <1>1, <1>4 DEF PodAdd, Shape, Kept
  <2>3. p.rs \in Present /\ Present' = Present
    BY <2>1, <2>2 DEF Wanted, Present
  <2>4. Owned'
    BY <2>1, <2>3 DEF Owned
  <2>5. pc'[r] \notin {"purgeDrop", "reapRS"}
    <3>1. PodStage(k) \notin {"purgeDrop", "reapRS", "idle"}
      BY DEF PodStage, AfterPods, AfterControllers
    <3>2. pc'[r] = PodStage(k)
      BY <2>1 DEF Continue, TypeOK
    <3> QED
      BY <3>1, <3>2
  <2> QED
    BY <2>4, <2>5 DEF Known
<1>5. CASE ReapRS(r)
  <2>1. /\ pc[r] = "reapRS" /\ replicaSets' = [replicaSets EXCEPT ![j.cur] = NoObject]
        /\ UNCHANGED <<deployment, pods, service, endpoints, slice>>
    BY <1>5 DEF ReapRS
  <2>2. j.cur \in Templates /\ PodsOf(j.cur) = {}
    BY <1>1, <2>1 DEF Shape, Known
  <2>3. Present' = Present \ {j.cur} /\ pods' = pods
    BY <2>1, <2>2, SetGoes
  <2>4. Owned'
    BY <2>2, <2>3 DEF Owned, PodsOf
  <2>5. pc'[r] \in {"answer", "purgeList"}
    BY <1>5 DEF ReapRS, Continue, TypeOK
  <2> QED
    BY <2>4, <2>5 DEF Known
<1>6. CASE ~PurgeList(r) /\ ~PurgeDrop(r) /\ ~PodAdd(r) /\ ~ReapRS(r)
  BY <1>6, MostStepsSpare, SparesOwned
<1> QED
  BY <1>2, <1>3, <1>4, <1>5, <1>6

\* The step keeps the invariants, some of them only if all fit on their pages.
Keeps ==
    /\ TypeOK' /\ Shapes'
    /\ SetsFit /\ OneByOne => OneByOne'
    /\ OnOnePage /\ Undisturbed => Undisturbed'
    /\ OnOnePage /\ OneByOne /\ PodsOwned => PodsOwned'

\* A step of a handler, ...
LEMMA StepKeeps ==
  ASSUME TypeOK, Shapes, NEW r \in Requests, Step(r)
  PROVE  Keeps
<1>1. Moves(r) /\ Advances(r)
  BY StepMoves, StepAdvances
<1>2. TypeOK'
  <2>1. job' \in [Requests -> Job]
    <3>1. PICK j : job' = [job EXCEPT ![r] = j]
      BY <1>1 DEF Moves
    <3>2. job'[r] \in Job /\ job \in [Requests -> Job]
      BY <1>1 DEF Advances, TypeOK
    <3> QED
      BY <3>1, <3>2
  <2> QED
    BY <1>1, <2>1 DEF TypeOK, Moves, Advances, StoreOK
<1>3. Shapes'
  BY <1>1 DEF Shapes, Moves, Advances
<1>4. OnOnePage /\ Undisturbed => Undisturbed'
  <2> SUFFICES ASSUME OnOnePage, Undisturbed, NEW s \in Requests, clean'[s]
               PROVE  Good(pc[s], job[s])'
    BY DEF Undisturbed
  <2>1. CASE s = r
    <3>1. CASE clean[r]
      BY <1>1, <2>1, <3>1 DEF Advances, Undisturbed
    <3>2. CASE ~clean[r]
      BY <1>1, <2>1, <3>2, AtRest DEF Moves
    <3> QED
      BY <3>1, <3>2
  <2>2. CASE s # r
    <3>1. /\ pc'[s] = pc[s] /\ job'[s] = job[s] /\ clean[s]
          /\ pc[s] = "idle" \/ storeVars' = storeVars
      BY <1>1, <2>2 DEF Moves, Idle
    <3>2. Good(pc[s], job[s])
      BY <3>1 DEF Undisturbed
    <3> QED
      BY <3>1, <3>2, GoodStays, AtRest
  <2> QED
    BY <2>1, <2>2
<1>5. SetsFit /\ OneByOne => OneByOne'
  <2> SUFFICES ASSUME SetsFit, OneByOne, calm' PROVE OneByOne'
    BY DEF OneByOne
  <2>1. calm /\ \A s \in Requests \ {r} : pc[s] = "idle" /\ pc'[s] = "idle"
    BY <1>1 DEF OneByOne, Moves, Idle
  <2>2. Kept(pc[r], job[r]) /\ Orderly /\ (~Reaping(pc[r], job[r]) => Settled)
    <3>1. \A s \in Requests \ {r} : ~Reaping(pc[s], job[s])
      BY <2>1, AtRest
    <3> QED
      BY <2>1, <3>1 DEF OneByOne
  <2>3. Orderly' /\ (~Reaping(pc[r], job[r]) => Settled)' /\ Kept(pc[r], job[r])'
    BY <1>1, <2>1, <2>2 DEF Advances
  <2>4. \A s \in Requests \ {r} : Kept(pc[s], job[s])'
    BY <2>1, AtRest
  <2>5. \A s, u \in Requests : ~Idle(s)' /\ ~Idle(u)' => s = u
    BY <2>1 DEF Idle
  <2> QED
    BY <2>3, <2>4, <2>5 DEF OneByOne
<1>6. OnOnePage /\ OneByOne /\ PodsOwned => PodsOwned'
  <2> SUFFICES ASSUME OnOnePage, OneByOne, PodsOwned, calm' PROVE PodsOwned'
    BY DEF PodsOwned
  <2>1. calm /\ \A s \in Requests \ {r} : pc'[s] = "idle"
    BY <1>1 DEF OneByOne, Moves, Idle
  <2>2. Kept(pc[r], job[r]) /\ Owned /\ Known(pc[r], job[r])
    BY <2>1 DEF OneByOne, PodsOwned
  <2>3. Owned' /\ Known(pc[r], job[r])'
    BY <2>2, StepOwned
  <2>4. \A s \in Requests \ {r} : Known(pc[s], job[s])'
    BY <2>1, AtRest
  <2> QED
    BY <2>3, <2>4 DEF PodsOwned
<1> QED
  BY <1>2, <1>3, <1>4, <1>5, <1>6 DEF Keeps

----------------------------------------------------------------------------
(* A request that begins.                                                  *)

\* What the first step of r must do for the invariants to hold after it; keeps
\* says that the request leaves the history calm.
Starts(r, keeps) ==
    /\ StoreOK'
    /\ job'[r] \in Job
    /\ Shape(pc[r], job[r])'
    /\ Good(pc[r], job[r])'
    /\ keeps /\ Orderly /\ Settled =>
         Orderly' /\ (~Reaping(pc[r], job[r]) => Settled)' /\ Kept(pc[r], job[r])'
    /\ keeps => pods' = pods /\ Present' = Present /\ Known(pc[r], job[r])'

\* Where the handler is then.
LEMMA Begins ==
  ASSUME TypeOK, NEW r \in Requests, NEW l, NEW j, NEW keeps \in BOOLEAN, Begin(r, l, j, keeps)
  PROVE  pc'[r] = l /\ job'[r] = j
  BY DEF Begin, TypeOK

\* ... the beginning of a request, ...
LEMMA BeginKeeps ==
  ASSUME TypeOK, Shapes, NEW r \in Requests, NEW l \in Labels, NEW j,
         NEW keeps \in BOOLEAN, Begin(r, l, j, keeps), Starts(r, keeps)
  PROVE  Keeps
<1>1. /\ pc' = [pc EXCEPT ![r] = l] /\ job' = [job EXCEPT ![r] = j] /\ refusals' = refusals
      /\ issued < MaxIssued /\ issued' = issued + 1
      /\ clean' = [s \in Requests |-> s = r \/ Idle(s) \/ (clean[s] /\ storeVars' = storeVars)]
      /\ calm' = (calm /\ keeps /\ \A s \in Requests : Idle(s))
  BY DEF Begin
<1>2. \A s \in Requests \ {r} : pc'[s] = pc[s] /\ job'[s] = job[s]
  BY <1>1 DEF TypeOK
<1>3. TypeOK'
  <2>1. job' \in [Requests -> Job]
    <3>1. job'[r] \in Job /\ job \in [Requests -> Job]
      BY DEF Starts, TypeOK
    <3> QED
      BY <1>1, <3>1
  <2>2. pc' \in [Requests -> Labels]
    BY <1>1 DEF TypeOK
  <2>3. clean' \in [Requests -> BOOLEAN]
    <3>1. \A s \in Requests :
            (s = r \/ Idle(s) \/ (clean[s] /\ storeVars' = storeVars)) \in BOOLEAN
      OBVIOUS
    <3> QED
      BY <1>1, <3>1
  <2>4. calm' \in BOOLEAN
    BY <1>1
  <2>5. issued' \in 0 .. MaxIssued
    BY <1>1, WorkloadConstants DEF TypeOK
  <2> QED
    BY <1>1, <2>1, <2>2, <2>3, <2>4, <2>5 DEF TypeOK, Starts, StoreOK
<1>4. Shapes'
  BY <1>2 DEF Shapes, Starts
<1>5. Undisturbed => Undisturbed'
  <2> SUFFICES ASSUME Undisturbed, NEW s \in Requests, clean'[s]
               PROVE  Good(pc[s], job[s])'
    BY DEF Undisturbed
  <2>1. CASE s = r
    BY <2>1 DEF Starts
  <2>2. CASE s # r
    <3>1. pc'[s] = pc[s] /\ job'[s] = job[s]
      BY <1>2, <2>2
    <3>2. pc[s] = "idle" \/ (clean[s] /\ storeVars' = storeVars)
      BY <1>1, <2>2 DEF Idle
    <3>3. clean[s] => Good(pc[s], job[s])
      BY DEF Undisturbed
    <3> QED
      BY <3>1, <3>2, <3>3, GoodStays, AtRest
  <2> QED
    BY <2>1, <2>2
<1>6. OneByOne => OneByOne'
  <2> SUFFICES ASSUME OneByOne, calm' PROVE OneByOne'
    BY DEF OneByOne
  <2>1. calm /\ keeps /\ \A s \in Requests : pc[s] = "idle"
    BY <1>1 DEF Idle
  <2>2. Orderly /\ Settled
    <3>1. \A s \in Requests : ~Reaping(pc[s], job[s])
      BY <2>1, AtRest
    <3> QED
      BY <2>1, <3>1 DEF OneByOne
  <2>3. Orderly' /\ (~Reaping(pc[r], job[r]) => Settled)' /\ Kept(pc[r], job[r])'
    BY <2>1, <2>2 DEF Starts
  <2>4. \A s \in Requests \ {r} : pc'[s] = "idle"
    BY <1>2, <2>1
  <2>5. \A s \in Requests \ {r} : Kept(pc[s], job[s])'
    BY <2>4, AtRest
  <2>6. \A s, u \in Requests : ~Idle(s)' /\ ~Idle(u)' => s = u
    BY <2>4 DEF Idle
  <2> QED
    BY <2>3, <2>5, <2>6 DEF OneByOne
<1>7. PodsOwned => PodsOwned'
  <2> SUFFICES ASSUME PodsOwned, calm' PROVE PodsOwned'
    BY DEF PodsOwned
  <2>1. calm /\ keeps /\ \A s \in Requests \ {r} : pc'[s] = "idle"
    BY <1>1, <1>2 DEF Idle
  <2>2. Owned' /\ Known(pc[r], job[r])'
    BY <2>1 DEF PodsOwned, Owned, Starts
  <2>3. \A s \in Requests \ {r} : Known(pc[s], job[s])'
    BY <2>1, AtRest
  <2> QED
    BY <2>2, <2>3 DEF PodsOwned
<1> QED
  BY <1>3, <1>4, <1>5, <1>6, <1>7 DEF Keeps

\* create of the Deployment.
LEMMA CreateKeeps ==
  ASSUME TypeOK, Shapes, NEW r \in Requests, NEW t \in Templates,
         NEW n \in Replicas, CreateDeployment(r, t, n)
  PROVE  Keeps
<1>1. PICK j : j = [NoJob EXCEPT !.op = "create", !.by = "deployment", !.tmpl = t, !.replicas = n]
  OBVIOUS
<1>2. PICK l : l = EnterDeployment("create", n)
  OBVIOUS
<1>3. /\ deployment' = [tmpl |-> t, replicas |-> n, status |-> n]
      /\ UNCHANGED <<replicaSets, pods, service, endpoints, slice>> /\ Begin(r, l, j, TRUE)
  BY <1>1, <1>2 DEF CreateDeployment
<1>4. n \in Int
  BY WorkloadConstants
<1>5. j \in Job /\ j.op = "create" /\ j.by = "deployment" /\ j.tmpl = t /\ j.replicas = n
  BY <1>1, <1>4, NoJobType DEF Job, NoJob
<1>6. l \in Labels /\ ((l = "rsGet" /\ n >= 0) \/ (l = "serviceList" /\ n < 0))
  BY <1>2, <1>4, NextLabels DEF EnterDeployment, AfterControllers
<1>7. pc'[r] = l /\ job'[r] = j
  BY <1>3, Begins
<1>8. [tmpl |-> t, replicas |-> n, status |-> n] \in Deployment
  BY <1>4 DEF Deployment
<1>9. /\ StoreOK' /\ deployment' # NoObject
      /\ (Orderly => Orderly') /\ (Orderly /\ Settled => Settled')
  BY <1>3, <1>8, DeploymentIsPut
<1>10. Shape(l, j)
  BY <1>5, <1>6 DEF Shape
<1>11. Good(pc[r], job[r])'
  BY <1>4, <1>5, <1>6, <1>7, <1>9 DEF Good, Done
<1>12. Kept(pc[r], job[r])' /\ Known(pc[r], job[r])'
  BY <1>5, <1>6, <1>7, <1>9 DEF Kept, Known
<1>13. pods' = pods /\ Present' = Present
  BY <1>3 DEF Present
<1>14. Starts(r, TRUE)
  BY <1>5, <1>7, <1>9, <1>10, <1>11, <1>12, <1>13 DEF Starts
<1> QED
  BY <1>3, <1>6, <1>14, BeginKeeps

\* update, patch and scale of the Deployment, with the template t.
LEMMA UpdateKeeps ==
  ASSUME TypeOK, Shapes, NEW r \in Requests, NEW t \in Templates,
         NEW n \in Replicas, UpdateDeployment(r, t, n)
  PROVE  Keeps
<1>1. PICK j : j = [NoJob EXCEPT !.op = "update", !.by = "deployment", !.tmpl = t, !.replicas = n]
  OBVIOUS
<1>2. deployment # NoObject /\ UNCHANGED storeVars /\ Begin(r, "deploymentPut", j, TRUE)
  BY <1>1 DEF UpdateDeployment
<1>3. n \in Int
  BY WorkloadConstants
<1>4. j \in Job /\ j.op = "update" /\ j.by = "deployment" /\ j.tmpl = t /\ j.replicas = n
  BY <1>1, <1>3, NoJobType DEF Job, NoJob
<1>5. pc'[r] = "deploymentPut" /\ job'[r] = j /\ "deploymentPut" \in Labels
  BY <1>2, Begins DEF Labels
<1>6. Shape("deploymentPut", j)
  BY <1>4 DEF Shape
<1>7. deployment' # NoObject
  BY <1>2, Reads
<1>8. Good(pc[r], job[r])' /\ Kept(pc[r], job[r])' /\ Known(pc[r], job[r])'
  BY <1>4, <1>5, <1>7 DEF Good, Kept, Known
<1>9. Starts(r, TRUE)
  BY <1>2, <1>4, <1>5, <1>6, <1>8, Reads DEF Starts
<1> QED
  BY <1>2, <1>5, <1>9, BeginKeeps

\* Scale, update and patch of a ReplicaSet.
LEMMA ScaleReplicaSetKeeps ==
  ASSUME TypeOK, Shapes, NEW r \in Requests, NEW t \in Templates,
         NEW n \in Replicas, ScaleReplicaSet(r, t, n)
  PROVE  Keeps
<1>1. PICK j : j = [NoJob EXCEPT !.op = "scaleRS", !.by = "replicaset", !.tmpl = t, !.replicas = n,
                                 !.sets = [NoSets EXCEPT ![t] = replicaSets[t]]]
  OBVIOUS
<1>2. t \in Present /\ UNCHANGED storeVars /\ Begin(r, "scalePut", j, TRUE)
  BY <1>1 DEF ScaleReplicaSet
<1>3. n \in Int /\ replicaSets[t] # NoObject
      /\ [NoSets EXCEPT ![t] = replicaSets[t]] \in [Templates -> ReplicaSet \cup {NoObject}]
  BY <1>2, WorkloadConstants, NoJobType DEF Present, TypeOK
<1>4. /\ j \in Job /\ j.op = "scaleRS" /\ j.by = "replicaset" /\ j.tmpl = t /\ j.replicas = n
      /\ j.sets[t] = replicaSets[t]
  BY <1>1, <1>3, NoJobType DEF Job, NoJob
<1>5. pc'[r] = "scalePut" /\ job'[r] = j /\ "scalePut" \in Labels
  BY <1>2, Begins DEF Labels
<1>6. Shape("scalePut", j)
  BY <1>3, <1>4 DEF Shape
<1>7. j.sets[j.tmpl] = replicaSets'[j.tmpl]
  BY <1>2, <1>4, Reads
<1>8. Good(pc[r], job[r])' /\ Kept(pc[r], job[r])' /\ Known(pc[r], job[r])'
  BY <1>4, <1>5, <1>7 DEF Good, Kept, Known
<1>9. Starts(r, TRUE)
  BY <1>2, <1>4, <1>5, <1>6, <1>8, Reads DEF Starts
<1> QED
  BY <1>2, <1>5, <1>9, BeginKeeps

\* delete of a ReplicaSet, after which the history is no longer calm.
LEMMA DeleteReplicaSetKeeps ==
  ASSUME TypeOK, Shapes, NEW r \in Requests, NEW t \in Templates,
         DeleteReplicaSet(r, t)
  PROVE  Keeps
<1>1. PICK j : j = [NoJob EXCEPT !.op = "deleteRS", !.cur = t]
  OBVIOUS
<1>2. /\ replicaSets' = [replicaSets EXCEPT ![t] = NoObject]
      /\ UNCHANGED <<deployment, pods, service, endpoints, slice>>
      /\ Begin(r, "purgeList", j, FALSE)
  BY <1>1 DEF DeleteReplicaSet
<1>3. j \in Job /\ j.op = "deleteRS" /\ j.by = "none" /\ j.cur = t
  BY <1>1, NoJobType DEF Job, NoJob
<1>4. pc'[r] = "purgeList" /\ job'[r] = j /\ "purgeList" \in Labels
  BY <1>2, Begins DEF Labels
<1>5. Shape("purgeList", j)
  BY <1>3 DEF Shape
<1>6. Good(pc[r], job[r])'
  BY <1>3, <1>4 DEF Good
<1>7. Starts(r, FALSE)
  BY <1>2, <1>3, <1>4, <1>5, <1>6, SetGoes DEF Starts
<1> QED
  BY <1>2, <1>4, <1>7, BeginKeeps

\* delete of a pod.
LEMMA DeletePodKeeps ==
  ASSUME TypeOK, Shapes, NEW r \in Requests, NEW p \in Pod, DeletePod(r, p)
  PROVE  Keeps
<1>1. PICK j : j = [NoJob EXCEPT !.op = "deletePod", !.drop = {p}]
  OBVIOUS
<1>2. UNCHANGED storeVars /\ Begin(r, "podDelete", j, TRUE)
  BY <1>1 DEF DeletePod
<1>3. j \in Job /\ j.op = "deletePod" /\ j.by = "none"
  BY <1>1, NoJobType DEF Job, NoJob
<1>4. pc'[r] = "podDelete" /\ job'[r] = j /\ "podDelete" \in Labels
  BY <1>2, Begins DEF Labels
<1>5. Shape("podDelete", j)
  BY <1>3 DEF Shape
<1>6. Good(pc[r], job[r])' /\ Kept(pc[r], job[r])' /\ Known(pc[r], job[r])'
  BY <1>3, <1>4 DEF Good, Kept, Known
<1>7. Starts(r, TRUE)
  BY <1>2, <1>3, <1>4, <1>5, <1>6, Reads DEF Starts
<1> QED
  BY <1>2, <1>4, <1>7, BeginKeeps

\* delete of the Deployment.
LEMMA DeleteDeploymentKeeps ==
  ASSUME TypeOK, Shapes, NEW r \in Requests, DeleteDeployment(r)
  PROVE  Keeps
<1>1. PICK j : j = [NoJob EXCEPT !.op = "delete"]
  OBVIOUS
<1>2. /\ deployment' = NoObject /\ UNCHANGED <<replicaSets, pods, service, endpoints, slice>>
      /\ Begin(r, "reapList", j, TRUE)
  BY <1>1 DEF DeleteDeployment
<1>3. j \in Job /\ j.op = "delete" /\ j.by = "none"
  BY <1>1, NoJobType DEF Job, NoJob
<1>4. pc'[r] = "reapList" /\ job'[r] = j /\ "reapList" \in Labels
  BY <1>2, Begins DEF Labels
<1>5. Shape("reapList", j)
  BY <1>3 DEF Shape
<1>6. /\ Good(pc[r], job[r])' /\ Kept(pc[r], job[r])' /\ Known(pc[r], job[r])'
      /\ Reaping(pc[r], job[r])'
  BY <1>3, <1>4 DEF Good, Kept, Known, Reaping
<1>7. StoreOK' /\ pods' = pods /\ Present' = Present /\ (Orderly => Orderly')
  BY <1>2 DEF StoreOK, TypeOK, Orderly, Present
<1>8. Starts(r, TRUE)
  BY <1>3, <1>4, <1>5, <1>6, <1>7 DEF Starts
<1> QED
  BY <1>2, <1>4, <1>8, BeginKeeps

\* create of a Service.
LEMMA CreateServiceKeeps ==
  ASSUME TypeOK, Shapes, NEW r \in Requests, CreateService(r)
  PROVE  Keeps
<1>1. PICK j : j = [NoJob EXCEPT !.op = "service"]
  OBVIOUS
<1>2. /\ service' = TRUE /\ UNCHANGED <<deployment, replicaSets, pods, endpoints, slice>>
      /\ Begin(r, "serviceList", j, TRUE)
  BY <1>1 DEF CreateService
<1>3. j \in Job /\ j.op = "service" /\ j.by = "none"
  BY <1>1, NoJobType DEF Job, NoJob
<1>4. pc'[r] = "serviceList" /\ job'[r] = j /\ "serviceList" \in Labels
  BY <1>2, Begins DEF Labels
<1>5. Shape("serviceList", j)
  BY <1>3 DEF Shape
<1>6. Good(pc[r], job[r])' /\ Kept(pc[r], job[r])' /\ Known(pc[r], job[r])'
  BY <1>3, <1>4 DEF Good, Done, Kept, Known
<1>7. /\ StoreOK' /\ pods' = pods /\ Present' = Present
      /\ (Orderly => Orderly') /\ (Settled => Settled')
  BY <1>2 DEF StoreOK, TypeOK, Orderly, Settled, Present
<1>8. Starts(r, TRUE)
  BY <1>3, <1>4, <1>5, <1>6, <1>7 DEF Starts
<1> QED
  BY <1>2, <1>4, <1>8, BeginKeeps

\* A request that is a single store step.
LEMMA AtOnceKeeps ==
  ASSUME TypeOK, Shapes, NEW keeps \in BOOLEAN, AtOnce(keeps), StoreOK',
         keeps /\ Orderly /\ Settled => Orderly' /\ Settled', keeps /\ Owned => Owned'
  PROVE  Keeps
<1>1. /\ issued < MaxIssued /\ issued' = issued + 1
      /\ clean' = [s \in Requests |-> Idle(s)]
      /\ calm' = (calm /\ keeps /\ \A s \in Requests : Idle(s))
      /\ pc' = pc /\ job' = job /\ refusals' = refusals
  BY DEF AtOnce
<1>2. TypeOK'
  <2>1. clean' \in [Requests -> BOOLEAN] /\ calm' \in BOOLEAN
    <3>1. \A s \in Requests : Idle(s) \in BOOLEAN
      BY DEF Idle
    <3> QED
      BY <1>1, <3>1
  <2>2. issued' \in 0 .. MaxIssued
    BY <1>1, WorkloadConstants DEF TypeOK
  <2> QED
    BY <1>1, <2>1, <2>2 DEF TypeOK, StoreOK
<1>3. Shapes'
  BY <1>1 DEF Shapes
<1>4. Undisturbed'
  <2> SUFFICES ASSUME NEW s \in Requests, clean'[s] PROVE Good(pc[s], job[s])'
    BY DEF Undisturbed
  <2>1. pc'[s] = "idle"
    BY <1>1 DEF Idle
  <2> QED
    BY <2>1, AtRest
<1>5. OneByOne => OneByOne'
  <2> SUFFICES ASSUME OneByOne, calm' PROVE OneByOne'
    BY DEF OneByOne
  <2>1. calm /\ keeps /\ \A s \in Requests : pc[s] = "idle" /\ pc'[s] = "idle"
    BY <1>1 DEF Idle
  <2>2. Orderly /\ Settled
    <3>1. \A s \in Requests : ~Reaping(pc[s], job[s])
      BY <2>1, AtRest
    <3> QED
      BY <2>1, <3>1 DEF OneByOne
  <2>3. \A s \in Requests : Kept(pc[s], job[s])'
    BY <2>1, AtRest
  <2>4. \A s, u \in Requests : ~Idle(s)' /\ ~Idle(u)' => s = u
    BY <2>1 DEF Idle
  <2> QED
    BY <2>1, <2>2, <2>3, <2>4 DEF OneByOne
<1>6. PodsOwned => PodsOwned'
  <2> SUFFICES ASSUME PodsOwned, calm' PROVE PodsOwned'
    BY DEF PodsOwned
  <2>1. calm /\ keeps /\ \A s \in Requests : pc'[s] = "idle"
    BY <1>1 DEF Idle
  <2>2. \A s \in Requests : Known(pc[s], job[s])'
    BY <2>1, AtRest
  <2> QED
    BY <2>1, <2>2 DEF PodsOwned
<1> QED
  BY <1>2, <1>3, <1>4, <1>5, <1>6 DEF Keeps

\* The invariants hold at first, ...
LEMMA AtFirst == Init => TypeOK /\ Shapes /\ OneByOne /\ Undisturbed /\ PodsOwned
<1> SUFFICES ASSUME Init PROVE TypeOK /\ Shapes /\ OneByOne /\ Undisturbed /\ PodsOwned
  OBVIOUS
<1>1. TypeOK
  <2>1. "idle" \in Labels
    BY DEF Labels
  <2>2. /\ pc \in [Requests -> Labels] /\ job \in [Requests -> Job]
        /\ replicaSets \in [Templates -> ReplicaSet \cup {NoObject}]
    BY <2>1, NoJobType DEF Init
  <2>3. issued \in 0 .. MaxIssued /\ refusals \in 0 .. MaxRefusals
    BY WorkloadConstants DEF Init
  <2>4. clean \in [Requests -> BOOLEAN]
    BY DEF Init
  <2> QED
    BY <2>2, <2>3, <2>4 DEF Init, TypeOK
<1>2. \A r \in Requests : pc[r] = "idle"
  BY DEF Init
<1>3. Shapes /\ Undisturbed
  BY <1>2, AtRest DEF Shapes, Undisturbed
<1>4. Present = {} /\ pods = {}
  BY DEF Init, Present, NoSets
<1>5. OneByOne /\ PodsOwned
  BY <1>2, <1>4, AtRest DEF OneByOne, Orderly, Settled, Idle, PodsOwned, Owned
<1> QED
  BY <1>1, <1>3, <1>5

\* ... and every step keeps them.
LEMMA NextKeeps ==
  ASSUME TypeOK, Shapes, [Next]_vars
  PROVE  Keeps
<1>1. ASSUME NEW r \in Requests, Issue(r)
      PROVE  Keeps
  <2>1. ASSUME NEW n \in Replicas, ScaleDeployment(r, n)
        PROVE  Keeps
    <3>1. PICK t : t = deployment.tmpl
      OBVIOUS
    <3>2. t \in Templates
      BY <2>1, <3>1 DEF ScaleDeployment, TypeOK, Deployment
    <3>3. UpdateDeployment(r, t, n)
      BY <2>1, <3>1 DEF ScaleDeployment, UpdateDeployment
    <3> QED
      BY <3>2, <3>3, UpdateKeeps
  <2> QED
    BY <1>1, <2>1, CreateKeeps, UpdateKeeps, ScaleReplicaSetKeeps, DeleteReplicaSetKeeps,
       DeletePodKeeps, DeleteDeploymentKeeps, CreateServiceKeeps DEF Issue
<1>2. ASSUME NEW p \in Pod, Evict(p)
      PROVE  Keeps
  <2>1. /\ StoreOK' /\ (Orderly => Orderly') /\ (Settled => Settled') /\ Present' = Present
        /\ AtOnce(TRUE) /\ pods' \subseteq pods
    BY <1>2, PodGoes DEF Evict
  <2>2. Owned => Owned'
    BY <2>1 DEF Owned
  <2> QED
    BY <2>1, <2>2, AtOnceKeeps
<1>3. ASSUME NEW t \in Templates, SweepReplicaSets(t)
      PROVE  Keeps
  <2>1. StoreOK' /\ AtOnce(FALSE)
    BY <1>3, SetGoes DEF SweepReplicaSets
  <2> QED
    BY <2>1, AtOnceKeeps
<1>4. ASSUME SweepDeployments
      PROVE  Keeps
  <2>1. StoreOK' /\ AtOnce(FALSE)
    BY <1>4 DEF SweepDeployments, StoreOK, TypeOK
  <2> QED
    BY <2>1, AtOnceKeeps
<1>5. ASSUME DeleteService
      PROVE  Keeps
  <2>1. /\ StoreOK' /\ (Orderly => Orderly') /\ (Settled => Settled') /\ (Owned => Owned')
        /\ AtOnce(TRUE)
    BY <1>5 DEF DeleteService, StoreOK, TypeOK, Orderly, Settled, Present, Owned
  <2> QED
    BY <2>1, AtOnceKeeps
<1>6. ASSUME UNCHANGED vars
      PROVE  Keeps
  <2>1. /\ pc' = pc /\ job' = job /\ clean' = clean /\ calm' = calm
        /\ issued' = issued /\ refusals' = refusals /\ storeVars' = storeVars
    BY <1>6 DEF vars, storeVars
  <2>2. TypeOK' /\ Shapes'
    BY <2>1, Reads DEF TypeOK, StoreOK, Shapes
  <2>3. Undisturbed => Undisturbed'
    BY <2>1, GoodStays DEF Undisturbed
  <2>4. OneByOne => OneByOne'
    <3>1. \A r \in Requests : Kept(pc[r], job[r]) => Kept(pc[r], job[r])'
      BY <2>1, Reads DEF Kept
    <3>2. \A r \in Requests : Reaping(pc[r], job[r])' <=> Reaping(pc[r], job[r])
      BY <2>1 DEF Reaping
    <3> QED
      BY <2>1, <3>1, <3>2, Reads DEF OneByOne, Idle
  <2>5. PodsOwned => PodsOwned'
    BY <2>1, Reads DEF PodsOwned, Owned, Known
  <2> QED
    BY <2>2, <2>3, <2>4, <2>5 DEF Keeps
<1> QED
  BY <1>1, <1>2, <1>3, <1>4, <1>5, <1>6, StepKeeps DEF Next

----------------------------------------------------------------------------
(* The theorems.                                                           *)

\* Shapes, with the types, is inductive: what the job of a handler holds between
\* two store calls it holds whenever the handler is there, whatever the others do.
THEOREM Inductive == Spec => [](TypeOK /\ Shapes)
<1>1. TypeOK /\ Shapes /\ [Next]_vars => (TypeOK /\ Shapes)'
  BY NextKeeps DEF Keeps
<1> QED
  BY <1>1, AtFirst, PTL DEF Spec

\* Type correctness: every job, label and stored object has its type, however
\* requests interleave and whatever fits on a page.
THEOREM TypeCorrect == Spec => []TypeOK
  BY Inductive, PTL

\* In a behaviour whose ReplicaSets always fit on the page deploymentReplicaSets
\* reads, requests that come one by one find the rollout history as they need it.
THEOREM InductiveOneByOne == Spec /\ []SetsFit => []OneByOne
<1>1. (TypeOK /\ Shapes /\ [Next]_vars) /\ (SetsFit /\ OneByOne) => OneByOne'
  BY NextKeeps DEF Keeps
<1> QED
  BY <1>1, AtFirst, Inductive, PTL DEF Spec

\* nextDeploymentRevision: one request at a time, no two ReplicaSets of the
\* rollout history share a revision, as long as deploymentReplicaSets, which reads
\* one page, sees all of them.
THEOREM RevisionsAreDistinct == Spec /\ []SetsFit => []RevisionsDistinct
<1>1. OneByOne => RevisionsDistinct
  BY DEF OneByOne, Orderly, RevisionsDistinct
<1> QED
  BY <1>1, InductiveOneByOne, PTL

\* In a behaviour whose pods and ReplicaSets always fit on the pages listPage
\* returns, a handler that nobody interfered with finds the store as it needs it,
\* and every pod of requests that come one by one has its ReplicaSet.
THEOREM InductiveOnOnePage == Spec /\ []OnOnePage => [](OneByOne /\ Undisturbed /\ PodsOwned)
<1>1. (TypeOK /\ Shapes /\ [Next]_vars) /\ (OnOnePage /\ OneByOne /\ Undisturbed /\ PodsOwned) =>
        (OneByOne /\ Undisturbed /\ PodsOwned)'
  BY NextKeeps DEF Keeps, OnOnePage
<1> QED
  BY <1>1, AtFirst, Inductive, PTL DEF Spec

\* materializeDeployment and materializePods reconcile: a request whose controller
\* ran without interference leaves what its object asks for, from whatever state,
\* as long as ownedPodNames sees every pod and deploymentReplicaSets every
\* ReplicaSet, each on the one page it reads.
THEOREM Converges == Spec /\ []OnOnePage => []MaterializeConverges
<1>1. Undisturbed => MaterializeConverges
  <2> SUFFICES ASSUME Undisturbed, NEW r \in Requests, pc[r] = "answer", clean[r],
                      job[r].replicas >= 0
               PROVE  /\ job[r].by = "deployment" =>
                           /\ RolledOut(job[r].tmpl, Desired(job[r].replicas))
                           /\ deployment # NoObject
                           /\ deployment.status = Desired(job[r].replicas)
                      /\ job[r].by = "replicaset" =>
                           PodsOf(job[r].tmpl) = Wanted(job[r].tmpl, "replicaset", job[r].replicas)
    BY DEF MaterializeConverges
  <2>1. Done(job[r])
    BY DEF Undisturbed, Good
  <2> QED
    BY <2>1 DEF Done
<1> QED
  BY <1>1, InductiveOnOnePage, PTL

\* syncEndpointsForNamespace: after a create that nobody interfered with, the
\* Endpoints and the EndpointSlice of the Service hold the selected pods, as
\* long as the pages have room for all pods and ReplicaSets.
THEOREM EndpointsFollow == Spec /\ []OnOnePage => []EndpointsFollowCreate
<1>1. Undisturbed => EndpointsFollowCreate
  <2> SUFFICES ASSUME Undisturbed, NEW r \in Requests, pc[r] = "answer", clean[r],
                      job[r].op \in {"create", "service"}, service
               PROVE  /\ endpoints = [addresses |-> {p \in pods : p.rs \in Selected}]
                      /\ slice = endpoints
    BY DEF EndpointsFollowCreate
  <2>1. endpoints = [addresses |-> SelectedPods] /\ slice = endpoints
    BY DEF Undisturbed, Good
  <2> QED
    BY <2>1 DEF SelectedPods
<1> QED
  BY <1>1, InductiveOnOnePage, PTL

\* reapOwnedPods: one request at a time, no pod is without its ReplicaSet, and
\* nothing remains of a Deployment that is deleted, as long as ownedPodNames
\* sees every pod and deploymentReplicaSets every ReplicaSet.
THEOREM CascadeComplete == Spec /\ []OnOnePage => []CascadeIsComplete
<1>1. OneByOne /\ PodsOwned => CascadeIsComplete
  <2> SUFFICES ASSUME OneByOne, PodsOwned, calm
               PROVE  /\ \A p \in pods : p.rs \in Present
                      /\ deployment = NoObject /\ (\A r \in Requests : Idle(r)) =>
                           Present = {} /\ pods = {}
    BY DEF CascadeIsComplete
  <2>1. \A p \in pods : p.rs \in Present
    BY DEF PodsOwned, Owned
  <2>2. (\A r \in Requests : Idle(r)) => Settled
    BY AtRest DEF OneByOne, Idle
  <2> QED
    BY <2>1, <2>2 DEF Settled
<1> QED
  BY <1>1, InductiveOnOnePage, PTL
=============================================================================
