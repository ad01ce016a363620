# Helix honeypot: TLA+ models, checks and proofs

Helix runs one low-interaction sensor per process: a simulated Kubernetes API, a
Docker Engine, an AI gateway, a kubelet, or a plain HTTP, TCP or UDP listener.
Everything it holds is in memory; what it leaves behind is a stream of events.
This directory models the parts of it that keep state or run concurrently. Paths
below are relative to the repository, which sits under `src/`.

## The system's parts

| Part | State it keeps | Operations | What makes it correct |
| --- | --- | --- | --- |
| Object store, `honeypots/k8s/handler/state.go`, and the requests on it in `api.go` | objects by key, one revision counter, a byte account, registered watchers with bounded channels | put, get, listPage, delete, deleteMatching, nextName, watch, unwatch | limits hold, revisions name writes, watchers are told every change or closed, no panic under the mutex |
| Workload controllers, `controller.go` | none of their own: pods, ReplicaSets, endpoints and events in the store | materialise, reap, respawn, sync of endpoints, called by create, update, patch, scale, evict and delete | pods follow their workload; nothing survives its deletion |
| Request front end, `api.go`, `k8s.go` | request, list, watch and OpenAPI slots | routing, discovery, subresources, lists with continue tokens, JSON and merge patches | what is stored can be found again; pages of one list agree; patches do what the RFCs say |
| Event logger, `logger/logger.go` | a mutex, the attached sinks | write, AttachSinks, Close | one line per event, the same order everywhere |
| Sinks, `logger/sink.go`, `sink_http.go` | per remote sink a queue, a batch, a dropped counter and a goroutine; an open file | Emit, run, deliver, Close | never block a sensor, lose nothing silently, release everything |
| Capped listener, `internal/netlimit/listener.go` | a channel of slots, a done channel | Accept, Close, Close of a connection | the cap holds and no slot leaks |
| TCP sensor, `honeypots/tcp/tcp.go` | slots, a wait group | accept loop, one handler per connection, shutdown | every accepted connection is recorded, the sensor stops |
| Docker sensor, `honeypots/docker/docker.go` | containers, exec instances, a byte account | create, delete, start, stop, restart, kill, exec | capacities hold, records agree |
| AI sensor, `honeypots/ai/ai.go` | work slots, per-connection sessions | one request at a time per connection | one event per request, bounded work, nothing served without the token |
| Process and start-up, `cmd/main.go`, `server/server.go` and each sensor's Start function | the context, the listener, the logger, deferred closes | dispatch, start-up steps, serving, graceful shutdown | nothing stays open, events of drained handlers arrive, cancellation ends the process |
| Configuration, `config/config.go`, `model/config.go` | none | defaults, file, environment, normalise, validate, the set of redacted values | every secret of an accepted configuration is redacted |
| Client address, `logger/logger.go` | none | X-Forwarded-For behind trusted proxies | a client cannot choose the address that is recorded |
| Kubelet answers, schemas, tables, certificates | none that is shared | | |

They meet in few places. Every sensor writes to one EventLogger from many
handlers, and closes it when it stops. The Kubernetes, Docker, AI, HTTP and
kubelet sensors sit behind a capped listener; the TCP sensor has slots of its own.
The requests of the Kubernetes API share the object store, whose methods are each
one critical section, while a request is several of them: nothing keeps a second
request out between a read and the write that follows from it. Watches hear of
changes through channels that the store closes when they are full.

What is hard to test in it: the order of registration, replay and live events of a
watch; a channel that two parties may close; early returns that undo a counter;
handlers that still emit while the logger closes; retries of sends that were
taken; slots on every error path; cancellation at each blocking call; cascades of
several store steps that interleave with other requests; a page read in another
critical section than the check of its token; start-up that fails half-way; a
shutdown that runs out of time; limits of several collections that meet. `PROJECT.json` lists these
hazards at the lines where they bite.

## Modules

| Module | Models | Proofs |
| --- | --- | --- |
| `ObjectStore` | the store and the create, update, patch, delete, deleteCollection and watch requests | `ObjectStoreProofs` |
| `EventPipeline` | the logger, its sinks, start-up and Close | `EventPipelineProofs` |
| `ConnectionLimit` | what a bounded listener promises (abstract) | |
| `CappedListener` | `netlimit`, implements `ConnectionLimit` | `CappedListenerProofs` |
| `TCPSensor` | the TCP sensor, implements `ConnectionLimit` | `TCPSensorProofs` |
| `DockerSensor` | the simulated Docker host | `DockerSensorProofs` |
| `Workloads` | the workload controllers and the requests that call them | `WorkloadsProofs` |
| `AIGateway` | the decisions of the AI sensor about one request | |
| `HTTPSensor` | the life of a sensor process in every mode but TCP, and the handlers of the AI sensor; extends `AIGateway` | `FrontEndProofs` |
| `APIRequests` | routing, checks and lists of the Kubernetes API | `FrontEndProofs` |
| `JSONPatch` | JSON patch and merge patch, with RFC 6902 and RFC 7386 beside them | |
| `Configuration` | loading and validating the configuration, and the values that are redacted | `FrontEndProofs` |
| `ClientAddress` | the client address taken from X-Forwarded-For | `FrontEndProofs` |
| `Inputs` | the input of `Configuration` or `ClientAddress` a behaviour looks at, and what must hold of it | `FrontEndProofs` |
| `Sums` | no code: facts about sums over finite sets that the byte accounts need | itself |

`MC*` modules and the `.cfg` files give the constants small values. Definitions
whose comment begins with "Mutant:" are deliberately wrong variants of the
definition that follows them; no specification uses them, and each is there
to show that some property notices the mistake.

### ObjectStore

`objects`, `resourceRev`, `storedBytes` and `watchers` are the fields of
`objectStore`. A store method holds the mutex from beginning to end and is one
step: `Put` with its early returns in `PutAccepts`, `Remove`, `Publish` for
`publishLocked`. Requests are built from them. `Create` and `Delete` touch the
store once. update and patch are `UpdateGet` and `UpdatePut`, with `req` holding
what was read in between; deleteCollection is `SweepCollect` and one `SweepDelete`
per key; watch is `WatchStart`, `Replay`, `Receive` and `WatchReturn`. `view` and
`unseen` follow what the client has been sent.

Objects are of a kind without a controller. What `create` and `delete` do
afterwards for workloads and pods is more puts and deletes, each in a critical
section of its own, so that for the store it is nothing but further `Create`,
`UpdatePut` and `Delete` steps of other keys; the seeds of a starting sensor are
`Create` steps too. What those cascades promise is the subject of `Workloads`.

Contents are abstract. Two sizes belong to each: `PutSize`, the length `put` adds,
and `StoredSize`, the length of the stored clone, which is what `delete` and a
replacement subtract. They agree for JSON numbers that a float64 holds exactly.

### EventPipeline

Each event has a handler of its own. `Write` takes `l.mu` and writes the local
line (or fails and gives up); the fan-out loop then visits the sinks one at a
time, and Emit of a remote sink is two steps, the load of the closed flag and
the non-blocking send. The goroutine of a shipper is `Take`, `Tick`, the drain and
the sends; a failed send may have been taken by the destination. Close detaches
the sinks under the lock and then closes them one by one, waiting for each
goroutine. A start-up that fails half-way goes through the same closing loop.
`offered`, `acked` and `copies` are history variables.

### ConnectionLimit, CappedListener, TCPSensor

`ConnectionLimit` has two variables, the connections inside and those gone.
`CappedListener` separates the select of Accept, the wrapped Accept, the close
of the socket and the release of the slot, by any number of goroutines.
`TCPSensor` adds the goroutines that close the listener and the sockets when the
context is cancelled, and the deferred shutdown in its order: listener, wait
for the handlers, logger. Its start-up (the address, Listen, the logger: tcp.go:23-42)
can fail before any of this exists and is not modelled.

### DockerSensor

`handle` works under one mutex, so each request is one step. `Find` resolves a
reference by identifier, name or abbreviated identifier and gives up when it is
ambiguous; a name may look like an abbreviated identifier.

### Workloads

One Deployment, its ReplicaSets (one per template), their pods, a Service with its
Endpoints and EndpointSlice. A controller runs inside the request that calls it;
`pc` is the store call a request is about to make and `job` what it has read so
far, so that any two requests interleave between any two store calls.
`materializeDeployment` is `RsGet` to `StatusPut`, `materializePods` of a ReplicaSet
shares `PodList`, `PodDrop` and `PodAdd` with it, `reapOwnedPods` is `ReapList` to
`ReapRS`, `respawnDeletedPod` is `RespawnRS` and `RespawnDeployment`. A put
may be refused at any moment because other objects, the Event objects of the
controllers among them, fill the store. The two controllers name the pods of one
ReplicaSet differently, and so does the model. The controllers read one list page (100
objects or 1 MiB of a namespace) and never the next: `Visible` is the room it has for the
pods of this Deployment, in `OwnedPods`, and `VisibleSets` the room for its ReplicaSets,
in `ListedSets`, which is what the next revision, the retiring of old ReplicaSets and the
cascade go by. The Services are read from one page too, and the model has one Service.
`Emit` is the loop of `emitWorkloadEvents`, which names a pod and puts an Event for each
of the replicas a ReplicaSet asks for, not only for the 64 it is granted; beyond
`MaxNames` the process is out of memory and nothing goes on (`Running`), or `make` panics
and `recoverPanics` answers. The Events are otherwise left out. `clean` and `calm` are history variables: what a
controller promises it can only promise while nobody interferes, and they say when
that was the case. StatefulSets, DaemonSets and Jobs go through `materializePods`
like a ReplicaSet and are not modelled apart.

### HTTPSensor and AIGateway

The main goroutine goes from `Dispatch` through the start-up steps of its mode
(`Startup` gives each mode's order) to `Go`, serves, and unwinds its deferred closes.
Each step may fail; what is closed then is what the code closes itself and what it
had deferred so far. The goroutine that shuts the server down wakes on cancellation,
stops the listener, waits for busy connections until its time is up, and closes the
rest. The differences between the modes are in the guards: the AI sensor waits for
that goroutine if the context is over when it looks, echo (the Kubernetes, HTTP and
kubelet sensors) always waits, the Docker sensor never does; the UDP sensor has no
server and polls the context. `http.Server` and echo are external and modelled from
their documented behaviour as the code uses it. A handler of the AI sensor is taken
apart into admission (session budget, context, work slot), the decision, the release
of the slot and the answer (500 in place of one that is too large), in the order of the
two deferred functions, and the event. `AIGateway` writes the chains of early returns as sequences of a condition and
a status, of which the first that applies counts.

### APIRequests, JSONPatch, Configuration, ClientAddress, Inputs

`APIRequests` turns a path and a method into an operation on a key (`Serve`,
`ResourcePath`, `Subresource`), checks it as create, update, patch, delete and
deleteCollection do, and leaves a handler with the store calls it still has to make,
which interleave with other handlers'. A refused request changes nothing and is no
step. `walk` is one client that reads a list page by page: `ListCheck` reads the
revision and compares the token, `ListPage` reads the objects in a critical section of
its own; `torn` remembers that the store changed between the two. Objects are their
metadata, `shape` is the verdict of validateObjectShape, and a few resources stand for
the catalogue.

`JSONPatch` keeps the maps of a document in a heap, because the code edits them in
place and a copy makes two members the same map. `ApplyJSONPatch` is the code,
`RFCPatch` the RFC on plain values; likewise `MergeObject` and `RFCMerge`.

In `Configuration` a text is an identity, a length and whether it is well formed;
`NewConfig` is the whole path from file and environment to an accepted configuration
and `SensitiveValues` and `Redacted` what becomes of its secrets. `RedactionRoom`
assumes of the limits what the constants of the code satisfy (320 = 64 + 256 values,
and 16 KiB for both). `ClientAddress` is the search for the last hop no trusted proxy
accounts for.

These are checked together by `MCRequests`: a behaviour either runs requests, or
is one input of one of the algorithms (`task`, declared in `Inputs` with the two
properties of it that are proved).

## What TLC checks

| Run | Expected | Shows |
| --- | --- | --- |
| `store` | pass | `StoredWithinLimits`, `RevisionsNameWrites`, `NoChannelPanic`, `WatchSlotsBalanced`, `WatchViewConverges`, `EveryChangeMovesRevision` |
| `store_replay` | violation | `ReplayIsComplete`: the replay stops after one page |
| `pipeline` | pass | `LossIsCounted`, `SinkOrderIsLocalOrder`, `FewCopies`, `HandlersNeverBlock`, `NothingLeftOpen`, `CloseReturns` |
| `listener` | pass | `SlotsAccounted`, `ReleaseNeverBlocks`, `ImplementsLimit`, `CloseUnblocksAccept` |
| `tcp` | pass | `SlotsMatchHandlers`, `EveryConnectionRecorded`, `ImplementsLimit`, `CancelReturns` |
| `docker` | pass | `CapacityAccounted`, `ExecsBelong`, `NamesUnique`, `ExecsFollowContainers` |
| `workloads` | pass | `MaterializeConverges`, `RequestsAnswered`, with overlapping requests |
| `workloads_alone` | pass | `CascadeIsComplete`, `RevisionsDistinct`, `EndpointsFollowCreate`, one request after another |
| `workloads_page` | violation | `CascadeIsComplete`: pods beyond one list page survive their Deployment |
| `sensors` | pass | `DrainKeepsEvents`, `AnswersWithinBudget`, `NothingLeftOpen`, `CancelReturns`, in six modes |
| `requests` | pass | `StoredIsAddressable`, `PagesAgree`, `PatchAgreesWithRFC`, `HoneytokensRedacted`, `ClientAddressUnforged` |
| `sink_redaction` | violation | `SinkCredentialsRedacted`: a sink without a password hides the credentials after it |

`store` and `pipeline` check the `TypeOK` of their modules as well.

Bounds. `store`: two keys and two contents of sizes 2 and 3 with 5 bytes in all,
so that replacing and adding both meet the limit; two watches for one slot;
channels of two events and five writes, enough to fill a channel, evict its
watch and go on writing; one request between its read and its write.
`pipeline`: three events, one of them a batch by itself, a queue of one (it
overflows), batches of two, two attempts, one remote and one file sink, so that
closing one sink while the other is still open is seen. `listener` and `tcp`:
three connections for two slots, so that somebody waits. `docker`: the seed
container and room for one more, three bytes, two exec instances.
`workloads`: two handlers and three requests, a Deployment and then two that race;
counts of one and of one more than the controllers grant and than there is memory to
name, two templates so that one ReplicaSet is old, pages with room for all.
`workloads_alone`: four requests, three templates whose ReplicaSets fill a page,
negative counts, none, one and more than are granted, memory to name them all, and a
refused put. `workloads_page`: a page with room for one of two pods. `sensors`: two connections for one work slot, a session budget of one
and two requests on a connection, so that a slot is refused and a budget exceeded; for
each path a flawless request and each of its single flaws. `requests`: every path of
up to five segments after the core group, two handlers and two writes, one generated
name; a list of three pods and more against one write, pages of two items or four
bytes where one object takes three; all patches of at most two operations on four
documents with nested objects and arrays; configurations with up to two tokens and four
honeytoken values of every length, in file and environment, under limits scaled down
so that their relations stay (five values and five bytes in all, two for tokens and
three for honeytokens), and single flaws; up to three hops of proxies and clients with
a forged header before them. `sink_redaction`: room for every credential, so that only
the early end of the collection can leave one out.
Everything bounded there only to keep TLC finite, `MaxRevision` and the sets of
handlers, connections and identifiers, is arbitrary in the proofs.

Fairness. Goroutines that can go on do (weak fairness of their steps). In
`EventPipeline` a send ends because the HTTP client has a timeout, and nobody is
obliged to log or to call Close. In `CappedListener` the wrapped Accept is
obliged to return only once the wrapped listener is closed. In `TCPSensor` Read
returns because of its deadline; clients and cancellations are never owed.
In `Workloads` a handler that can make its next
store call does, as long as the process has memory; clients owe nothing.
In `HTTPSensor` the main goroutine and the one that shuts the server down run;
handlers and clients owe nothing, since the shutdown has a time limit.
`ObjectStore`, `DockerSensor` and `APIRequests` claim no liveness and state none. The
runs `sensors` and `requests` do not look for deadlocks: a process that has returned,
or a list that is over, takes no further step.

## What TLAPS proves

For every value of the constants that the ASSUMEs allow:

* `ObjectStoreProofs`: `TypeCorrect`, `NeverPanics`, `RevisionsUnique`,
  `RevisionMoves`, `SlotsBalanced`, `WatchesConverge`. No panic is inductive only
  together with `Registered`: a registered watch has an open channel. Convergence
  is inductive given these two: the watch registers before it replays, so from
  then on a key it has not been told of either waits in its replay or has an
  event in its buffer, and storing an object and sending its event are one step.
  `StoreWithinLimits` has one hypothesis, `ClonesKeepSize`: what `put` measures is as
  long as the clone it stores. The code breaks it only for numbers a float64 does
  not hold, and there the account does drift (see below). Its invariant
  `StoreAccount` says that `storedBytes` is the sum over the stored keys.
* `EventPipelineProofs`: `TypeCorrect`, `NoSilentLoss`, `AllReleased`. Loss
  accounting by itself is not inductive: a handler between its load of the
  closed flag and its send could meet a goroutine that has exited. The invariant
  adds that such a handler holds `l.mu` and that no sink is closed while sinks
  are attached or the lock is held by a fan-out (`HandlerHoldsLock`,
  `ClosedInOrder`). `OrderKept` and `CopiesAreFew` rest on a second invariant,
  `Streams`: acknowledged, batch and queue of a sink follow each other in the
  order of the local output, an event being fanned out is the last local line
  and has not yet come to the sinks ahead of it, and what was never sent has no
  copy. `HolderNeverWaits` is the part of `HandlersNeverBlock` that can be said
  without ENABLED: who holds `l.mu` is at a statement that waits for nobody.
* `CappedListenerProofs`: `SlotsNeverLeak`, `ReleaseFindsSlot`, and `RefinesLimit`,
  which shows step by step that the listener implements `ConnectionLimit`. Both
  need that only accepted connections are being closed or have been released.
* `TCPSensorProofs`: `SlotsNeverLeak`, `AllRecorded`, `RefinesLimit`. The invariant
  is the accounting of slots, one record per finished handler, and the order of
  the shutdown: the logger is closed only after the last handler is gone and
  the listener is closed from the shutdown on.
* `DockerSensorProofs`: `ExecsNeverDangle`, `NamesStayUnique`,
  `ExecsGoWithContainers`, from types, ownership and names together and a lemma
  that `Find` returns a container that is present; `CapacityHolds`, from the byte
  account as a sum. It needs room for the seed container, `MaxContainers` at least
  one, where the code has 128.
* `FrontEndProofs`, of `HTTPSensor`: `TypeCorrect`, `AllClosed`, `EventsKept`, `WithinBudget`, in every
  mode and for any number of connections. What is open must be found again by
  the deferred closes, so `OpenIsDeferred` ties listener and logger to the start-up
  steps still to do and the closes registered so far, with the gap between Listen
  and the deferred close that the failing step closes itself. That the logger
  outlives the handlers needs to know where the shutdown goroutine can be for
  each place of the main goroutine (`WatcherFollowsMain`) and that connections are
  settled once it has ended in time (`SettledAfterDrain`). The budget needs slots to
  be exactly the handlers at work (`SlotsAndBudget`).
* `FrontEndProofs`, of `APIRequests`: `PagesOfOneRevision`, from `APISpec`, in which any
  number of handlers write while a client lists. The invariant says that what was
  read is a prefix of what was promised (`PrefixRead`), that the revision a list
  remembers is one the store has had (`RevisionsKnown`), and that while the store is
  still at that revision it holds what was promised, for every selection the
  token was made for (`PromiseStands`). It needs that every change of the store moves the
  revision, which is what makes the comparison of revisions in parseContinue enough.
  `ObjectsStayAddressable`: `StoredIsAddressable` for any paths, bodies and handlers. A
  handler checks a request and makes its store calls later, so the invariant
  `StoreSound` covers the calls still to be made as well as what is stored: both have a
  key of the catalogue (`Addressable`) and an object with the key's name. Only create
  makes new keys, and `RoutesThatCreate` shows that whatever path leads to it names a
  resource in its scope and a namespace that is a clean segment; that an addressable
  key is found under its own path is `CanonicalRoute`. Assumed: request paths are
  sequences (`PathsAreSequences`), generated names pass the check of nextName and
  the empty name, dots and names with a slash are no DNS subdomains
  (`NamesAreChecked`), and the seeds are of the catalogue (`SeedsAddressable`).
* `FrontEndProofs`, of `Configuration`: `AcceptedIsRedacted`, from
  `HoneytokensAlwaysCovered` about a file and an environment that have the types of the
  Go structures (`FileTyped`, `EnvTyped`) and are otherwise arbitrary. Types survive the
  overlay, the environment and normalize; validation bounds the number and the bytes
  of tokens and honeytokens, so under `RedactionRoom` and `LimitsAreNumbers` none of
  the bounded collections (`K8SSensitive`, `MergeSensitive`, `Redacted`) leaves one out:
  at every position the running total stays below the limit (`AllKept`,
  `AllCollected`), and the values of the sinks come after them (`BaseComesFirst`).
* `FrontEndProofs`, of `ClientAddress`: `ForgedIsNeverTaken`, from `AddressUnforged`. A
  header before the others puts its hops before theirs (`HopsFirst`), and the search
  from the right meets the same hop, shifted (`SearchFromRight`).
  Both, and the cleaning of paths, fold over sequences. What a fold computes is
  shown without induction over data: a fold is the last of its intermediate results
  (`FoldExists`, `IterRuns`), and what holds of them follows from a least
  counterexample among numbers (`UpTo`).
* `WorkloadsProofs`: `TypeCorrect` for all behaviours; `RevisionsAreDistinct` for those
  whose ReplicaSets always fit on the page `listPage` returns (`[]SetsFit`);
  `Converges`, `EndpointsFollow` and `CascadeComplete` for those whose pods do as well
  (`[]OnOnePage`; `EndpointsFollow` needs the pods only, but shares the invariant). The
  hypotheses are the code's, not the proof's: `ownedPodNames` and
  `deploymentReplicaSets` read one page of 100. Without the one `workloads_page` shows
  `CascadeIsComplete` violated; without the other TLC finds `RevisionsDistinct` violated
  in `workloads_alone` with `VisibleSets` 1, and `CascadeIsComplete` with 2. The
  invariants give every label of a handler what it may rely on there: `Shapes`, what
  its job holds whatever the others do; `Undisturbed`, what the store holds if nobody
  interfered; `OneByOne` and `PodsOwned`, what it holds if requests come one after
  another, whether or not puts were refused. Each is shown once for one step of one
  handler and once for the handlers that do not move.
* `Sums`: a sum over a finite set, defined as `MapThenSumSet` defines it, does not
  depend on the order of its elements. The argument is a least counterexample among
  the subsets, which replaces the induction over finite sets.

The inductive invariants of `HTTPSensor` and `Workloads`, `Streams` and `StoreSound` were
model-checked on the constants of the runs before they were proved.

Only model-checked: the liveness properties, and `HandlersNeverBlock`, which speaks of
ENABLED; `PatchAgreesWithRFC`, since the definitions of `JSONPatch` are recursive.

## Where code and documentation disagree

* The replay of a watch sends one list page (100 objects or 1 MiB) and drops the
  rest; the README and the comment above it promise the existing objects.
* A sink without a token or a password (a file sink is one) ends the collection of
  redacted values: its headers and the credentials of later sinks are not redacted,
  where the README says that they are.
* `ownedPodNames` reads one page of the namespace's pods, so deleting a workload in a
  namespace with more than 100 pods leaves some of its own, where the head of
  `controller.go` promises cascading delete semantics. deleteCollection calls no
  controller at all, and requests that overlap can leave pods without a ReplicaSet
  too; `CascadeIsComplete` excludes both.

Seen while modelling, without a run of their own:

* The store adds the length of what it is given and subtracts the length of its
  clone. The clone passes numbers through float64, and an integer of a YAML body
  above 2^53 can come out longer, so the account shrinks with every write and
  delete of it and the 32 MiB limit stops binding.
* `nextDeploymentRevision` counts the ReplicaSets on one page, so that every rollout
  past a page gets the same revision, where its comment says that "each new template
  bumps the revision"; old ReplicaSets off the page are neither scaled down by a
  rollout nor reaped with their Deployment.
* `emitWorkloadEvents` allocates and loops over `spec.replicas` itself, where pods are
  capped at `maxControllerPods`; `RequestsAnswered` excepts a process that has run out
  of memory there.
* The final drain of a remote sink has no batch limit, where the README gives 64
  events or 256 KiB.
* A list page may be torn: a write between the check of the token and the page gives
  a page of another revision than it names. `PagesAgree` excepts such lists.
* In a JSON patch, replace inserts into an array, and after a copy two members are
  one map, so that later operations edit both; `PatchAgrees` excepts these, and
  speaks of patches that the code and the RFC both accept (the code refuses some,
  such as test of an array element, and creates missing parents in others). A merge
  patch keeps null members of objects it adds, where RFC 7386 drops them.
* A patch may change metadata.namespace, and a list takes an invalid label selector
  for none, where deleteCollection refuses it.
* The Docker sensor closes its logger while handlers still answer; every sensor does
  when its shutdown runs out of time, and the AI sensor when Accept fails by itself.
* A token of the AI sensor is redacted in every mode but only validated in its own; a
  long one displaces honeytoken values. `HoneytokensCovered` excepts it.

## Plan

1. `ObjectStore`, `EventPipeline`, `CappedListener` with `ConnectionLimit`,
   `TCPSensor`, `DockerSensor`, their runs and their safety theorems: done.
2. `Workloads`: modelled, checked and proved: done.
3. `APIRequests`, `JSONPatch`, `Configuration`, `ClientAddress`, `AIGateway` and
   `HTTPSensor` with their runs: done. `HTTPSensor` is proved.
4. Sums, order and copies: `StoredWithinLimits`, `CapacityAccounted`,
   `SinkOrderIsLocalOrder`, `FewCopies`: proved. `PagesAgree`: proved.
5. `StoredIsAddressable`, `HoneytokensRedacted`, `ClientAddressUnforged`: proved.

## Not modelled

* The generated contents: seeds, replies of the AI sensor, kubelet documents,
  discovery, metrics, logs, tables. They are functions of their request and change
  nothing.
* Decoding of bodies (JSON, YAML, protobuf) and validateObjectShape: string and tree
  functions of one request whose verdict is an input of `APIRequests`.
* Cleaning of paths, methods and user agents and the text format of events: string
  functions of one event.
* The download of OpenAPI schemas (one request before the listener opens), TLS
  certificates (library calls), the disabled defence (a stub).
* StatefulSets, DaemonSets and Jobs apart from the path they share with ReplicaSets.
