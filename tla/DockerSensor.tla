---------------------------- MODULE DockerSensor ----------------------------
(***************************************************************************)
(* The simulated Docker host of honeypots/docker/docker.go: containers,    *)
(* exec instances and the byte account, all under one mutex, so that each  *)
(* request that changes them is one step. Requests that only read, and the *)
(* ones that are refused, change nothing.                                  *)
(***************************************************************************)
EXTENDS Integers, FiniteSets, FiniteSetsExt

CONSTANTS
    Ids,              \* identifiers of containers
    ExecIds,          \* identifiers of exec instances
    Names,            \* names a container may have
    Abbreviates,      \* Abbreviates[n]: the identifiers n is a prefix of, 12 digits or more
    Sizes,            \* lengths of create bodies
    SeedId, SeedName, \* the container "web" the host starts with
    MaxContainers, MaxStoreBytes, MaxExecs,
    None              \* stands for "no such record"

Container == [name : Names, state : {"created", "running", "exited"}, size : Sizes \cup {0}]

ASSUME DockerConstants ==
    /\ Abbreviates \in [Names -> SUBSET Ids]
    /\ Sizes \subseteq Nat
    /\ SeedId \in Ids /\ SeedName \in Names
    /\ IsFiniteSet(Ids)
    /\ MaxContainers \in Nat \ {0} /\ MaxStoreBytes \in Nat /\ MaxExecs \in Nat
    /\ None \notin Container /\ None \notin Ids

VARIABLES
    containers,   \* the container of each identifier, or None
    execs,        \* the container each exec instance belongs to, or None
    bytes         \* the sum of the create bodies kept

vars == <<containers, execs, bytes>>

Present == {i \in Ids : containers[i] # None}
Execs == {x \in ExecIds : execs[x] # None}

\* The state the host starts with; the seed container counts no bytes.
Init ==
    /\ containers = [i \in Ids |->
            IF i = SeedId THEN [name |-> SeedName, state |-> "running", size |-> 0]
            ELSE None]
    /\ execs = [x \in ExecIds |-> None]
    /\ bytes = 0

----------------------------------------------------------------------------
(* find: what the reference in a path stands for. A whole identifier goes  *)
(* first; otherwise a name or an abbreviated identifier, if exactly one    *)
(* container answers to it.                                                *)

Answering(n) == {i \in Present : containers[i].name = n \/ i \in Abbreviates[n]}

Find(ref) ==
    IF ref \in Present THEN ref
    ELSE IF ref \in Names /\ Cardinality(Answering(ref)) = 1
         THEN CHOOSE i \in Present : Answering(ref) = {i}
         ELSE None

----------------------------------------------------------------------------
(* The cases of handle that change something.                              *)

\* Mutant: names are not compared.
CreateAnyName(i, n, size) ==
    /\ i \notin Present
    /\ Cardinality(Present) < MaxContainers
    /\ bytes + size <= MaxStoreBytes
    /\ containers' = [containers EXCEPT ![i] = [name |-> n, state |-> "created", size |-> size]]
    /\ bytes' = bytes + size
    /\ UNCHANGED execs

\* Mutant: the capacity is compared before the new body is added.
CreateOverBytes(i, n, size) ==
    /\ i \notin Present
    /\ Cardinality(Present) < MaxContainers
    /\ bytes <= MaxStoreBytes
    /\ \A j \in Present : containers[j].name # n
    /\ containers' = [containers EXCEPT ![i] = [name |-> n, state |-> "created", size |-> size]]
    /\ bytes' = bytes + size
    /\ UNCHANGED execs

\* The image is given, there is room, the random identifier is new and the
\* name, asked for or made from the identifier, is free.
Create(i, n, size) ==
    /\ i \notin Present
    /\ Cardinality(Present) < MaxContainers
    /\ bytes + size <= MaxStoreBytes
    /\ \A j \in Present : containers[j].name # n
    /\ containers' = [containers EXCEPT ![i] = [name |-> n, state |-> "created", size |-> size]]
    /\ bytes' = bytes + size
    /\ UNCHANGED execs

\* Mutant: the exec instances stay.
DeleteKeepsExecs(ref, force) ==
    LET i == Find(ref)
    IN /\ i # None
       /\ containers[i].state = "running" => force
       /\ containers' = [containers EXCEPT ![i] = None]
       /\ bytes' = bytes - containers[i].size
       /\ UNCHANGED execs

\* Mutant: every exec instance goes.
DeleteAllExecs(ref, force) ==
    LET i == Find(ref)
    IN /\ i # None
       /\ containers[i].state = "running" => force
       /\ containers' = [containers EXCEPT ![i] = None]
       /\ bytes' = bytes - containers[i].size
       /\ execs' = [x \in ExecIds |-> None]

\* A running container needs force; its exec instances go with it.
Delete(ref, force) ==
    LET i == Find(ref)
    IN /\ i # None
       /\ containers[i].state = "running" => force
       /\ containers' = [containers EXCEPT ![i] = None]
       /\ bytes' = bytes - containers[i].size
       /\ execs' = [x \in ExecIds |-> IF execs[x] = i THEN None ELSE execs[x]]

\* start and restart run the container, stop and kill end it, from any state.
SetState(ref, verb) ==
    LET i == Find(ref)
    IN /\ i # None
       /\ containers' = [containers EXCEPT ![i].state =
                            IF verb \in {"stop", "kill"} THEN "exited" ELSE "running"]
       /\ UNCHANGED <<execs, bytes>>

ExecCreate(ref, x) ==
    LET i == Find(ref)
    IN /\ i # None
       /\ containers[i].state = "running"
       /\ Cardinality(Execs) < MaxExecs
       /\ x \notin Execs
       /\ execs' = [execs EXCEPT ![x] = i]
       /\ UNCHANGED <<containers, bytes>>

----------------------------------------------------------------------------

Refs == Ids \cup Names

Next ==
    \/ \E i \in Ids, n \in Names, size \in Sizes : Create(i, n, size)
    \/ \E ref \in Refs, force \in BOOLEAN : Delete(ref, force)
    \/ \E ref \in Refs, verb \in {"start", "restart", "stop", "kill"} : SetState(ref, verb)
    \/ \E ref \in Refs, x \in ExecIds : ExecCreate(ref, x)

Spec == Init /\ [][Next]_vars

----------------------------------------------------------------------------
(* Properties.                                                             *)

\* The shape of the state.
TypeOK ==
    /\ containers \in [Ids -> Container \cup {None}]
    /\ execs \in [ExecIds -> Ids \cup {None}]
    /\ bytes \in Int

\* The capacities hold after any sequence of requests, and the byte account
\* is what the containers present brought: a long life of creations and
\* deletions never uses capacity up, nor frees more than it took.
CapacityAccounted ==
    LET SizeOf(i) == containers[i].size
    IN /\ Cardinality(Present) <= MaxContainers
       /\ Cardinality(Execs) <= MaxExecs
       /\ bytes = MapThenSumSet(SizeOf, Present)
       /\ bytes <= MaxStoreBytes

\* "Deleting a container frees its records and related exec instances"
\* (readme.md): no exec instance names a container that is gone.
ExecsBelong == \A x \in Execs : execs[x] \in Present

\* Two containers never share a name, so that find, which gives up on an
\* ambiguous reference, can reach each of them.
NamesUnique ==
    \A i, j \in Present : containers[i].name = containers[j].name => i = j

\* An exec instance keeps its container for life and goes exactly when that
\* container does, however the container was named in the request.
ExecsFollowContainers ==
    [][ \A x \in Execs : \/ execs'[x] = execs[x]
                         \/ execs'[x] = None /\ containers'[execs[x]] = None ]_vars
=============================================================================
