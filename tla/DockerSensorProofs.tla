------------------------- MODULE DockerSensorProofs -------------------------
(***************************************************************************)
(* Theorems about DockerSensor, for every set of identifiers and names and *)
(* every capacity.                                                         *)
(***************************************************************************)
EXTENDS DockerSensor, Sums

\* find returns a container that is present, or nothing.
LEMMA FindsPresent ==
  ASSUME NEW ref, Find(ref) # None
  PROVE  Find(ref) \in Present
<1>1. CASE ref \in Present
  BY <1>1 DEF Find
<1>2. CASE ref \notin Present
  <2>1. Cardinality(Answering(ref)) = 1
        /\ Find(ref) = CHOOSE i \in Present : Answering(ref) = {i}
    BY <1>2 DEF Find
  <2>2. Answering(ref) \subseteq Present /\ IsFiniteSet(Answering(ref))
    <3>1. Answering(ref) \subseteq Ids
      BY DEF Answering, Present
    <3> QED
      BY <3>1, FS_Subset, DockerConstants DEF Answering
  <2>3. \E i \in Present : Answering(ref) = {i}
    BY <2>1, <2>2, FS_Singleton
  <2> QED
    BY <2>1, <2>3
<1> QED
  BY <1>1, <1>2

\* The inductive invariant: the records of containers and exec instances agree.
Invariant == TypeOK /\ ExecsBelong /\ NamesUnique

\* The seeded host satisfies the invariant.
LEMMA InitInvariant == Init => Invariant
<1> SUFFICES ASSUME Init PROVE Invariant
  OBVIOUS
<1>1. [name |-> SeedName, state |-> "running", size |-> 0] \in Container
  BY DockerConstants DEF Container
<1>2. TypeOK
  BY <1>1 DEF Init, TypeOK
<1>3. ExecsBelong
  BY DEF Init, ExecsBelong, Execs
<1>4. NamesUnique
  BY DEF Init, NamesUnique, Present
<1> QED
  BY <1>2, <1>3, <1>4 DEF Invariant

\* Every request that changes the host keeps the records consistent.
LEMMA StepInvariant ==
  ASSUME TypeOK, ExecsBelong, NamesUnique, [Next]_vars
  PROVE  Invariant'
<1>0. None \notin Container /\ None \notin Ids /\ Sizes \subseteq Nat
  BY DockerConstants
<1>1. ASSUME NEW i \in Ids, NEW n \in Names, NEW size \in Sizes, Create(i, n, size)
      PROVE  Invariant'
  <2> DEFINE new == [name |-> n, state |-> "created", size |-> size]
  <2>1. new \in Container /\ new # None /\ new.name = n
    BY <1>0 DEF Container
  <2>2. containers' = [containers EXCEPT ![i] = new] /\ execs' = execs /\ bytes' = bytes + size
    BY <1>1 DEF Create
  <2> HIDE DEF new
  <2>3. TypeOK'
    BY <1>0, <2>1, <2>2 DEF TypeOK
  <2>4. Present' = Present \cup {i}
    BY <2>1, <2>2 DEF Present, TypeOK
  <2>5. ExecsBelong'
    BY <2>2, <2>4 DEF ExecsBelong, Execs
  <2>6. \A j \in Present : j # i /\ containers'[j] = containers[j] /\ containers[j].name # n
    BY <1>1, <2>2 DEF Create, Present, TypeOK
  <2>7. containers'[i].name = n
    BY <2>1, <2>2 DEF TypeOK
  <2>8. NamesUnique'
    BY <2>4, <2>6, <2>7 DEF NamesUnique
  <2> QED
    BY <2>3, <2>5, <2>8 DEF Invariant
<1>2. ASSUME NEW ref \in Refs, NEW force \in BOOLEAN, Delete(ref, force)
      PROVE  Invariant'
  <2> DEFINE i == Find(ref)
  <2>1. i \in Present /\ i \in Ids
    BY <1>2, FindsPresent DEF Delete, Present
  <2>2. /\ containers' = [containers EXCEPT ![i] = None]
        /\ bytes' = bytes - containers[i].size
        /\ execs' = [x \in ExecIds |-> IF execs[x] = i THEN None ELSE execs[x]]
    BY <1>2 DEF Delete
  <2> HIDE DEF i
  <2>3. containers[i].size \in Nat
    <3>1. containers[i] \in Container
      BY <2>1 DEF TypeOK, Present
    <3>2. containers[i].size \in Sizes \cup {0}
      BY <3>1 DEF Container
    <3>3. \A n \in Sizes \cup {0} : n \in Nat
      BY <1>0
    <3> QED
      BY <3>2, <3>3
  <2>4. TypeOK'
    BY <2>1, <2>2, <2>3 DEF TypeOK
  <2>5. Present' = Present \ {i}
    BY <2>2 DEF Present, TypeOK
  <2>6. \A x \in Execs' : x \in Execs /\ execs'[x] = execs[x] /\ execs[x] # i
    BY <2>2 DEF Execs
  <2>7. ExecsBelong'
    BY <2>5, <2>6 DEF ExecsBelong
  <2>8. NamesUnique'
    BY <2>2, <2>5 DEF NamesUnique, Present, TypeOK
  <2> QED
    BY <2>4, <2>7, <2>8 DEF Invariant
<1>3. ASSUME NEW ref \in Refs, NEW verb, SetState(ref, verb)
      PROVE  Invariant'
  <2> DEFINE i == Find(ref)
             st == IF verb \in {"stop", "kill"} THEN "exited" ELSE "running"
             new == [containers[i] EXCEPT !.state = st]
  <2>1. i \in Present /\ i \in Ids
    BY <1>3, FindsPresent DEF SetState, Present
  <2>2. containers' = [containers EXCEPT ![i] = new] /\ execs' = execs /\ bytes' = bytes
    BY <1>3 DEF SetState
  <2>3. containers[i] \in Container
    BY <2>1 DEF TypeOK, Present
  <2>4. new \in Container /\ new.name = containers[i].name
    BY <2>3 DEF Container
  <2> HIDE DEF i, st, new
  <2>5. TypeOK'
    BY <2>1, <2>2, <2>4 DEF TypeOK
  <2>6. Present' = Present /\ \A j \in Present : containers'[j].name = containers[j].name
    BY <1>0, <2>1, <2>2, <2>4 DEF Present, TypeOK
  <2>7. ExecsBelong' /\ NamesUnique'
    BY <2>2, <2>6 DEF ExecsBelong, NamesUnique, Execs
  <2> QED
    BY <2>5, <2>7 DEF Invariant
<1>4. ASSUME NEW ref \in Refs, NEW x \in ExecIds, ExecCreate(ref, x)
      PROVE  Invariant'
  <2>1. Find(ref) \in Present /\ Find(ref) \in Ids
    BY <1>4, FindsPresent DEF ExecCreate, Present
  <2>2. TypeOK'
    BY <1>4, <2>1 DEF ExecCreate, TypeOK
  <2>3. Present' = Present
    BY <1>4 DEF ExecCreate, Present
  <2>4. ExecsBelong'
    BY <1>4, <2>1, <2>3 DEF ExecCreate, ExecsBelong, Execs, TypeOK
  <2>5. NamesUnique'
    BY <1>4, <2>3 DEF ExecCreate, NamesUnique
  <2> QED
    BY <2>2, <2>4, <2>5 DEF Invariant
<1>5. CASE UNCHANGED vars
  BY <1>5 DEF vars, Invariant, TypeOK, ExecsBelong, NamesUnique, Present, Execs
<1> QED
  BY <1>1, <1>2, <1>3, <1>4, <1>5 DEF Next

\* The invariant holds in every behaviour.
THEOREM Inductive == Spec => []Invariant
<1>1. Invariant /\ [Next]_vars => Invariant'
  BY StepInvariant DEF Invariant
<1> QED
  BY <1>1, InitInvariant, PTL DEF Spec

\* No exec instance outlives its container.
THEOREM ExecsNeverDangle == Spec => []ExecsBelong
<1>1. Invariant => ExecsBelong
  BY DEF Invariant
<1> QED
  BY <1>1, Inductive, PTL

\* No two containers share a name.
THEOREM NamesStayUnique == Spec => []NamesUnique
<1>1. Invariant => NamesUnique
  BY DEF Invariant
<1> QED
  BY <1>1, Inductive, PTL

\* An exec instance goes exactly when its container does.
THEOREM ExecsGoWithContainers == Spec => ExecsFollowContainers
<1>1. ASSUME Invariant, [Next]_vars, NEW x \in Execs
      PROVE  execs'[x] = execs[x] \/ (execs'[x] = None /\ containers'[execs[x]] = None)
  <2>0. TypeOK /\ x \in ExecIds /\ execs[x] \in Ids
    BY <1>1 DEF Invariant, TypeOK, Execs
  <2>1. ASSUME NEW ref \in Refs, NEW force \in BOOLEAN, Delete(ref, force)
        PROVE  execs'[x] = execs[x] \/ (execs'[x] = None /\ containers'[execs[x]] = None)
    BY <2>0, <2>1 DEF Delete, TypeOK
  <2>2. ASSUME NEW ref \in Refs, NEW y \in ExecIds, ExecCreate(ref, y)
        PROVE  execs'[x] = execs[x]
    BY <1>1, <2>0, <2>2 DEF ExecCreate, TypeOK
  <2>3. ASSUME \/ \E i \in Ids, n \in Names, size \in Sizes : Create(i, n, size)
               \/ \E ref \in Refs, verb \in {"start", "restart", "stop", "kill"} :
                      SetState(ref, verb)
               \/ UNCHANGED vars
        PROVE  execs' = execs
    BY <2>3 DEF Create, SetState, vars
  <2> QED
    BY <1>1, <2>1, <2>2, <2>3 DEF Next
<1>2. Invariant /\ [Next]_vars =>
        [ \A x \in Execs : \/ execs'[x] = execs[x]
                           \/ execs'[x] = None /\ containers'[execs[x]] = None ]_vars
  BY <1>1
<1> QED
  BY <1>2, Inductive, PTL DEF Spec, ExecsFollowContainers

----------------------------------------------------------------------------
(* The capacities.                                                         *)

\* What each container brought to the byte account.
Brought == [i \in Ids |-> containers[i].size]

\* The inductive invariant of the account: the limits, and the bytes as a sum
\* over the containers present.
Account ==
    /\ Cardinality(Present) <= MaxContainers
    /\ IsFiniteSet(Execs) /\ Cardinality(Execs) <= MaxExecs
    /\ bytes = Total(Brought, Present)
    /\ bytes <= MaxStoreBytes

\* What is present is finite and its sizes are natural numbers.
LEMMA PresentSizes ==
  ASSUME TypeOK
  PROVE  /\ IsFiniteSet(Present)
         /\ \A i \in Present : i \in Ids /\ Brought[i] = containers[i].size /\ Brought[i] \in Nat
<1>1. Present \subseteq Ids
  BY DEF Present
<1>2. IsFiniteSet(Present)
  BY <1>1, FS_Subset, DockerConstants
<1>3. ASSUME NEW i \in Present
      PROVE  i \in Ids /\ Brought[i] = containers[i].size /\ Brought[i] \in Nat
  <2>1. containers[i] \in Container /\ i \in Ids
    BY DEF TypeOK, Present
  <2>2. containers[i].size \in Sizes \cup {0}
    BY <2>1 DEF Container
  <2>3. \A n \in Sizes \cup {0} : n \in Nat
    BY DockerConstants
  <2>4. Brought[i] = containers[i].size
    BY <2>1 DEF Brought
  <2> QED
    BY <2>1, <2>2, <2>3, <2>4
<1> QED
  BY <1>2, <1>3

\* The seeded host is within every limit and owes nothing.
LEMMA InitAccount == Init => Account
<1> SUFFICES ASSUME Init PROVE Account
  OBVIOUS
<1>1. Present = {SeedId} /\ Execs = {}
  BY DockerConstants DEF Init, Present, Execs, Container
<1>2. TypeOK
  BY InitInvariant DEF Invariant
<1>3. Brought[SeedId] = 0
  BY DockerConstants DEF Init, Brought
<1>4. Total(Brought, {SeedId}) = 0
  <2>1. IsFiniteSet({SeedId}) /\ {SeedId} \ {SeedId} = {}
    BY FS_Singleton
  <2>2. \A x \in {SeedId} : Brought[x] \in Int
    BY <1>3
  <2>3. Total(Brought, {SeedId}) = Brought[SeedId] + Total(Brought, {})
    BY <2>1, <2>2, TotalSteps
  <2>4. Total(Brought, {}) = 0
    BY <2>1, <2>2, TotalSteps
  <2> QED
    BY <1>3, <2>3, <2>4
<1>5. Cardinality({SeedId}) = 1 /\ Cardinality({}) = 0 /\ IsFiniteSet({})
  BY FS_Singleton, FS_EmptySet
<1>6. MaxContainers \in Nat \ {0} /\ MaxStoreBytes \in Nat /\ MaxExecs \in Nat
  BY DockerConstants
<1>7. bytes = 0
  BY DEF Init
<1> QED
  BY <1>1, <1>4, <1>5, <1>6, <1>7 DEF Account

\* Every request keeps the limits and the account.
LEMMA StepAccount ==
  ASSUME Invariant, Invariant', Account, [Next]_vars
  PROVE  Account'
<1> DEFINE f == Brought
           S == Present
<1>0. /\ TypeOK /\ TypeOK' /\ ExecsBelong /\ None \notin Container /\ None \notin Ids
      /\ Sizes \subseteq Nat
      /\ MaxContainers \in Nat /\ MaxStoreBytes \in Nat /\ MaxExecs \in Nat
  BY DockerConstants DEF Invariant
<1>1. /\ IsFiniteSet(S) /\ Cardinality(S) \in Nat
      /\ \A i \in S : i \in Ids /\ f[i] = containers[i].size /\ f[i] \in Nat /\ f[i] \in Int
  BY <1>0, PresentSizes, FS_CardinalityType
<1>2. ASSUME NEW i \in Ids, NEW n \in Names, NEW size \in Sizes, Create(i, n, size)
      PROVE  Account'
  <2> DEFINE new == [name |-> n, state |-> "created", size |-> size]
  <2>1. new \in Container /\ new # None /\ new.size = size /\ size \in Nat
    BY <1>0 DEF Container
  <2>2. /\ containers' = [containers EXCEPT ![i] = new] /\ execs' = execs
        /\ bytes' = bytes + size /\ bytes + size <= MaxStoreBytes
        /\ i \notin S /\ Cardinality(S) < MaxContainers
    BY <1>2 DEF Create
  <2> HIDE DEF new
  <2>3. Present' = S \cup {i}
    BY <1>0, <2>1, <2>2 DEF Present, TypeOK
  <2>4. Cardinality(Present') = Cardinality(S) + 1
    BY <1>1, <2>2, <2>3, FS_AddElement
  <2>5. /\ \A j \in S : Brought'[j] = f[j]
        /\ Brought'[i] = size
    BY <1>0, <1>1, <2>1, <2>2 DEF Brought, TypeOK
  <2>6. Total(Brought', S \cup {i}) = size + Total(f, S)
    <3> DEFINE h == Brought'
    <3>1. \A j \in S : h[j] = f[j] /\ f[j] = h[j]
      BY <2>5
    <3>2. \A j \in S \cup {i} : h[j] \in Int
      BY <1>1, <2>1, <2>5
    <3> HIDE DEF h, f, S
    <3>3. Total(f, S) = Total(h, S)
      BY <1>1, <3>1, TotalSame
    <3>4. Total(h, S \cup {i}) = h[i] + Total(h, S)
      BY <1>1, <2>2, <3>2, TotalAdd
    <3> QED
      BY <2>5, <3>3, <3>4 DEF h
  <2>7. bytes \in Int /\ bytes = Total(f, S)
    BY <1>0 DEF TypeOK, Account
  <2>8. bytes' = Total(Brought', Present')
    BY <2>1, <2>2, <2>3, <2>6, <2>7
  <2>9. Execs' = Execs
    BY <2>2 DEF Execs
  <2> QED
    BY <1>0, <1>1, <2>2, <2>4, <2>8, <2>9 DEF Account
<1>3. ASSUME NEW ref \in Refs, NEW force \in BOOLEAN, Delete(ref, force)
      PROVE  Account'
  <2> DEFINE i == Find(ref)
  <2>1. i \in S /\ i \in Ids
    BY <1>3, FindsPresent DEF Delete, Present
  <2>2. /\ containers' = [containers EXCEPT ![i] = None]
        /\ bytes' = bytes - containers[i].size
        /\ execs' = [x \in ExecIds |-> IF execs[x] = i THEN None ELSE execs[x]]
    BY <1>3 DEF Delete
  <2> HIDE DEF i
  <2>3. Present' = S \ {i}
    BY <2>2 DEF Present, TypeOK, Invariant
  <2>4. \A j \in S \ {i} : Brought'[j] = f[j]
    BY <1>1, <2>2 DEF Brought, TypeOK, Invariant
  <2>5. Total(f, S) = f[i] + Total(Brought', S \ {i})
    <3> DEFINE h == Brought'
    <3>1. \A j \in S \ {i} : h[j] = f[j]
      BY <2>4
    <3>2. IsFiniteSet(S \ {i})
      BY <1>1, FS_RemoveElement
    <3> HIDE DEF h, f, S
    <3>3. Total(h, S \ {i}) = Total(f, S \ {i})
      BY <3>1, <3>2, TotalSame
    <3>4. Total(f, S) = f[i] + Total(f, S \ {i})
      BY <1>1, <2>1, TotalSteps
    <3> QED
      BY <3>3, <3>4 DEF h
  <2>6. Total(Brought', S \ {i}) \in Int
    <3>1. IsFiniteSet(S \ {i})
      BY <1>1, FS_RemoveElement
    <3>2. \A j \in S \ {i} : Brought'[j] \in Int
      BY <1>1, <2>4
    <3> QED
      BY <3>1, <3>2, TotalSteps
  <2>7. f[i] = containers[i].size /\ f[i] \in Nat
    BY <1>1, <2>1
  <2>8. bytes = Total(f, S) /\ bytes \in Int /\ bytes <= MaxStoreBytes
    BY <1>0 DEF Account, TypeOK
  <2>9. bytes' = Total(Brought', Present') /\ bytes' <= MaxStoreBytes
    <3> HIDE DEF f
    <3>1. bytes' = bytes - f[i]
      BY <2>2, <2>7
    <3> QED
      BY <1>0, <2>3, <2>5, <2>6, <2>7, <2>8, <3>1
  <2>10. Cardinality(Present') <= MaxContainers
    <3>1. Cardinality(S \ {i}) = Cardinality(S) - 1
      BY <1>1, <2>1, FS_RemoveElement
    <3> QED
      BY <1>0, <1>1, <2>3, <3>1 DEF Account
  <2>11. Execs' \subseteq Execs
    BY <2>2 DEF Execs
  <2>12. IsFiniteSet(Execs') /\ Cardinality(Execs') <= MaxExecs
    <3>1. IsFiniteSet(Execs) /\ Cardinality(Execs) <= MaxExecs
      BY DEF Account
    <3>2. IsFiniteSet(Execs') /\ Cardinality(Execs') <= Cardinality(Execs)
      BY <2>11, <3>1, FS_Subset
    <3>3. Cardinality(Execs) \in Nat /\ Cardinality(Execs') \in Nat
      BY <3>1, <3>2, FS_CardinalityType
    <3> QED
      BY <1>0, <3>1, <3>2, <3>3
  <2> QED
    BY <2>9, <2>10, <2>12 DEF Account
<1>4. ASSUME NEW ref \in Refs, NEW verb, SetState(ref, verb)
      PROVE  Account'
  <2> DEFINE i == Find(ref)
             st == IF verb \in {"stop", "kill"} THEN "exited" ELSE "running"
             new == [containers[i] EXCEPT !.state = st]
  <2>1. i \in S /\ i \in Ids
    BY <1>4, FindsPresent DEF SetState, Present
  <2>2. containers' = [containers EXCEPT ![i] = new] /\ execs' = execs /\ bytes' = bytes
    BY <1>4 DEF SetState
  <2>3. containers[i] \in Container
    BY <1>0, <2>1 DEF TypeOK, Present
  <2>4. new \in Container /\ new.size = containers[i].size
    BY <2>3 DEF Container
  <2> HIDE DEF i, st, new
  <2>5. Present' = S /\ \A j \in S : Brought'[j] = f[j]
    BY <1>0, <1>1, <2>1, <2>2, <2>4 DEF Present, Brought, TypeOK
  <2>6. Total(Brought', S) = Total(f, S)
    <3> DEFINE h == Brought'
    <3>1. \A j \in S : h[j] = f[j]
      BY <2>5
    <3> HIDE DEF h, f, S
    <3>2. Total(h, S) = Total(f, S)
      BY <1>1, <3>1, TotalSame
    <3> QED
      BY <3>2 DEF h
  <2>7. Execs' = Execs
    BY <2>2 DEF Execs
  <2> QED
    BY <2>2, <2>5, <2>6, <2>7 DEF Account
<1>5. ASSUME NEW ref \in Refs, NEW x \in ExecIds, ExecCreate(ref, x)
      PROVE  Account'
  <2>1. Find(ref) \in Ids /\ Find(ref) # None
    BY <1>0, <1>5, FindsPresent DEF ExecCreate, Present
  <2>2. Execs' = Execs \cup {x} /\ x \notin Execs
    BY <1>0, <1>5, <2>1 DEF ExecCreate, Execs, TypeOK
  <2>3. IsFiniteSet(Execs) /\ Cardinality(Execs) < MaxExecs
    BY <1>5 DEF ExecCreate, Account
  <2>4. IsFiniteSet(Execs') /\ Cardinality(Execs') = Cardinality(Execs) + 1
    BY <2>2, <2>3, FS_AddElement
  <2>5. Cardinality(Execs) \in Nat
    BY <2>3, FS_CardinalityType
  <2>6. Present' = Present /\ Brought' = Brought /\ bytes' = bytes
    BY <1>5 DEF ExecCreate, Present, Brought
  <2> QED
    BY <1>0, <2>3, <2>4, <2>5, <2>6 DEF Account
<1>6. CASE UNCHANGED vars
  <2>1. Present' = Present /\ Brought' = Brought /\ bytes' = bytes /\ Execs' = Execs
    BY <1>6 DEF vars, Present, Brought, Execs
  <2> QED
    BY <2>1 DEF Account
<1> QED
  BY <1>2, <1>3, <1>4, <1>5, <1>6 DEF Next

\* The account's sum is the one the property computes with MapThenSumSet.
LEMMA AccountIsFold ==
  ASSUME TypeOK, Account
  PROVE  CapacityAccounted
<1> DEFINE SizeOf(i) == containers[i].size
           eq(it) == it = [s \in SUBSET Present |->
                             IF s = {} THEN 0
                             ELSE LET x == CHOOSE x \in s : TRUE
                                  IN containers[x].size + it[s \ {x}]]
<1>1. PICK g : IsSum(Brought, Present, g)
  BY PresentSizes, SumExists
<1>2. \A it : eq(it) <=> IsSum(Brought, Present, it)
  <2>1. ASSUME NEW s \in SUBSET Present, s # {}
        PROVE  containers[CHOOSE x \in s : TRUE].size = Brought[CHOOSE x \in s : TRUE]
    <3>1. (CHOOSE x \in s : TRUE) \in Present
      BY <2>1
    <3> QED
      BY <3>1, PresentSizes
  <2> QED
    BY <2>1 DEF IsSum, Any
<1>3. eq(g)
  BY <1>1, <1>2
<1> DEFINE it == CHOOSE p : eq(p)
<1>4. eq(it)
  BY <1>3
<1>5. MapThenSumSet(SizeOf, Present) = it[Present]
  BY DEF MapThenSumSet, MapThenFoldSet
<1>6. it[Present] = Total(Brought, Present)
  <2>1. IsSum(Brought, Present, it)
    BY <1>2, <1>4
  <2> HIDE DEF it
  <2>2. \A s \in SUBSET Present : it[s] = Total(Brought, s)
    BY <2>1, PresentSizes, TotalIs
  <2> QED
    BY <2>2
<1> QED
  BY <1>5, <1>6 DEF Account, CapacityAccounted

\* The byte account is exact and every capacity holds, for every limit and
\* any number of identifiers.
THEOREM CapacityHolds == Spec => []CapacityAccounted
<1>1. Invariant /\ Account => CapacityAccounted
  BY AccountIsFold DEF Invariant
<1>2. Invariant /\ Invariant' /\ Account /\ [Next]_vars => Account'
  BY StepAccount
<1> QED
  BY <1>1, <1>2, Inductive, InitAccount, PTL DEF Spec
=============================================================================
