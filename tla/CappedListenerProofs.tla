------------------------ MODULE CappedListenerProofs ------------------------
(***************************************************************************)
(* Theorems about CappedListener, for every cap and every number of        *)
(* connections and of goroutines that accept and close.                    *)
(***************************************************************************)
EXTENDS CappedListener, FiniteSetTheorems, TLAPS

\* A connection is released only after its socket was closed, and whoever is
\* about to release one has closed it.
ReleasedIsClosed ==
    /\ \A c \in Conns : released[c] => conn[c] = "closed"
    /\ \A x \in Closers : cpc[x] # NoConn => conn[cpc[x]] = "closed"

\* The inductive invariant: slots are counted, and released only after a close.
Invariant == TypeOK /\ ReleasedIsClosed /\ SlotsAccounted

\* The holders of slots can be counted.
LEMMA FiniteHolders ==
  /\ IsFiniteSet(Accepting) /\ Cardinality(Accepting) \in Nat
  /\ IsFiniteSet(Holding) /\ Cardinality(Holding) \in Nat
<1>1. Accepting \subseteq Acceptors /\ Holding \subseteq Conns
  BY DEF Accepting, Holding
<1> QED
  BY <1>1, FS_Subset, FS_CardinalityType, ListenerConstants

\* The new listener satisfies the invariant.
LEMMA InitInvariant == Init => Invariant
<1> SUFFICES ASSUME Init PROVE Invariant
  OBVIOUS
<1>1. TypeOK
  <2>1. slots \in 0 .. MaxConnections
    BY ListenerConstants DEF Init
  <2>2. released \in [Conns -> BOOLEAN] /\ done \in BOOLEAN
    BY DEF Init
  <2> QED
    BY <2>1, <2>2 DEF Init, TypeOK
<1>2. ReleasedIsClosed
  BY DEF Init, ReleasedIsClosed
<1>3. Accepting = {} /\ Holding = {}
  BY DEF Init, Accepting, Holding
<1>4. SlotsAccounted
  <2>1. Cardinality(Accepting) = 0 /\ Cardinality(Holding) = 0
    BY <1>3, FS_EmptySet, Zenon
  <2> QED
    BY <2>1 DEF Init, SlotsAccounted
<1> QED
  BY <1>1, <1>2, <1>4 DEF Invariant

\* Invariant is inductive: the slots are counted by those who hold them.
LEMMA StepInvariant ==
  ASSUME TypeOK, ReleasedIsClosed, SlotsAccounted, [Next]_vars
  PROVE  Invariant'
<1>0. slots = Cardinality(Accepting) + Cardinality(Holding) /\ MaxConnections \in Nat
  BY ListenerConstants DEF SlotsAccounted
<1> DEFINE Same == Accepting' = Accepting /\ Holding' = Holding /\ slots' = slots
<1>a. Same => SlotsAccounted'
  BY <1>0 DEF SlotsAccounted
<1> HIDE DEF Same
<1>1. ASSUME NEW c \in Conns, Connect(c) PROVE Invariant'
  <2>1. TypeOK'
    BY <1>1 DEF Connect, TypeOK
  <2>2. ReleasedIsClosed'
    BY <1>1 DEF Connect, TypeOK, ReleasedIsClosed
  <2>3. Same
    BY <1>1 DEF Connect, TypeOK, Same, Accepting, Holding
  <2> QED
    BY <1>a, <2>1, <2>2, <2>3 DEF Invariant
<1>2. ASSUME NEW a \in Acceptors, Accept(a) \/ AcceptDone(a) PROVE Invariant'
  <2>1. TypeOK'
    BY <1>2 DEF Accept, AcceptDone, TypeOK
  <2>2. ReleasedIsClosed'
    BY <1>2 DEF Accept, AcceptDone, ReleasedIsClosed
  <2>3. Same
    BY <1>2 DEF Accept, AcceptDone, TypeOK, Same, Accepting, Holding
  <2> QED
    BY <1>a, <2>1, <2>2, <2>3 DEF Invariant
<1>3. ASSUME NEW a \in Acceptors, AcceptSlot(a) PROVE Invariant'
  <2>1. slots' = slots + 1 /\ slots' \in 0 .. MaxConnections
    BY <1>0, <1>3 DEF AcceptSlot, TypeOK
  <2>2. TypeOK'
    BY <1>3, <2>1 DEF AcceptSlot, TypeOK
  <2>3. ReleasedIsClosed'
    BY <1>3 DEF AcceptSlot, ReleasedIsClosed
  <2>4. a \notin Accepting /\ Accepting' = Accepting \cup {a} /\ Holding' = Holding
    BY <1>3 DEF AcceptSlot, TypeOK, Accepting, Holding
  <2>5. Cardinality(Accepting') = Cardinality(Accepting) + 1
    BY <2>4, FiniteHolders, FS_AddElement
  <2>6. SlotsAccounted'
    BY <1>0, <2>1, <2>4, <2>5, FiniteHolders DEF SlotsAccounted
  <2> QED
    BY <2>2, <2>3, <2>6 DEF Invariant
<1>4. ASSUME NEW a \in Acceptors, AcceptError(a) PROVE Invariant'
  <2>1. slots' = slots - 1 /\ slots' \in 0 .. MaxConnections
    BY <1>0, <1>4 DEF AcceptError, TypeOK
  <2>2. TypeOK'
    BY <1>4, <2>1 DEF AcceptError, TypeOK
  <2>3. ReleasedIsClosed'
    BY <1>4 DEF AcceptError, ReleasedIsClosed
  <2>4. a \in Accepting /\ Accepting' = Accepting \ {a} /\ Holding' = Holding
    BY <1>4 DEF AcceptError, TypeOK, Accepting, Holding
  <2>5. Cardinality(Accepting') = Cardinality(Accepting) - 1
    BY <2>4, FiniteHolders, FS_RemoveElement
  <2>6. SlotsAccounted'
    BY <1>0, <2>1, <2>4, <2>5, FiniteHolders DEF SlotsAccounted
  <2> QED
    BY <2>2, <2>3, <2>6 DEF Invariant
<1>5. ASSUME NEW a \in Acceptors, NEW c \in Conns, AcceptConn(a, c) PROVE Invariant'
  <2>1. TypeOK'
    BY <1>5 DEF AcceptConn, TypeOK
  <2>2. ReleasedIsClosed'
    BY <1>5 DEF AcceptConn, TypeOK, ReleasedIsClosed
  <2>3. a \in Accepting /\ Accepting' = Accepting \ {a}
    BY <1>5 DEF AcceptConn, TypeOK, Accepting
  <2>4. c \notin Holding /\ Holding' = Holding \cup {c}
    BY <1>5 DEF AcceptConn, TypeOK, Holding, ReleasedIsClosed
  <2>5. /\ Cardinality(Accepting') = Cardinality(Accepting) - 1
        /\ Cardinality(Holding') = Cardinality(Holding) + 1
    BY <2>3, <2>4, FiniteHolders, FS_AddElement, FS_RemoveElement
  <2>6. SlotsAccounted'
    BY <1>0, <1>5, <2>5, FiniteHolders DEF AcceptConn, SlotsAccounted
  <2> QED
    BY <2>1, <2>2, <2>6 DEF Invariant
<1>6. ASSUME NEW x \in Closers, NEW c \in Conns, CloseConn(x, c) PROVE Invariant'
  <2>1. TypeOK'
    BY <1>6 DEF CloseConn, TypeOK
  <2>2. ReleasedIsClosed'
    BY <1>6 DEF CloseConn, TypeOK, ReleasedIsClosed
  <2>3. Same
    BY <1>6 DEF CloseConn, TypeOK, Same, Accepting, Holding
  <2> QED
    BY <1>a, <2>1, <2>2, <2>3 DEF Invariant
<1>7. ASSUME NEW x \in Closers, Release(x) PROVE Invariant'
  <2>0. cpc[x] \in Conns /\ conn[cpc[x]] = "closed"
    BY <1>7 DEF Release, TypeOK, ReleasedIsClosed
  <2>1. CASE released[cpc[x]]
    <3>1. TypeOK'
      BY <1>7, <2>1 DEF Release, TypeOK
    <3>2. ReleasedIsClosed'
      BY <1>7, <2>1 DEF Release, TypeOK, ReleasedIsClosed
    <3>3. Same
      BY <1>7, <2>1 DEF Release, Same, Accepting, Holding
    <3> QED
      BY <1>a, <3>1, <3>2, <3>3 DEF Invariant
  <2>2. CASE ~ released[cpc[x]]
    <3>1. slots' = slots - 1 /\ slots' \in 0 .. MaxConnections
      BY <1>0, <1>7, <2>2 DEF Release, TypeOK
    <3>2. released' \in [Conns -> BOOLEAN]
      BY <1>7, <2>2 DEF Release, TypeOK
    <3>3. TypeOK'
      BY <1>7, <3>1, <3>2 DEF Release, TypeOK
    <3>4. ReleasedIsClosed'
      BY <1>7, <2>0, <2>2 DEF Release, TypeOK, ReleasedIsClosed
    <3>5. cpc[x] \in Holding /\ Holding' = Holding \ {cpc[x]} /\ Accepting' = Accepting
      BY <1>7, <2>0, <2>2 DEF Release, TypeOK, Holding, Accepting
    <3>6. Cardinality(Holding') = Cardinality(Holding) - 1
      BY <3>5, FiniteHolders, FS_RemoveElement
    <3>7. SlotsAccounted'
      BY <1>0, <3>1, <3>5, <3>6, FiniteHolders DEF SlotsAccounted
    <3> QED
      BY <3>3, <3>4, <3>7 DEF Invariant
  <2> QED
    BY <2>1, <2>2
<1>8. ASSUME CloseDone \/ CloseInner PROVE Invariant'
  <2>1. TypeOK'
    BY <1>8 DEF CloseDone, CloseInner, TypeOK
  <2>2. ReleasedIsClosed'
    BY <1>8 DEF CloseDone, CloseInner, TypeOK, ReleasedIsClosed
  <2>3. Same
    BY <1>8 DEF CloseDone, CloseInner, TypeOK, Same, Accepting, Holding
  <2> QED
    BY <1>a, <2>1, <2>2, <2>3 DEF Invariant
<1>9. CASE UNCHANGED vars
  BY <1>9 DEF vars, Invariant, TypeOK, ReleasedIsClosed, SlotsAccounted, Accepting, Holding
<1> QED
  BY <1>1, <1>2, <1>3, <1>4, <1>5, <1>6, <1>7, <1>8, <1>9 DEF Next

\* The invariant holds in every behaviour.
THEOREM Inductive == Spec => []Invariant
<1>1. Invariant /\ [Next]_vars => Invariant'
  BY StepInvariant DEF Invariant
<1> QED
  BY <1>1, InitInvariant, PTL DEF Spec

\* No slot is leaked and none is given back twice.
THEOREM SlotsNeverLeak == Spec => []SlotsAccounted
<1>1. Invariant => SlotsAccounted
  BY DEF Invariant
<1> QED
  BY <1>1, Inductive, PTL

\* A release always finds a slot to take out of the channel.
THEOREM ReleaseFindsSlot == Spec => []ReleaseNeverBlocks
<1>1. Invariant => ReleaseNeverBlocks
  <2> SUFFICES ASSUME Invariant PROVE ReleaseNeverBlocks
    OBVIOUS
  <2>0. /\ slots = Cardinality(Accepting) + Cardinality(Holding)
        /\ Cardinality(Accepting) \in Nat /\ Cardinality(Holding) \in Nat
    BY FiniteHolders DEF Invariant, SlotsAccounted
  <2>1. ASSUME NEW x \in Closers, cpc[x] # NoConn, ~ released[cpc[x]] PROVE slots > 0
    <3>1. cpc[x] \in Holding
      BY <2>1 DEF Invariant, TypeOK, ReleasedIsClosed, Holding
    <3>2. Cardinality(Holding) # 0
      BY <3>1, FiniteHolders, FS_EmptySet
    <3> QED
      BY <2>0, <3>2
  <2>2. ASSUME NEW a \in Acceptors, apc[a] = "inner" PROVE slots > 0
    <3>1. a \in Accepting
      BY <2>2 DEF Accepting
    <3>2. Cardinality(Accepting) # 0
      BY <3>1, FiniteHolders, FS_EmptySet
    <3> QED
      BY <2>0, <3>2
  <2> QED
    BY <2>1, <2>2 DEF ReleaseNeverBlocks
<1> QED
  BY <1>1, Inductive, PTL

\* The listener implements ConnectionLimit: it admits a connection only when
\* fewer than MaxConnections are open, because each holds a slot and so does
\* the Accept that is about to admit it.
THEOREM RefinesLimit == Spec => ImplementsLimit
<1> DEFINE inside == {c \in Conns : conn[c] = "open"}
           gone == {c \in Conns : conn[c] = "closed"}
<1>1. Init => Limit!Init
  BY DEF Init, Limit!Init
<1>2. Invariant /\ [Next]_vars => [Limit!Next]_(Limit!limitVars)
  <2> SUFFICES ASSUME Invariant, [Next]_vars
               PROVE  Limit!Next \/ (inside' = inside /\ gone' = gone)
    BY DEF Limit!limitVars
  <2>0. TypeOK /\ ReleasedIsClosed /\ SlotsAccounted
    BY DEF Invariant
  <2>1. ASSUME NEW a \in Acceptors, NEW c \in Conns, AcceptConn(a, c) PROVE Limit!Admit(c)
    <3>1. a \in Accepting /\ inside \subseteq Holding
      BY <2>0, <2>1 DEF AcceptConn, Accepting, Holding, ReleasedIsClosed
    <3>2. Cardinality(Accepting) # 0
      BY <3>1, FiniteHolders, FS_EmptySet
    <3>3. Cardinality(inside) <= Cardinality(Holding) /\ Cardinality(inside) \in Nat
      BY <3>1, FiniteHolders, FS_Subset, FS_CardinalityType
    <3>4. Cardinality(inside) < MaxConnections
      BY <2>0, <3>2, <3>3, FiniteHolders, ListenerConstants DEF SlotsAccounted, TypeOK
    <3>5. c \notin inside \cup gone /\ inside' = inside \cup {c} /\ gone' = gone
      BY <2>0, <2>1 DEF AcceptConn, TypeOK
    <3> QED
      BY <3>4, <3>5, Zenon DEF Limit!Admit, Limit!Cardinality, Cardinality
  <2>2. ASSUME NEW x \in Closers, NEW c \in Conns, CloseConn(x, c)
        PROVE  Limit!Leave(c) \/ (inside' = inside /\ gone' = gone)
    <3>1. CASE conn[c] = "open"
      BY <2>0, <2>2, <3>1 DEF CloseConn, TypeOK, Limit!Leave
    <3>2. CASE conn[c] = "closed"
      BY <2>0, <2>2, <3>2 DEF CloseConn, TypeOK
    <3> QED
      BY <2>2, <3>1, <3>2 DEF CloseConn
  <2>3. ASSUME NEW c \in Conns, Connect(c) PROVE inside' = inside /\ gone' = gone
    BY <2>0, <2>3 DEF Connect, TypeOK
  <2>4. ASSUME CloseInner PROVE inside' = inside /\ gone' = gone
    BY <2>0, <2>4 DEF CloseInner, TypeOK
  <2>5. ASSUME \/ \E a \in Acceptors : Accept(a) \/ AcceptSlot(a) \/ AcceptDone(a) \/ AcceptError(a)
               \/ \E x \in Closers : Release(x)
               \/ CloseDone
               \/ UNCHANGED vars
        PROVE  conn' = conn
    BY <2>5 DEF Accept, AcceptSlot, AcceptDone, AcceptError, Release, CloseDone, vars
  <2> QED
    BY <2>1, <2>2, <2>3, <2>4, <2>5 DEF Next, Limit!Next
<1> QED
  BY <1>1, <1>2, Inductive, PTL DEF Spec, ImplementsLimit, Limit!Spec
=============================================================================
