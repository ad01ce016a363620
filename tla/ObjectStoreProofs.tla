------------------------- MODULE ObjectStoreProofs -------------------------
(***************************************************************************)
(* Theorems about ObjectStore, for every set of keys, contents, watches    *)
(* and requests and every value of the limits.                             *)
(***************************************************************************)
EXTENDS ObjectStore, Sums

\* A selector's watch scope and the idle scope are selectors.
LEMMA ScopeType == NoScope \in Selector
  BY DEF NoScope, Selector

\* The events a publication appends, and the channels it leaves alone, keep
\* the channels well formed and within their capacity.
LEMMA PublishType ==
  ASSUME TypeOK, NEW k \in Keys, NEW o \in Object,
         NEW type \in {"ADDED", "MODIFIED", "DELETED"}, Publish(k, type, o)
  PROVE  /\ watchers' \subseteq Watches
         /\ ch' \in [Watches -> Seq(Event)]
         /\ \A w \in Watches : Len(ch'[w]) <= ChanCap
         /\ closed' \in [Watches -> BOOLEAN]
         /\ panicked' \in BOOLEAN
<1>1. watchers' \subseteq Watches /\ closed' \in [Watches -> BOOLEAN] /\ panicked' \in BOOLEAN
  BY DEF TypeOK, Publish
<1> DEFINE ev == [type |-> type, key |-> k, object |-> o]
<1>2. ev \in Event
  BY DEF Event
<1>3. ASSUME NEW w \in Watches
      PROVE  ch'[w] \in Seq(Event) /\ Len(ch'[w]) <= ChanCap
  <2>1. ch[w] \in Seq(Event) /\ Len(ch[w]) <= ChanCap /\ ChanCap \in Nat
    BY StoreConstants DEF TypeOK
  <2>2. CASE w \in Interested(k, o) \ Slow(k, o)
    <3>1. ch'[w] = Append(ch[w], ev)
      BY <2>2 DEF Publish
    <3>2. Len(ch[w]) < ChanCap
      BY <2>1, <2>2 DEF Slow
    <3> HIDE DEF ev
    <3> QED
      BY <1>2, <2>1, <3>1, <3>2
  <2>3. CASE w \notin Interested(k, o) \ Slow(k, o)
    BY <2>1, <2>3 DEF Publish
  <2> QED
    BY <2>2, <2>3
<1>4. ch' \in [Watches -> Seq(Event)]
  <2>1. ch' = [w \in Watches |-> ch'[w]]
    BY DEF Publish
  <2> QED
    BY <1>3, <2>1
<1> QED
  BY <1>1, <1>3, <1>4

\* Sizes of stored objects are natural numbers.
LEMMA SizesAreNat ==
  ASSUME TypeOK, NEW k \in Keys
  PROVE  OldBytes(k) \in Nat /\ (objects[k] # NoObject => SizeOf(k) \in Nat)
  BY StoreConstants DEF TypeOK, OldBytes, SizeOf, Object

\* put keeps the shape of what it changes.
LEMMA PutType ==
  ASSUME TypeOK, NEW k \in Keys, NEW c \in Contents,
         NEW type \in {"ADDED", "MODIFIED"}, Put(k, c, type)
  PROVE  /\ objects' \in [Keys -> Object \cup {NoObject}]
         /\ resourceRev' \in Nat
         /\ storedBytes' \in Int
         /\ watchers' \subseteq Watches
         /\ ch' \in [Watches -> Seq(Event)]
         /\ \A w \in Watches : Len(ch'[w]) <= ChanCap
         /\ closed' \in [Watches -> BOOLEAN]
         /\ panicked' \in BOOLEAN
<1>1. [content |-> c, rev |-> resourceRev + 1] \in Object
  BY DEF TypeOK, Object
<1>2. Publish(k, type, [content |-> c, rev |-> resourceRev + 1])
  BY DEF Put
<1>3. /\ objects' \in [Keys -> Object \cup {NoObject}]
      /\ resourceRev' \in Nat
  BY <1>1 DEF TypeOK, Put
<1>4. storedBytes' \in Int
  BY SizesAreNat, StoreConstants DEF TypeOK, Put
<1> QED
  BY <1>1, <1>2, <1>3, <1>4, PublishType

\* delete keeps the shape of what it changes.
LEMMA RemoveType ==
  ASSUME TypeOK, NEW k \in Keys, Remove(k)
  PROVE  /\ objects' \in [Keys -> Object \cup {NoObject}]
         /\ resourceRev' \in Nat
         /\ storedBytes' \in Int
         /\ watchers' \subseteq Watches
         /\ ch' \in [Watches -> Seq(Event)]
         /\ \A w \in Watches : Len(ch'[w]) <= ChanCap
         /\ closed' \in [Watches -> BOOLEAN]
         /\ panicked' \in BOOLEAN
<1>1. objects[k] \in Object
  BY DEF TypeOK, Remove
<1>2. Publish(k, "DELETED", objects[k])
  BY DEF Remove
<1>3. /\ objects' \in [Keys -> Object \cup {NoObject}]
      /\ resourceRev' \in Nat
      /\ storedBytes' \in Int
  BY SizesAreNat DEF TypeOK, Remove
<1> QED
  BY <1>1, <1>2, <1>3, PublishType

\* The shape of the state is kept by every step of a request or a watch.
THEOREM TypeCorrect == Spec => []TypeOK
<1>1. Init => TypeOK
  <2> SUFFICES ASSUME Init PROVE TypeOK
    OBVIOUS
  <2>1. FirstRevision \in Nat
    BY DEF FirstRevision
  <2>2. Idle \in [op : {"idle", "update", "sweep"}, keys : SUBSET Keys]
    BY DEF Idle
  <2>3. << >> \in Seq(Event) /\ Len(<< >>) <= ChanCap
    BY StoreConstants
  <2>4. /\ ch \in [Watches -> Seq(Event)]
        /\ \A w \in Watches : Len(ch[w]) <= ChanCap
    BY <2>3 DEF Init
  <2>5. /\ closed \in [Watches -> BOOLEAN]
        /\ panicked \in BOOLEAN
        /\ wpc \in [Watches -> {"idle", "replay", "stream"}]
    BY DEF Init
  <2>6. /\ objects \in [Keys -> Object \cup {NoObject}]
        /\ view \in [Watches -> [Keys -> Object \cup {NoObject}]]
    BY DEF Init, NothingTold
  <2>7. /\ sel \in [Watches -> Selector]
        /\ unseen \in [Watches -> SUBSET Keys]
        /\ req \in [Requests -> [op : {"idle", "update", "sweep"}, keys : SUBSET Keys]]
    BY <2>2, ScopeType DEF Init
  <2>8. watchers \subseteq Watches /\ resourceRev \in Nat /\ storedBytes \in Int
            /\ watchSlots \in Int
    BY <2>1 DEF Init
  <2> QED
    BY <2>4, <2>5, <2>6, <2>7, <2>8 DEF TypeOK
<1>2. TypeOK /\ [Next]_vars => TypeOK'
  <2> SUFFICES ASSUME TypeOK, [Next]_vars PROVE TypeOK'
    OBVIOUS
  <2>0. Idle \in [op : {"idle", "update", "sweep"}, keys : SUBSET Keys]
    BY DEF Idle
  <2>1. ASSUME NEW k \in Keys, NEW c \in Contents, Create(k, c)
        PROVE  TypeOK'
    BY <2>1, PutType DEF Create, TypeOK
  <2>2. ASSUME NEW k \in Keys, Delete(k)
        PROVE  TypeOK'
    BY <2>2, RemoveType DEF Delete, TypeOK
  <2>3. ASSUME NEW r \in Requests, NEW k \in Keys, UpdateGet(r, k)
        PROVE  TypeOK'
    BY <2>3 DEF UpdateGet, TypeOK, storeVars, watchVars
  <2>4. ASSUME NEW r \in Requests, NEW k \in Keys, NEW c \in Contents, UpdatePut(r, k, c)
        PROVE  TypeOK'
    <3>1. req' \in [Requests -> [op : {"idle", "update", "sweep"}, keys : SUBSET Keys]]
      BY <2>4, <2>0 DEF UpdatePut, TypeOK
    <3>2. CASE Put(k, c, "MODIFIED")
      BY <2>4, <3>1, <3>2, PutType DEF UpdatePut, TypeOK
    <3>3. CASE UNCHANGED <<storeVars, watchers, ch, closed, panicked>>
      BY <2>4, <3>1, <3>3 DEF UpdatePut, TypeOK, storeVars
    <3> QED
      BY <2>4, <3>2, <3>3 DEF UpdatePut
  <2>5. ASSUME NEW r \in Requests, NEW s \in Selectors, SweepCollect(r, s)
        PROVE  TypeOK'
    BY <2>5 DEF SweepCollect, TypeOK, storeVars, watchVars, Matching
  <2>6. ASSUME NEW r \in Requests, NEW k \in Keys, SweepDelete(r, k)
        PROVE  TypeOK'
    <3>1. req' \in [Requests -> [op : {"idle", "update", "sweep"}, keys : SUBSET Keys]]
      BY <2>6, <2>0 DEF SweepDelete, TypeOK
    <3>2. CASE Remove(k)
      BY <2>6, <3>1, <3>2, RemoveType DEF SweepDelete, TypeOK
    <3>3. CASE UNCHANGED <<storeVars, watchers, ch, closed, panicked>>
      BY <2>6, <3>1, <3>3 DEF SweepDelete, TypeOK, storeVars
    <3> QED
      BY <2>6, <3>2, <3>3 DEF SweepDelete
  <2>7. ASSUME NEW w \in Watches, NEW s \in Selectors, NEW b \in BOOLEAN, WatchStart(w, s, b)
        PROVE  TypeOK'
    BY <2>7, StoreConstants DEF WatchStart, TypeOK, storeVars
  <2>8. ASSUME NEW w \in Watches, Replay(w)
        PROVE  TypeOK'
    BY <2>8 DEF Replay, TypeOK, storeVars, Matching
  <2>9. ASSUME NEW w \in Watches, Receive(w)
        PROVE  TypeOK'
    <3>1. /\ ch[w] \in Seq(Event) /\ ch[w] # << >>
          /\ Head(ch[w]) \in Event /\ Tail(ch[w]) \in Seq(Event)
          /\ Len(Tail(ch[w])) <= ChanCap
      BY <2>9, StoreConstants DEF Receive, TypeOK
    <3>2. Tells(Head(ch[w])) \in Object \cup {NoObject} /\ Head(ch[w]).key \in Keys
      BY <3>1 DEF Tells, Event
    <3>3. view' \in [Watches -> [Keys -> Object \cup {NoObject}]]
      BY <2>9, <3>2 DEF Receive, TypeOK
    <3> QED
      BY <2>9, <3>1, <3>3 DEF Receive, TypeOK, storeVars
  <2>10. ASSUME NEW w \in Watches, WatchReturn(w)
        PROVE  TypeOK'
    <3>1. << >> \in Seq(Event) /\ Len(<< >>) <= ChanCap
      BY StoreConstants
    <3> QED
      BY <2>10, <3>1, ScopeType DEF WatchReturn, TypeOK, storeVars, NothingTold
  <2>11. CASE UNCHANGED vars
    BY <2>11 DEF vars, TypeOK
  <2> QED
    BY <2>1, <2>2, <2>3, <2>4, <2>5, <2>6, <2>7, <2>8, <2>9, <2>10, <2>11 DEF Next
<1> QED
  BY <1>1, <1>2, PTL DEF Spec

----------------------------------------------------------------------------
(* Channels are closed by publishLocked, when it evicts a slow watch, and  *)
(* by unwatch: what keeps the two apart is that a registered watch has an  *)
(* open channel.                                                           *)

\* The invariant of registration.
Registered ==
    /\ \A w \in watchers : ~ closed[w] /\ wpc[w] # "idle"
    /\ \A w \in Watches : wpc[w] = "idle" => ch[w] = << >> /\ unseen[w] = Keys /\ ~ closed[w]

\* publishLocked keeps registered watches open and does not panic.
LEMMA PublishRegistered ==
  ASSUME TypeOK, Registered, NoChannelPanic, NEW k \in Keys, NEW o, NEW type,
         Publish(k, type, o), UNCHANGED <<wpc, unseen>>
  PROVE  Registered' /\ NoChannelPanic'
<1>1. Slow(k, o) \subseteq Interested(k, o) /\ Interested(k, o) \subseteq watchers
  BY DEF Slow, Interested
<1>2. NoChannelPanic'
  BY <1>1 DEF Publish, Registered, NoChannelPanic
<1>3. \A w \in watchers' : ~ closed'[w] /\ wpc'[w] # "idle"
  BY DEF Publish, Registered, TypeOK
<1>4. ASSUME NEW w \in Watches, wpc'[w] = "idle"
      PROVE  ch'[w] = << >> /\ unseen'[w] = Keys /\ ~ closed'[w]
  <2>1. w \notin watchers /\ ch[w] = << >> /\ unseen[w] = Keys /\ ~ closed[w]
    BY <1>4 DEF Registered
  <2> QED
    BY <1>1, <2>1 DEF Publish
<1> QED
  BY <1>2, <1>3, <1>4 DEF Registered

\* publishLocked and unwatch never use a closed channel, whatever the order in
\* which slow watches are evicted and requests return.
THEOREM NeverPanics == Spec => [](Registered /\ NoChannelPanic)
<1>1. Init => Registered /\ NoChannelPanic
  BY DEF Init, Registered, NoChannelPanic
<1>2. TypeOK /\ Registered /\ NoChannelPanic /\ [Next]_vars => (Registered /\ NoChannelPanic)'
  <2> SUFFICES ASSUME TypeOK, Registered, NoChannelPanic, [Next]_vars
               PROVE  Registered' /\ NoChannelPanic'
    OBVIOUS
  <2>1. ASSUME NEW k \in Keys, NEW c \in Contents, Create(k, c)
        PROVE  Registered' /\ NoChannelPanic'
    BY <2>1, PublishRegistered DEF Create, Put
  <2>2. ASSUME NEW k \in Keys, Delete(k)
        PROVE  Registered' /\ NoChannelPanic'
    BY <2>2, PublishRegistered DEF Delete, Remove
  <2>3. ASSUME NEW r \in Requests, NEW k \in Keys, UpdateGet(r, k)
        PROVE  Registered' /\ NoChannelPanic'
    BY <2>3 DEF UpdateGet, watchVars, Registered, NoChannelPanic
  <2>4. ASSUME NEW r \in Requests, NEW k \in Keys, NEW c \in Contents, UpdatePut(r, k, c)
        PROVE  Registered' /\ NoChannelPanic'
    <3>1. CASE Put(k, c, "MODIFIED")
      BY <2>4, <3>1, PublishRegistered DEF UpdatePut, Put
    <3>2. CASE UNCHANGED <<storeVars, watchers, ch, closed, panicked>>
      BY <2>4, <3>2 DEF UpdatePut, Registered, NoChannelPanic
    <3> QED
      BY <2>4, <3>1, <3>2 DEF UpdatePut
  <2>5. ASSUME NEW r \in Requests, NEW s \in Selectors, SweepCollect(r, s)
        PROVE  Registered' /\ NoChannelPanic'
    BY <2>5 DEF SweepCollect, watchVars, Registered, NoChannelPanic
  <2>6. ASSUME NEW r \in Requests, NEW k \in Keys, SweepDelete(r, k)
        PROVE  Registered' /\ NoChannelPanic'
    <3>1. CASE Remove(k)
      BY <2>6, <3>1, PublishRegistered DEF SweepDelete, Remove
    <3>2. CASE UNCHANGED <<storeVars, watchers, ch, closed, panicked>>
      BY <2>6, <3>2 DEF SweepDelete, Registered, NoChannelPanic
    <3> QED
      BY <2>6, <3>1, <3>2 DEF SweepDelete
  <2>7. ASSUME NEW w \in Watches, NEW s \in Selectors, NEW b \in BOOLEAN, WatchStart(w, s, b)
        PROVE  Registered' /\ NoChannelPanic'
    BY <2>7 DEF WatchStart, Registered, NoChannelPanic, TypeOK
  <2>8. ASSUME NEW w \in Watches, Replay(w)
        PROVE  Registered' /\ NoChannelPanic'
    BY <2>8 DEF Replay, Registered, NoChannelPanic, TypeOK
  <2>9. ASSUME NEW w \in Watches, Receive(w)
        PROVE  Registered' /\ NoChannelPanic'
    BY <2>9 DEF Receive, Registered, NoChannelPanic, TypeOK
  <2>10. ASSUME NEW w \in Watches, WatchReturn(w)
         PROVE  Registered' /\ NoChannelPanic'
    BY <2>10 DEF WatchReturn, Registered, NoChannelPanic, TypeOK
  <2>11. CASE UNCHANGED vars
    BY <2>11 DEF vars, Registered, NoChannelPanic
  <2> QED
    BY <2>1, <2>2, <2>3, <2>4, <2>5, <2>6, <2>7, <2>8, <2>9, <2>10, <2>11 DEF Next
<1> QED
  BY <1>1, <1>2, TypeCorrect, PTL DEF Spec

----------------------------------------------------------------------------
(* Revisions.                                                              *)

\* Every step that touches the store is a put, which stores an object of the
\* next revision under one key, a removal of one key, or leaves it alone.
LEMMA StoreSteps ==
  ASSUME TypeOK, [Next]_vars
  PROVE  \/ \E k \in Keys, c \in Contents :
              /\ objects' = [objects EXCEPT ![k] = [content |-> c, rev |-> resourceRev + 1]]
              /\ resourceRev' = resourceRev + 1
         \/ \E k \in Keys :
              /\ objects[k] # NoObject
              /\ objects' = [objects EXCEPT ![k] = NoObject]
              /\ resourceRev' = resourceRev + 1
         \/ UNCHANGED storeVars
<1>1. ASSUME NEW k \in Keys, NEW c \in Contents, Create(k, c)
      PROVE  /\ objects' = [objects EXCEPT ![k] = [content |-> c, rev |-> resourceRev + 1]]
             /\ resourceRev' = resourceRev + 1
  BY <1>1 DEF Create, Put
<1>2. ASSUME NEW k \in Keys, Delete(k)
      PROVE  /\ objects[k] # NoObject
             /\ objects' = [objects EXCEPT ![k] = NoObject]
             /\ resourceRev' = resourceRev + 1
  BY <1>2 DEF Delete, Remove
<1>3. ASSUME NEW r \in Requests, NEW k \in Keys, NEW c \in Contents, UpdatePut(r, k, c)
      PROVE  \/ /\ objects' = [objects EXCEPT ![k] = [content |-> c, rev |-> resourceRev + 1]]
                /\ resourceRev' = resourceRev + 1
             \/ UNCHANGED storeVars
  BY <1>3 DEF UpdatePut, Put
<1>4. ASSUME NEW r \in Requests, NEW k \in Keys, SweepDelete(r, k)
      PROVE  \/ /\ objects[k] # NoObject
                /\ objects' = [objects EXCEPT ![k] = NoObject]
                /\ resourceRev' = resourceRev + 1
             \/ UNCHANGED storeVars
  BY <1>4 DEF SweepDelete, Remove
<1>5. ASSUME \/ \E r \in Requests, k \in Keys : UpdateGet(r, k)
             \/ \E r \in Requests, s \in Selectors : SweepCollect(r, s)
             \/ \E w \in Watches, s \in Selectors, b \in BOOLEAN : WatchStart(w, s, b)
             \/ \E w \in Watches : Replay(w) \/ Receive(w) \/ WatchReturn(w)
             \/ UNCHANGED vars
      PROVE  UNCHANGED storeVars
  BY <1>5 DEF UpdateGet, SweepCollect, WatchStart, Replay, Receive, WatchReturn, vars, storeVars
<1> QED
  BY <1>1, <1>2, <1>3, <1>4, <1>5, Zenon DEF Next

\* A resourceVersion names one write, though requests write concurrently and
\* a refused put gives its revision back.
THEOREM RevisionsUnique == Spec => []RevisionsNameWrites
<1>1. Init => RevisionsNameWrites
  BY DEF Init, RevisionsNameWrites, Stored
<1>2. TypeOK /\ RevisionsNameWrites /\ [Next]_vars => RevisionsNameWrites'
  <2> SUFFICES ASSUME TypeOK, RevisionsNameWrites, [Next]_vars PROVE RevisionsNameWrites'
    OBVIOUS
  <2>1. ASSUME NEW k \in Keys, NEW c \in Contents,
               objects' = [objects EXCEPT ![k] = [content |-> c, rev |-> resourceRev + 1]],
               resourceRev' = resourceRev + 1
        PROVE  RevisionsNameWrites'
    BY <2>1 DEF TypeOK, RevisionsNameWrites, Stored, Object
  <2>2. ASSUME NEW k \in Keys,
               objects' = [objects EXCEPT ![k] = NoObject],
               resourceRev' = resourceRev + 1
        PROVE  RevisionsNameWrites'
    BY <2>2 DEF TypeOK, RevisionsNameWrites, Stored, Object
  <2>3. CASE UNCHANGED storeVars
    BY <2>3 DEF storeVars, RevisionsNameWrites, Stored
  <2> QED
    BY <2>1, <2>2, <2>3, StoreSteps
<1> QED
  BY <1>1, <1>2, TypeCorrect, PTL DEF Spec

\* The revision moves with every change of the store and with nothing else:
\* a put cannot leave the store as it was, because no stored object has the
\* revision it is about to use.
THEOREM RevisionMoves == Spec => EveryChangeMovesRevision
<1>1. ASSUME TypeOK, RevisionsNameWrites, [Next]_vars
      PROVE  /\ objects' # objects => resourceRev' = resourceRev + 1
             /\ objects' = objects => resourceRev' = resourceRev
  <2>1. ASSUME NEW k \in Keys, NEW c \in Contents,
               objects' = [objects EXCEPT ![k] = [content |-> c, rev |-> resourceRev + 1]]
        PROVE  objects' # objects
    <3>1. objects'[k] = [content |-> c, rev |-> resourceRev + 1]
      BY <1>1, <2>1 DEF TypeOK
    <3>2. CASE objects[k] = NoObject
      <4>1. [content |-> c, rev |-> resourceRev + 1] \in Object
        BY <1>1 DEF TypeOK, Object
      <4> QED
        BY <3>1, <3>2, <4>1, StoreConstants
    <3>3. CASE objects[k] # NoObject
      BY <1>1, <3>1, <3>3 DEF TypeOK, RevisionsNameWrites, Stored, Object
    <3> QED
      BY <3>2, <3>3
  <2>2. ASSUME NEW k \in Keys, objects[k] # NoObject,
               objects' = [objects EXCEPT ![k] = NoObject]
        PROVE  objects' # objects
    BY <1>1, <2>2 DEF TypeOK
  <2> QED
    BY <1>1, <2>1, <2>2, StoreSteps DEF storeVars
<1> QED
  BY <1>1, TypeCorrect, RevisionsUnique, PTL DEF Spec, EveryChangeMovesRevision

----------------------------------------------------------------------------
(* The limits of the store.                                                *)

\* An object is as long when it is stored as it was when it was measured: the
\* clone that goes through JSON keeps the encoding. (Numbers beyond the
\* precision of a float, which may gain a digit, are the exception.)
ClonesKeepSize == PutSize = StoredSize

\* The size of what each key holds.
Held == [k \in Keys |-> SizeOf(k)]

\* The inductive invariant: the limits, and the store's account as a sum over
\* the stored keys.
StoreAccount ==
    /\ IsFiniteSet(Stored)
    /\ Cardinality(Stored) <= MaxStoredObjects
    /\ storedBytes = Total(Held, Stored)
    /\ storedBytes <= MaxStoredBytes

\* Every step that touches the store is an accepted put, a removal of a stored
\* key, or leaves it alone.
LEMMA AccountSteps ==
  ASSUME [Next]_vars
  PROVE  \/ \E k \in Keys, c \in Contents :
              /\ objects[k] = NoObject => Cardinality(Stored) < MaxStoredObjects
              /\ storedBytes - OldBytes(k) + PutSize[c] <= MaxStoredBytes
              /\ objects' = [objects EXCEPT ![k] = [content |-> c, rev |-> resourceRev + 1]]
              /\ storedBytes' = storedBytes - OldBytes(k) + PutSize[c]
         \/ \E k \in Keys :
              /\ objects[k] # NoObject
              /\ objects' = [objects EXCEPT ![k] = NoObject]
              /\ storedBytes' = storedBytes - SizeOf(k)
         \/ UNCHANGED storeVars
<1>1. ASSUME NEW k \in Keys, NEW c \in Contents, NEW type, Put(k, c, type)
      PROVE  /\ objects[k] = NoObject => Cardinality(Stored) < MaxStoredObjects
             /\ storedBytes - OldBytes(k) + PutSize[c] <= MaxStoredBytes
             /\ objects' = [objects EXCEPT ![k] = [content |-> c, rev |-> resourceRev + 1]]
             /\ storedBytes' = storedBytes - OldBytes(k) + PutSize[c]
  BY <1>1 DEF Put, PutAccepts
<1>2. ASSUME NEW k \in Keys, Remove(k)
      PROVE  /\ objects[k] # NoObject
             /\ objects' = [objects EXCEPT ![k] = NoObject]
             /\ storedBytes' = storedBytes - SizeOf(k)
  BY <1>2 DEF Remove
<1>3. ASSUME NEW k \in Keys, NEW c \in Contents, Create(k, c)
      PROVE  Put(k, c, "ADDED")
  BY <1>3 DEF Create
<1>4. ASSUME NEW k \in Keys, Delete(k)
      PROVE  Remove(k)
  BY <1>4 DEF Delete
<1>5. ASSUME NEW r \in Requests, NEW k \in Keys, NEW c \in Contents, UpdatePut(r, k, c)
      PROVE  Put(k, c, "MODIFIED") \/ UNCHANGED storeVars
  BY <1>5 DEF UpdatePut
<1>6. ASSUME NEW r \in Requests, NEW k \in Keys, SweepDelete(r, k)
      PROVE  Remove(k) \/ UNCHANGED storeVars
  BY <1>6 DEF SweepDelete
<1>7. ASSUME \/ \E r \in Requests, k \in Keys : UpdateGet(r, k)
             \/ \E r \in Requests, s \in Selectors : SweepCollect(r, s)
             \/ \E w \in Watches, s \in Selectors, b \in BOOLEAN : WatchStart(w, s, b)
             \/ \E w \in Watches : Replay(w) \/ Receive(w) \/ WatchReturn(w)
             \/ UNCHANGED vars
      PROVE  UNCHANGED storeVars
  BY <1>7 DEF UpdateGet, SweepCollect, WatchStart, Replay, Receive, WatchReturn, vars, storeVars
<1> QED
  BY <1>1, <1>2, <1>3, <1>4, <1>5, <1>6, <1>7, Zenon DEF Next

\* The empty store is within its limits.
LEMMA InitStoreAccount == Init => StoreAccount
<1> SUFFICES ASSUME Init PROVE StoreAccount
  OBVIOUS
<1>1. Stored = {} /\ storedBytes = 0
  BY DEF Init, Stored
<1>2. IsFiniteSet({}) /\ Cardinality({}) = 0
  BY FS_EmptySet
<1>3. Total(Held, {}) = 0
  BY <1>2, TotalSteps
<1>4. MaxStoredObjects >= 0 /\ MaxStoredBytes >= 0
  BY StoreConstants
<1> QED
  BY <1>1, <1>2, <1>3, <1>4 DEF StoreAccount

\* A put and a removal keep the account and the limits.
LEMMA StepStoreAccount ==
  ASSUME ClonesKeepSize, TypeOK, StoreAccount, [Next]_vars
  PROVE  StoreAccount'
<1> DEFINE f == Held
           S == Stored
<1>0. /\ MaxStoredObjects \in Nat /\ MaxStoredBytes \in Nat
      /\ NoObject \notin Object /\ StoredSize \in [Contents -> Nat]
  BY StoreConstants
<1>1. /\ IsFiniteSet(S) /\ Cardinality(S) \in Nat /\ S \subseteq Keys
      /\ \A k \in S : f[k] = SizeOf(k) /\ f[k] \in Nat /\ f[k] \in Int
  <2>1. \A k \in S : k \in Keys /\ f[k] = SizeOf(k) /\ SizeOf(k) \in Nat
    BY SizesAreNat DEF Stored, Held
  <2>2. IsFiniteSet(S) /\ S \subseteq Keys
    BY DEF StoreAccount, Stored
  <2> QED
    BY <2>1, <2>2, FS_CardinalityType
<1>2. storedBytes = Total(f, S) /\ storedBytes \in Int /\ storedBytes <= MaxStoredBytes
  BY DEF StoreAccount, TypeOK
<1>3. ASSUME NEW k \in S
      PROVE  /\ Total(f, S) = f[k] + Total(f, S \ {k}) /\ Total(f, S \ {k}) \in Int
             /\ IsFiniteSet(S \ {k})
  <2>1. IsFiniteSet(S \ {k})
    BY <1>1, FS_RemoveElement
  <2>2. \A j \in S : f[j] \in Int
    BY <1>1
  <2> HIDE DEF f, S
  <2> QED
    BY <1>1, <2>1, <2>2, TotalSteps
<1>4. ASSUME NEW k \in Keys, NEW c \in Contents,
             objects[k] = NoObject => Cardinality(Stored) < MaxStoredObjects,
             storedBytes - OldBytes(k) + PutSize[c] <= MaxStoredBytes,
             objects' = [objects EXCEPT ![k] = [content |-> c, rev |-> resourceRev + 1]],
             storedBytes' = storedBytes - OldBytes(k) + PutSize[c]
      PROVE  StoreAccount'
  <2> DEFINE rest == S \ {k}
             new == [content |-> c, rev |-> resourceRev + 1]
  <2>1. new \in Object /\ new # NoObject /\ new.content = c
    BY <1>0 DEF Object, TypeOK
  <2>2. PutSize[c] = StoredSize[c] /\ PutSize[c] \in Nat
    BY <1>0 DEF ClonesKeepSize
  <2>3. objects' = [objects EXCEPT ![k] = new]
    BY <1>4
  <2> HIDE DEF new
  <2>4. Stored' = S \cup {k} /\ Stored' = rest \cup {k} /\ k \notin rest
    BY <2>1, <2>3 DEF Stored, TypeOK
  <2>5. Held'[k] = PutSize[c] /\ \A j \in rest : Held'[j] = f[j]
    BY <2>1, <2>2, <2>3 DEF Held, SizeOf, TypeOK, Stored
  <2>6. IsFiniteSet(rest) /\ Total(f, rest) \in Int /\ storedBytes = OldBytes(k) + Total(f, rest)
    <3>1. CASE k \in S
      <4>1. OldBytes(k) = f[k] /\ f[k] \in Nat
        BY <1>1, <3>1 DEF OldBytes, Stored
      <4> QED
        BY <1>2, <1>3, <3>1, <4>1
    <3>2. CASE k \notin S
      <4>1. rest = S /\ OldBytes(k) = 0
        BY <3>2 DEF OldBytes, Stored
      <4>2. Total(f, S) \in Int
        BY <1>2
      <4> QED
        BY <1>1, <1>2, <4>1, <4>2
    <3> QED
      BY <3>1, <3>2
  <2>7. Total(Held', rest \cup {k}) = PutSize[c] + Total(f, rest)
    <3> DEFINE h == Held'
    <3>1. \A j \in rest : h[j] = f[j]
      BY <2>5
    <3>2. \A j \in rest \cup {k} : h[j] \in Int
      BY <1>1, <2>2, <2>5
    <3> HIDE DEF h, f, S, rest
    <3>3. Total(h, rest) = Total(f, rest)
      BY <2>6, <3>1, TotalSame
    <3>4. Total(h, rest \cup {k}) = h[k] + Total(h, rest)
      BY <2>4, <2>6, <3>2, TotalAdd
    <3> QED
      BY <2>5, <3>3, <3>4 DEF h
  <2>8. OldBytes(k) \in Nat
    BY SizesAreNat
  <2>9. storedBytes' = Total(Held', Stored') /\ storedBytes' <= MaxStoredBytes
    <3> HIDE DEF f, rest
    <3>1. storedBytes' = PutSize[c] + Total(f, rest)
      BY <1>4, <2>2, <2>6, <2>8
    <3>2. storedBytes' = Total(Held', rest \cup {k})
      BY <2>7, <3>1
    <3> QED
      BY <1>4, <2>4, <3>2
  <2>10. IsFiniteSet(S \cup {k})
         /\ Cardinality(S \cup {k}) = IF k \in S THEN Cardinality(S) ELSE Cardinality(S) + 1
    BY <1>1, FS_AddElement
  <2>11. Cardinality(S) <= MaxStoredObjects /\ (k \notin S => Cardinality(S) < MaxStoredObjects)
    BY <1>4 DEF StoreAccount, Stored
  <2>12. IsFiniteSet(Stored') /\ Cardinality(Stored') <= MaxStoredObjects
    BY <1>0, <1>1, <2>4, <2>10, <2>11
  <2> QED
    BY <2>9, <2>12 DEF StoreAccount
<1>5. ASSUME NEW k \in Keys, objects[k] # NoObject,
             objects' = [objects EXCEPT ![k] = NoObject],
             storedBytes' = storedBytes - SizeOf(k)
      PROVE  StoreAccount'
  <2>1. k \in S /\ Stored' = S \ {k}
    BY <1>5 DEF Stored, TypeOK
  <2>2. \A j \in S \ {k} : Held'[j] = f[j]
    BY <1>5 DEF Held, SizeOf, TypeOK, Stored
  <2>3. Total(Held', S \ {k}) = Total(f, S \ {k})
    <3> DEFINE h == Held'
    <3>1. \A j \in S \ {k} : h[j] = f[j]
      BY <2>2
    <3>2. IsFiniteSet(S \ {k})
      BY <1>3, <2>1
    <3> HIDE DEF h, f, S
    <3>3. Total(h, S \ {k}) = Total(f, S \ {k})
      BY <3>1, <3>2, TotalSame
    <3> QED
      BY <3>3 DEF h
  <2>4. SizeOf(k) = f[k] /\ f[k] \in Nat
    BY <1>1, <2>1
  <2>5. /\ Total(f, S) = f[k] + Total(f, S \ {k}) /\ Total(f, S \ {k}) \in Int
        /\ IsFiniteSet(S \ {k})
    BY <1>3, <2>1
  <2>6. storedBytes' = Total(Held', Stored') /\ storedBytes' <= MaxStoredBytes
    <3> HIDE DEF f, S
    <3>1. storedBytes' = storedBytes - f[k]
      BY <1>5, <2>4
    <3> QED
      BY <1>0, <1>2, <2>1, <2>3, <2>4, <2>5, <3>1
  <2>7. Cardinality(S \ {k}) = Cardinality(S) - 1
    BY <1>1, <2>1, FS_RemoveElement
  <2>8. Cardinality(S) <= MaxStoredObjects
    BY DEF StoreAccount
  <2> QED
    BY <1>0, <1>1, <2>1, <2>5, <2>6, <2>7, <2>8 DEF StoreAccount
<1>6. CASE UNCHANGED storeVars
  <2>1. Stored' = Stored /\ Held' = Held /\ storedBytes' = storedBytes
    BY <1>6 DEF storeVars, Stored, Held, SizeOf
  <2> QED
    BY <2>1 DEF StoreAccount
<1> QED
  BY <1>4, <1>5, <1>6, AccountSteps

\* The account's sum is the one the property computes with MapThenSumSet.
LEMMA StoreAccountIsFold ==
  ASSUME TypeOK, StoreAccount
  PROVE  StoredWithinLimits
<1> DEFINE eq(it) == it = [s \in SUBSET Stored |->
                             IF s = {} THEN 0
                             ELSE LET x == CHOOSE x \in s : TRUE
                                  IN SizeOf(x) + it[s \ {x}]]
<1>0. IsFiniteSet(Stored) /\ \A k \in Stored : SizeOf(k) = Held[k]
  BY DEF StoreAccount, Stored, Held
<1>1. PICK g : IsSum(Held, Stored, g)
  BY <1>0, SumExists
<1>2. \A it : eq(it) <=> IsSum(Held, Stored, it)
  <2>1. ASSUME NEW s \in SUBSET Stored, s # {}
        PROVE  SizeOf(CHOOSE x \in s : TRUE) = Held[CHOOSE x \in s : TRUE]
    <3>1. (CHOOSE x \in s : TRUE) \in Stored
      BY <2>1
    <3> QED
      BY <3>1, <1>0
  <2> QED
    BY <2>1 DEF IsSum, Any
<1>3. eq(g)
  BY <1>1, <1>2
<1> DEFINE it == CHOOSE p : eq(p)
<1>4. eq(it)
  BY <1>3
<1>5. MapThenSumSet(SizeOf, Stored) = it[Stored]
  BY DEF MapThenSumSet, MapThenFoldSet
<1>6. it[Stored] = Total(Held, Stored)
  <2>1. IsSum(Held, Stored, it)
    BY <1>2, <1>4
  <2> HIDE DEF it
  <2>2. \A s \in SUBSET Stored : it[s] = Total(Held, s)
    BY <2>1, <1>0, TotalIs
  <2> QED
    BY <2>2
<1> QED
  BY <1>5, <1>6 DEF StoreAccount, StoredWithinLimits

\* Through every interleaving of puts, replacements and deletes the store is
\* within its limits and its account is the size of what it holds, as long as
\* clones keep their size.
THEOREM StoreWithinLimits ==
  ASSUME ClonesKeepSize
  PROVE  Spec => []StoredWithinLimits
<1>1. TypeOK /\ StoreAccount => StoredWithinLimits
  BY StoreAccountIsFold
<1>2. TypeOK /\ StoreAccount /\ [Next]_vars => StoreAccount'
  BY StepStoreAccount
<1> QED
  BY <1>1, <1>2, TypeCorrect, InitStoreAccount, PTL DEF Spec

----------------------------------------------------------------------------
(* Watch slots.                                                            *)

\* The watch requests in progress.
Active == {w \in Watches : wpc[w] # "idle"}

\* The slots taken are the watch requests in progress, evicted or not.
THEOREM SlotsBalanced == Spec => []WatchSlotsBalanced
<1>1. Init => WatchSlotsBalanced
  <2> SUFFICES ASSUME Init PROVE WatchSlotsBalanced
    OBVIOUS
  <2>1. {w \in Watches : wpc[w] # "idle"} = {}
    BY DEF Init
  <2>2. Cardinality({w \in Watches : wpc[w] # "idle"}) = 0
    BY <2>1, FS_EmptySet, Zenon
  <2>3. watchSlots = 0 /\ watchers = {} /\ MaxWatchSlots >= 0
    BY StoreConstants DEF Init
  <2> QED
    BY <2>2, <2>3 DEF WatchSlotsBalanced
<1>2. TypeOK /\ Registered /\ Registered' /\ WatchSlotsBalanced /\ [Next]_vars
        => WatchSlotsBalanced'
  <2> SUFFICES ASSUME TypeOK, Registered, Registered', WatchSlotsBalanced, [Next]_vars
               PROVE  WatchSlotsBalanced'
    OBVIOUS
  <2>1. IsFiniteSet(Active) /\ Cardinality(Active) \in Nat
    <3>1. Active \subseteq Watches
      BY DEF Active
    <3> QED
      BY <3>1, FS_Subset, FS_CardinalityType, StoreConstants
  <2>2. watchSlots = Cardinality(Active) /\ watchSlots <= MaxWatchSlots
    BY DEF WatchSlotsBalanced, Active
  <2>3. SUFFICES watchSlots' = Cardinality(Active') /\ watchSlots' <= MaxWatchSlots
    BY DEF WatchSlotsBalanced, Active, Registered
  <2>4. ASSUME NEW w \in Watches, NEW s \in Selectors, NEW b \in BOOLEAN, WatchStart(w, s, b)
        PROVE  watchSlots' = Cardinality(Active') /\ watchSlots' <= MaxWatchSlots
    <3>1. w \notin Active /\ Active' = Active \cup {w}
      BY <2>4 DEF WatchStart, Active, TypeOK
    <3>2. Cardinality(Active') = Cardinality(Active) + 1
      BY <2>1, <3>1, FS_AddElement
    <3> QED
      BY <2>1, <2>2, <2>4, <3>2, StoreConstants DEF WatchStart
  <2>5. ASSUME NEW w \in Watches, WatchReturn(w)
        PROVE  watchSlots' = Cardinality(Active') /\ watchSlots' <= MaxWatchSlots
    <3>1. w \in Active /\ Active' = Active \ {w}
      BY <2>5 DEF WatchReturn, Active, TypeOK
    <3>2. Cardinality(Active') = Cardinality(Active) - 1
      BY <2>1, <3>1, FS_RemoveElement
    <3> QED
      BY <2>1, <2>2, <2>5, <3>2, StoreConstants DEF WatchReturn
  <2>6. ASSUME NEW w \in Watches, Replay(w)
        PROVE  watchSlots' = Cardinality(Active') /\ watchSlots' <= MaxWatchSlots
    <3>1. Active' = Active /\ watchSlots' = watchSlots
      BY <2>6 DEF Replay, Active, TypeOK
    <3> QED
      BY <2>2, <3>1
  <2>7. ASSUME wpc' = wpc, watchSlots' = watchSlots
        PROVE  watchSlots' = Cardinality(Active') /\ watchSlots' <= MaxWatchSlots
    <3>1. Active' = Active
      BY <2>7 DEF Active
    <3> QED
      BY <2>2, <2>7, <3>1
  <2>8. ASSUME \/ \E k \in Keys, c \in Contents : Create(k, c)
               \/ \E k \in Keys : Delete(k)
               \/ \E r \in Requests, k \in Keys : UpdateGet(r, k)
               \/ \E r \in Requests, k \in Keys, c \in Contents : UpdatePut(r, k, c)
               \/ \E r \in Requests, s \in Selectors : SweepCollect(r, s)
               \/ \E r \in Requests, k \in Keys : SweepDelete(r, k)
               \/ \E w \in Watches : Receive(w)
               \/ UNCHANGED vars
        PROVE  wpc' = wpc /\ watchSlots' = watchSlots
    BY <2>8 DEF Create, Delete, UpdateGet, UpdatePut, SweepCollect, SweepDelete, Receive,
                vars, watchVars
  <2> QED
    BY <2>4, <2>5, <2>6, <2>7, <2>8 DEF Next
<1> QED
  BY <1>1, <1>2, TypeCorrect, NeverPanics, PTL DEF Spec

----------------------------------------------------------------------------
(* Watches lose no change.                                                 *)

\* What a publication does to the buffered events of a watch that stays
\* registered: one more about the key it selects, and no other.
LEMMA PublishPending ==
  ASSUME TypeOK, NEW k \in Keys, NEW o \in Object, NEW type,
         Publish(k, type, o), UNCHANGED sel, NEW w \in watchers', NEW j \in Keys
  PROVE  /\ j = k /\ Selects(sel[w], k, o) =>
              /\ Pending(w, j)' # {}
              /\ \A i \in Pending(w, j)' : (\A n \in Pending(w, j)' : n <= i) =>
                    Tells(ch'[w][i]) = IF type = "DELETED" THEN NoObject ELSE o
         /\ ~ (j = k /\ Selects(sel[w], k, o)) =>
              /\ Pending(w, j)' = Pending(w, j)
              /\ \A i \in Pending(w, j) : ch'[w][i] = ch[w][i]
<1> DEFINE ev == [type |-> type, key |-> k, object |-> o]
<1>1. w \in watchers /\ w \in Watches /\ w \notin Slow(k, o) /\ ch[w] \in Seq(Event)
  BY DEF TypeOK, Publish
<1>2. CASE Selects(sel[w], k, o)
  <2>1. ch'[w] = Append(ch[w], ev)
    BY <1>1, <1>2 DEF Publish, Interested
  <2>2. /\ Len(ch'[w]) = Len(ch[w]) + 1 /\ Len(ch[w]) \in Nat
        /\ ch'[w][Len(ch[w]) + 1] = ev
        /\ \A i \in 1 .. Len(ch[w]) : ch'[w][i] = ch[w][i]
    <3> HIDE DEF ev
    <3> QED
      BY <1>1, <2>1
  <2>3. CASE j = k
    <3>1. Len(ch[w]) + 1 \in Pending(w, j)' /\ \A i \in Pending(w, j)' : i \in Nat /\ i <= Len(ch[w]) + 1
      BY <2>2, <2>3 DEF Pending
    <3>2. ASSUME NEW i \in Pending(w, j)', \A n \in Pending(w, j)' : n <= i
          PROVE  ch'[w][i] = ev
      <4>1. i = Len(ch[w]) + 1
        BY <2>2, <3>1, <3>2
      <4> HIDE DEF ev
      <4> QED
        BY <2>2, <4>1
    <3> QED
      BY <1>2, <2>3, <3>1, <3>2 DEF Tells
  <2>4. CASE j # k
    <3>1. \A i : i \in Pending(w, j)' <=> i \in Pending(w, j)
      BY <2>2, <2>4 DEF Pending
    <3>2. \A i \in Pending(w, j) : ch'[w][i] = ch[w][i]
      BY <2>2 DEF Pending
    <3> QED
      BY <2>4, <3>1, <3>2
  <2> QED
    BY <2>3, <2>4
<1>3. CASE ~ Selects(sel[w], k, o)
  <2>1. ch'[w] = ch[w]
    BY <1>1, <1>3 DEF Publish, Interested
  <2> QED
    BY <1>3, <2>1 DEF Pending
<1> QED
  BY <1>2, <1>3

\* A write and its publication keep what registered watches will know right.
LEMMA PublishConverges ==
  ASSUME TypeOK, WatchViewConverges, NEW k \in Keys, NEW o \in Object, NEW type,
         Publish(k, type, o), UNCHANGED <<wpc, sel, view, unseen>>,
         objects' = [objects EXCEPT ![k] = IF type = "DELETED" THEN NoObject ELSE o],
         type = "DELETED" => objects[k] = o
  PROVE  WatchViewConverges'
<1> SUFFICES ASSUME NEW w \in watchers', NEW j \in Keys, Informed(w, j)', j \in sel[w].keys
             PROVE  /\ Selects(sel[w], j, objects'[j]) => WillKnow(w, j, objects[j])'
                    /\ objects'[j] = NoObject /\ sel[w].contents = Contents
                            => WillKnow(w, j, NoObject)'
  BY DEF WatchViewConverges, Selects
<1>1. w \in watchers /\ w \in Watches
  BY DEF TypeOK, Publish
<1>2. CASE j = k /\ Selects(sel[w], k, o)
  <2>1. objects'[j] = IF type = "DELETED" THEN NoObject ELSE o
    BY <1>2 DEF TypeOK
  <2>2. o # NoObject
    BY StoreConstants
  <2>3. WillKnow(w, j, objects[j])'
    BY <1>2, <2>1, PublishPending DEF WillKnow
  <2>4. objects'[j] = NoObject => WillKnow(w, j, NoObject)'
    BY <1>2, <2>1, <2>2, PublishPending DEF WillKnow
  <2> QED
    BY <2>3, <2>4
<1>3. CASE j = k /\ ~ Selects(sel[w], k, o)
  <2>1. objects'[j] = IF type = "DELETED" THEN NoObject ELSE o
    BY <1>3 DEF TypeOK
  <2>2. o # NoObject /\ o.content \in Contents
    BY StoreConstants DEF Object
  <2>3. ~ Selects(sel[w], j, objects'[j])
    BY <1>3, <2>1, <2>2 DEF Selects
  <2>4. sel[w].contents # Contents
    BY <1>3, <2>2 DEF Selects
  <2> QED
    BY <2>3, <2>4
<1>4. CASE j # k
  <2>1. objects'[j] = objects[j]
    BY <1>4 DEF TypeOK
  <2>2. Pending(w, j)' = Pending(w, j) /\ \A i \in Pending(w, j) : ch'[w][i] = ch[w][i]
    BY <1>4, PublishPending
  <2>3. Informed(w, j)
    BY <2>2 DEF Informed
  <2>4. ASSUME NEW v, WillKnow(w, j, v)
        PROVE  /\ Pending(w, j)' = {} => view'[w][j] = v
               /\ \A i \in Pending(w, j)' :
                    (\A n \in Pending(w, j)' : n <= i) => Tells(ch'[w][i]) = v
    BY <2>2, <2>4 DEF WillKnow
  <2>5. WillKnow(w, j, objects[j]) => WillKnow(w, j, objects[j])'
    BY <2>1, <2>4 DEF WillKnow
  <2>6. WillKnow(w, j, NoObject) => WillKnow(w, j, NoObject)'
    BY <2>4 DEF WillKnow
  <2> QED
    BY <1>1, <2>1, <2>3, <2>5, <2>6 DEF WatchViewConverges
<1> QED
  BY <1>2, <1>3, <1>4

\* A replay tells of every key it does not leave out as it is in the store;
\* the changes published since the registration are still buffered.
LEMMA ReplayConverges ==
  ASSUME TypeOK, WatchViewConverges, NEW w \in Watches, Replay(w)
  PROVE  WatchViewConverges'
<1> SUFFICES ASSUME NEW v \in watchers', NEW k \in Keys, Informed(v, k)', k \in sel[v].keys
             PROVE  /\ Selects(sel[v], k, objects[k]) => WillKnow(v, k, objects[k])'
                    /\ objects[k] = NoObject /\ sel[v].contents = Contents
                            => WillKnow(v, k, NoObject)'
  BY DEF WatchViewConverges, Selects, Replay, storeVars
<1>1. v \in watchers /\ v \in Watches /\ ch' = ch
  BY DEF TypeOK, Replay
<1>2. Pending(v, k)' = Pending(v, k)
  BY <1>1 DEF Pending
<1>3. CASE Pending(v, k) # {}
  <2>1. Informed(v, k)
    BY <1>3 DEF Informed
  <2>2. WillKnow(v, k, objects[k]) => WillKnow(v, k, objects[k])'
    BY <1>1, <1>2, <1>3 DEF WillKnow, Replay, storeVars
  <2>3. WillKnow(v, k, NoObject) => WillKnow(v, k, NoObject)'
    BY <1>1, <1>2, <1>3 DEF WillKnow
  <2> QED
    BY <1>1, <2>1, <2>2, <2>3 DEF WatchViewConverges
<1>4. CASE Pending(v, k) = {} /\ v # w
  <2>1. view'[v] = view[v] /\ unseen'[v] = unseen[v] /\ wpc'[v] = wpc[v]
    BY <1>1, <1>4 DEF Replay, TypeOK
  <2>2. Informed(v, k)
    BY <1>2, <2>1 DEF Informed
  <2>3. WillKnow(v, k, objects[k]) => WillKnow(v, k, objects[k])'
    BY <1>1, <1>2, <2>1 DEF WillKnow, Replay, storeVars
  <2>4. WillKnow(v, k, NoObject) => WillKnow(v, k, NoObject)'
    BY <1>1, <1>2, <2>1 DEF WillKnow
  <2> QED
    BY <1>1, <2>2, <2>3, <2>4 DEF WatchViewConverges
<1>5. CASE Pending(v, k) = {} /\ v = w
  <2> DEFINE M == Matching(sel[w])
             page == FirstPage(M)
  <2>1. view'[w][k] = (IF k \in page THEN objects[k] ELSE NoObject)
    BY DEF Replay, TypeOK
  <2>2. k \notin unseen'[w] /\ unseen'[w] = M \ page
    BY <1>2, <1>5 DEF Informed, Replay, TypeOK
  <2>3. Selects(sel[w], k, objects[k]) => k \in M
    BY DEF Matching
  <2>4. Selects(sel[w], k, objects[k]) => view'[w][k] = objects[k]
    BY <2>1, <2>2, <2>3
  <2>5. objects[k] = NoObject => view'[w][k] = NoObject
    BY <2>1
  <2>6. Pending(v, k)' = {} /\ objects' = objects
    BY <1>2, <1>5 DEF Replay, storeVars
  <2> QED
    BY <1>5, <2>4, <2>5, <2>6 DEF WillKnow
<1> QED
  BY <1>3, <1>4, <1>5

\* Reading an event moves it from the channel to what the client knows.
LEMMA ReceiveConverges ==
  ASSUME TypeOK, WatchViewConverges, NEW w \in Watches, Receive(w)
  PROVE  WatchViewConverges'
<1> SUFFICES ASSUME NEW v \in watchers', NEW k \in Keys, Informed(v, k)', k \in sel[v].keys
             PROVE  /\ Selects(sel[v], k, objects[k]) => WillKnow(v, k, objects[k])'
                    /\ objects[k] = NoObject /\ sel[v].contents = Contents
                            => WillKnow(v, k, NoObject)'
  BY DEF WatchViewConverges, Selects, Receive, storeVars
<1>1. v \in watchers /\ v \in Watches /\ objects' = objects
  BY DEF TypeOK, Receive, storeVars
<1> SUFFICES /\ Informed(v, k)
             /\ \A o : WillKnow(v, k, o) =>
                  /\ Pending(v, k)' = {} => view'[v][k] = o
                  /\ \A i \in Pending(v, k)' :
                       (\A n \in Pending(v, k)' : n <= i) => Tells(ch'[v][i]) = o
  BY <1>1 DEF WatchViewConverges, WillKnow
<1>2. CASE v # w
  <2>1. /\ ch'[v] = ch[v] /\ view'[v] = view[v]
        /\ unseen'[v] = unseen[v] /\ wpc'[v] = wpc[v]
    BY <1>1, <1>2 DEF Receive, TypeOK
  <2>2. Pending(v, k)' = Pending(v, k)
    BY <2>1 DEF Pending
  <2> QED
    BY <2>1, <2>2 DEF Informed, WillKnow
<1>3. CASE v = w
  <2> DEFINE e == Head(ch[w])
  <2>1. ch[w] \in Seq(Event) /\ ch[w] # << >> /\ ch'[w] = Tail(ch[w]) /\ e = ch[w][1]
    BY DEF Receive, TypeOK
  <2>2. /\ Len(ch[w]) \in Nat /\ Len(ch[w]) >= 1 /\ Len(ch'[w]) = Len(ch[w]) - 1
        /\ \A i \in 1 .. Len(ch'[w]) : ch'[w][i] = ch[w][i + 1]
    BY <2>1
  <2>3. e.key \in Keys
    <3>1. ch[w][1] \in Event
      BY <2>1, <2>2
    <3> QED
      BY <2>1, <3>1 DEF Event
  <2>4. /\ wpc[w] = "stream" /\ wpc'[w] = "stream"
        /\ unseen'[w] = unseen[w] \ {e.key}
        /\ view'[w][k] = IF k = e.key THEN Tells(e) ELSE view[w][k]
    BY <2>3 DEF Receive, TypeOK
  <2> HIDE DEF e
  <2>5. \A i \in Nat : i \in Pending(w, k)' <=> (i >= 1 /\ i + 1 \in Pending(w, k))
    BY <2>2 DEF Pending
  <2>6. 1 \in Pending(w, k) <=> k = e.key
    BY <2>1, <2>2 DEF Pending
  <2>7. Pending(w, k) \subseteq Nat \ {0} /\ Pending(w, k)' \subseteq Nat \ {0}
    BY <2>2 DEF Pending
  <2>8. Informed(w, k)
    <3>1. CASE Pending(w, k)' # {}
      BY <2>5, <2>7, <3>1 DEF Informed
    <3>2. CASE k \notin unseen'[w]
      BY <2>4, <2>6, <3>2 DEF Informed
    <3> QED
      BY <1>3, <3>1, <3>2 DEF Informed
  <2>9. ASSUME NEW o, WillKnow(w, k, o)
        PROVE  /\ Pending(w, k)' = {} => view'[w][k] = o
               /\ \A i \in Pending(w, k)' :
                    (\A n \in Pending(w, k)' : n <= i) => Tells(ch'[w][i]) = o
    <3>1. ASSUME Pending(w, k)' = {}
          PROVE  view'[w][k] = o
      <4>1. \A i \in Pending(w, k) : i = 1
        <5>1. ASSUME NEW i \in Pending(w, k), i # 1 PROVE FALSE
          <6>1. i \in Nat /\ i - 1 \in Nat /\ i - 1 >= 1 /\ (i - 1) + 1 = i
            BY <2>7, <5>1
          <6> QED
            BY <2>5, <3>1, <5>1, <6>1
        <5> QED
          BY <5>1
      <4>2. CASE k = e.key
        <5>1. 1 \in Pending(w, k)
          BY <2>6, <4>2
        <5>2. Tells(ch[w][1]) = o
          BY <2>9, <4>1, <5>1 DEF WillKnow
        <5> QED
          BY <2>1, <2>4, <4>2, <5>2
      <4>3. CASE k # e.key
        <5>1. Pending(w, k) = {}
          BY <2>6, <4>1, <4>3
        <5> QED
          BY <2>4, <2>9, <4>3, <5>1 DEF WillKnow
      <4> QED
        BY <4>2, <4>3
    <3>2. ASSUME NEW i \in Pending(w, k)', \A n \in Pending(w, k)' : n <= i
          PROVE  Tells(ch'[w][i]) = o
      <4>1. i \in Nat /\ i >= 1 /\ i + 1 \in Pending(w, k)
        BY <2>5, <2>7, <3>2
      <4>2. ASSUME NEW n \in Pending(w, k) PROVE n <= i + 1
        <5>1. CASE n = 1
          BY <4>1, <5>1
        <5>2. CASE n # 1
          <6>1. n - 1 \in Nat /\ n - 1 >= 1 /\ (n - 1) + 1 = n
            BY <2>7, <4>2, <5>2
          <6>2. n - 1 \in Pending(w, k)'
            BY <2>5, <4>2, <6>1
          <6> QED
            BY <3>2, <4>1, <6>1, <6>2
        <5> QED
          BY <5>1, <5>2
      <4>3. Tells(ch[w][i + 1]) = o
        BY <2>9, <4>1, <4>2 DEF WillKnow
      <4>4. ch'[w][i] = ch[w][i + 1]
        BY <2>2, <3>2 DEF Pending
      <4> QED
        BY <4>3, <4>4
    <3> QED
      BY <3>1, <3>2
  <2> QED
    BY <1>3, <2>8, <2>9
<1> QED
  BY <1>2, <1>3

\* A step that changes neither the store nor the channels of watches that
\* stay registered changes nothing of what they will know.
LEMMA OthersConverge ==
  ASSUME TypeOK, WatchViewConverges, UNCHANGED storeVars,
         \A w \in watchers' : /\ w \in watchers
                              /\ ch'[w] = ch[w] /\ view'[w] = view[w] /\ unseen'[w] = unseen[w]
                              /\ wpc'[w] = wpc[w] /\ sel'[w] = sel[w]
  PROVE  WatchViewConverges'
<1> SUFFICES ASSUME NEW w \in watchers', NEW k \in Keys, Informed(w, k)', k \in sel'[w].keys
             PROVE  /\ Selects(sel'[w], k, objects[k]) => WillKnow(w, k, objects[k])'
                    /\ objects[k] = NoObject /\ sel'[w].contents = Contents
                            => WillKnow(w, k, NoObject)'
  BY DEF WatchViewConverges, Selects, storeVars
<1>1. Pending(w, k)' = Pending(w, k)
  BY DEF Pending
<1>2. Informed(w, k)
  BY <1>1 DEF Informed
<1>3. WillKnow(w, k, objects[k]) => WillKnow(w, k, objects[k])'
  BY <1>1 DEF WillKnow, storeVars
<1>4. WillKnow(w, k, NoObject) => WillKnow(w, k, NoObject)'
  BY <1>1 DEF WillKnow
<1> QED
  BY <1>2, <1>3, <1>4 DEF WatchViewConverges

\* No registered watch loses a change: once its client has read what is
\* buffered, it knows every key it has been told of as it is in the store.
THEOREM WatchesConverge == Spec => []WatchViewConverges
<1>1. Init => WatchViewConverges
  BY DEF Init, WatchViewConverges
<1>2. TypeOK /\ Registered /\ WatchViewConverges /\ [Next]_vars => WatchViewConverges'
  <2> SUFFICES ASSUME TypeOK, Registered, WatchViewConverges, [Next]_vars
               PROVE  WatchViewConverges'
    OBVIOUS
  <2>1. ASSUME NEW k \in Keys, NEW c \in Contents, NEW type \in {"ADDED", "MODIFIED"},
               Put(k, c, type), UNCHANGED <<wpc, sel, view, unseen>>
        PROVE  WatchViewConverges'
    <3> DEFINE o == [content |-> c, rev |-> resourceRev + 1]
    <3>1. o \in Object
      BY DEF TypeOK, Object
    <3>2. /\ Publish(k, type, o) /\ type # "DELETED"
          /\ objects' = [objects EXCEPT ![k] = IF type = "DELETED" THEN NoObject ELSE o]
      BY <2>1 DEF Put
    <3> HIDE DEF o
    <3> QED
      BY <2>1, <3>1, <3>2, PublishConverges
  <2>2. ASSUME NEW k \in Keys, Remove(k), UNCHANGED <<wpc, sel, view, unseen>>
        PROVE  WatchViewConverges'
    <3>1. objects[k] \in Object
      BY <2>2 DEF TypeOK, Remove
    <3>2. objects' = [objects EXCEPT ![k] = IF "DELETED" = "DELETED" THEN NoObject ELSE objects[k]]
      BY <2>2 DEF Remove
    <3> QED
      BY <2>2, <3>1, <3>2, PublishConverges DEF Remove
  <2>3. ASSUME NEW k \in Keys, NEW c \in Contents, Create(k, c)
        PROVE  WatchViewConverges'
    BY <2>1, <2>3 DEF Create
  <2>4. ASSUME NEW k \in Keys, Delete(k)
        PROVE  WatchViewConverges'
    BY <2>2, <2>4 DEF Delete
  <2>5. ASSUME NEW r \in Requests, NEW k \in Keys, NEW c \in Contents, UpdatePut(r, k, c)
        PROVE  WatchViewConverges'
    <3>1. CASE Put(k, c, "MODIFIED")
      BY <2>1, <2>5, <3>1 DEF UpdatePut
    <3>2. CASE UNCHANGED <<storeVars, watchers, ch, closed, panicked>>
      BY <2>5, <3>2, OthersConverge DEF UpdatePut
    <3> QED
      BY <2>5, <3>1, <3>2 DEF UpdatePut
  <2>6. ASSUME NEW r \in Requests, NEW k \in Keys, SweepDelete(r, k)
        PROVE  WatchViewConverges'
    <3>1. CASE Remove(k)
      BY <2>2, <2>6, <3>1 DEF SweepDelete
    <3>2. CASE UNCHANGED <<storeVars, watchers, ch, closed, panicked>>
      BY <2>6, <3>2, OthersConverge DEF SweepDelete
    <3> QED
      BY <2>6, <3>1, <3>2 DEF SweepDelete
  <2>7. ASSUME NEW w \in Watches, NEW s \in Selectors, NEW b \in BOOLEAN, WatchStart(w, s, b)
        PROVE  WatchViewConverges'
    <3>1. ASSUME NEW k \in Keys PROVE ~ Informed(w, k)'
      <4>1. ch'[w] = << >> /\ unseen'[w] = Keys
        BY <2>7 DEF WatchStart, Registered
      <4>2. Pending(w, k)' = {}
        BY <4>1 DEF Pending
      <4> QED
        BY <4>1, <4>2 DEF Informed
    <3>2. ASSUME NEW v \in watchers', NEW k \in Keys, v # w, Informed(v, k)', k \in sel'[v].keys
          PROVE  /\ Selects(sel'[v], k, objects'[k]) => WillKnow(v, k, objects[k])'
                 /\ objects'[k] = NoObject /\ sel'[v].contents = Contents
                         => WillKnow(v, k, NoObject)'
      <4>1. /\ v \in watchers /\ v \in Watches /\ wpc'[v] = wpc[v] /\ sel'[v] = sel[v]
            /\ ch' = ch /\ view' = view /\ unseen' = unseen /\ objects' = objects
        BY <2>7, <3>2 DEF WatchStart, TypeOK, storeVars
      <4>2. Pending(v, k)' = Pending(v, k)
        BY <4>1 DEF Pending
      <4>3. Informed(v, k)
        BY <3>2, <4>1, <4>2 DEF Informed
      <4>4. WillKnow(v, k, objects[k]) => WillKnow(v, k, objects[k])'
        BY <4>1, <4>2 DEF WillKnow
      <4>5. WillKnow(v, k, NoObject) => WillKnow(v, k, NoObject)'
        BY <4>1, <4>2 DEF WillKnow
      <4> QED
        BY <3>2, <4>1, <4>3, <4>4, <4>5 DEF WatchViewConverges, Selects
    <3> QED
      BY <3>1, <3>2 DEF WatchViewConverges, Selects
  <2>8. ASSUME NEW w \in Watches, WatchReturn(w)
        PROVE  WatchViewConverges'
    <3>1. \A v \in watchers' : /\ v \in watchers
                               /\ ch'[v] = ch[v] /\ view'[v] = view[v] /\ unseen'[v] = unseen[v]
                               /\ wpc'[v] = wpc[v] /\ sel'[v] = sel[v]
      BY <2>8 DEF WatchReturn, TypeOK
    <3> QED
      BY <2>8, <3>1, OthersConverge DEF WatchReturn
  <2>9. ASSUME \/ \E r \in Requests, k \in Keys : UpdateGet(r, k)
               \/ \E r \in Requests, s \in Selectors : SweepCollect(r, s)
               \/ UNCHANGED vars
        PROVE  UNCHANGED storeVars /\ UNCHANGED watchVars
    BY <2>9 DEF UpdateGet, SweepCollect, vars, storeVars, watchVars
  <2>10. ASSUME UNCHANGED storeVars, UNCHANGED watchVars
         PROVE  WatchViewConverges'
    BY <2>10, OthersConverge DEF watchVars
  <2> QED
    BY <2>3, <2>4, <2>5, <2>6, <2>7, <2>8, <2>9, <2>10, ReplayConverges, ReceiveConverges DEF Next
<1> QED
  BY <1>1, <1>2, TypeCorrect, NeverPanics, PTL DEF Spec
=============================================================================
