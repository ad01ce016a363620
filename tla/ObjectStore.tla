---------------------------- MODULE ObjectStore ----------------------------
(***************************************************************************)
(* The in-memory object store of the simulated Kubernetes API              *)
(* (honeypots/k8s/handler/state.go) and the requests of api.go that work   *)
(* on it: create, update and patch (an existence check, then a write),     *)
(* delete, deleteCollection (a sweep collected first and deleted key by    *)
(* key) and watch (register, replay, stream, return).                      *)
(*                                                                         *)
(* Every store method holds the store's mutex, so each is one step; the    *)
(* requests are sequences of such steps and interleave.                    *)
(***************************************************************************)
EXTENDS Integers, Sequences, FiniteSets, FiniteSetsExt

CONSTANTS
    Keys,                  \* object keys, numbered in the order lists are sorted by
    Contents,              \* what an object can hold
    PutSize,               \* PutSize[c]: encoded length of c as the caller passes it
    StoredSize,            \* StoredSize[c]: encoded length of the stored clone of c
    Selectors,             \* watch scopes: [keys : SUBSET Keys, contents : SUBSET Contents]
    Watches,               \* watch requests
    Requests,              \* update, patch and deleteCollection requests
    MaxStoredObjects, MaxStoredBytes, MaxStoredObjectBytes,
    MaxListPageItems, MaxListPageBytes,
    MaxWatchSlots,         \* concurrent watches
    ChanCap,               \* buffered events of one watch
    NoObject,              \* stands for "no such object"
    MaxRevision            \* bound of the model: no write beyond this revision

FirstRevision == 1000

Object == [content : Contents, rev : Nat]
Selector == [keys : SUBSET Keys, contents : SUBSET Contents]

ASSUME StoreConstants ==
    /\ Keys \subseteq Nat
    /\ PutSize \in [Contents -> Nat]
    /\ StoredSize \in [Contents -> Nat]
    /\ Selectors \subseteq Selector
    /\ MaxStoredObjects \in Nat /\ MaxStoredBytes \in Nat /\ MaxStoredObjectBytes \in Nat
    /\ MaxListPageItems \in Nat /\ MaxListPageBytes \in Nat
    /\ MaxWatchSlots \in Nat /\ ChanCap \in Nat /\ MaxRevision \in Nat
    /\ NoObject \notin Object
    /\ IsFiniteSet(Watches)

VARIABLES
    objects,        \* the stored object of each key, or NoObject
    resourceRev,    \* the store's revision
    storedBytes,    \* the store's own account of its size
    watchers,       \* the watches registered in the store
    ch,             \* ch[w]: events buffered in the channel of w
    closed,         \* closed[w]: the channel of w has been closed
    panicked,       \* a send on, or a second close of, a closed channel
    watchSlots,     \* watch slots taken
    wpc,            \* where watch request w is: "idle", "replay", "stream"
    sel,            \* sel[w]: the selector w registered with
    view,           \* view[w]: what the client of w has been told of each key
    unseen,         \* unseen[w]: keys the client of w has been told nothing of
    req             \* req[r]: the store work request r still has to do

storeVars == <<objects, resourceRev, storedBytes>>
watchVars == <<watchers, ch, closed, panicked, watchSlots, wpc, sel, view, unseen>>
vars == <<objects, resourceRev, storedBytes, watchers, ch, closed, panicked,
          watchSlots, wpc, sel, view, unseen, req>>

Event == [type : {"ADDED", "MODIFIED", "DELETED"}, key : Keys, object : Object]

\* A request that has nothing left to do in the store.
Idle == [op |-> "idle", keys |-> {}]

Stored == {k \in Keys : objects[k] # NoObject}

\* objectMatches together with the group, resource and namespace tests.
Selects(s, k, o) == o # NoObject /\ k \in s.keys /\ o.content \in s.contents

Matching(s) == {k \in Keys : Selects(s, k, objects[k])}

SizeOf(k) == StoredSize[objects[k].content]

----------------------------------------------------------------------------
(* publishLocked: an event goes to every registered watch that selects the *)
(* object; a watch whose channel is full is removed and its channel closed *)
(* instead. Sending on or closing a closed channel panics.                 *)

Interested(k, o) == {w \in watchers : Selects(sel[w], k, o)}

\* Mutant: a channel is taken to hold one event more than it does.
SlowTooLate(k, o) == {w \in Interested(k, o) : Len(ch[w]) > ChanCap}

Slow(k, o) == {w \in Interested(k, o) : Len(ch[w]) >= ChanCap}

\* Mutant: a full channel loses the event and keeps the watch registered.
PublishDropsWhenFull(k, type, o) ==
    /\ ch' = [w \in Watches |->
                IF w \in Interested(k, o) \ Slow(k, o)
                THEN Append(ch[w], [type |-> type, key |-> k, object |-> o])
                ELSE ch[w]]
    /\ UNCHANGED <<watchers, closed, panicked>>

Publish(k, type, o) ==
    /\ watchers' = watchers \ Slow(k, o)
    /\ closed' = [w \in Watches |-> closed[w] \/ w \in Slow(k, o)]
    /\ ch' = [w \in Watches |->
                IF w \in Interested(k, o) \ Slow(k, o)
                THEN Append(ch[w], [type |-> type, key |-> k, object |-> o])
                ELSE ch[w]]
    /\ panicked' = (panicked \/ \E w \in Interested(k, o) : closed[w])

----------------------------------------------------------------------------
(* put and delete.                                                         *)

OldBytes(k) == IF objects[k] = NoObject THEN 0 ELSE SizeOf(k)

\* The early returns of put, in its order: too large an object, an existing
\* key under ADDED, too many objects, too many bytes.
PutAccepts(k, c, type) ==
    /\ PutSize[c] <= MaxStoredObjectBytes
    /\ objects[k] # NoObject => type # "ADDED"
    /\ objects[k] = NoObject => Cardinality(Stored) < MaxStoredObjects
    /\ storedBytes - OldBytes(k) + PutSize[c] <= MaxStoredBytes

\* Mutant: the size of the object that is replaced is not given back.
PutForgetsOldBytes(k, c, type) ==
    /\ PutAccepts(k, c, type)
    /\ objects' = [objects EXCEPT ![k] = [content |-> c, rev |-> resourceRev + 1]]
    /\ resourceRev' = resourceRev + 1
    /\ storedBytes' = storedBytes + PutSize[c]
    /\ Publish(k, type, [content |-> c, rev |-> resourceRev + 1])

\* Mutant: the revision is rolled back after the object has been stored.
PutRollsBack(k, c, type) ==
    /\ PutAccepts(k, c, type)
    /\ objects' = [objects EXCEPT ![k] = [content |-> c, rev |-> resourceRev + 1]]
    /\ resourceRev' = IF type = "MODIFIED" THEN resourceRev ELSE resourceRev + 1
    /\ storedBytes' = storedBytes - OldBytes(k) + PutSize[c]
    /\ Publish(k, type, [content |-> c, rev |-> resourceRev + 1])

Put(k, c, type) ==
    /\ PutAccepts(k, c, type)
    /\ objects' = [objects EXCEPT ![k] = [content |-> c, rev |-> resourceRev + 1]]
    /\ resourceRev' = resourceRev + 1
    /\ storedBytes' = storedBytes - OldBytes(k) + PutSize[c]
    /\ Publish(k, type, [content |-> c, rev |-> resourceRev + 1])

\* Mutant: a deletion does not move the revision.
RemoveKeepsRevision(k) ==
    /\ objects[k] # NoObject
    /\ objects' = [objects EXCEPT ![k] = NoObject]
    /\ storedBytes' = storedBytes - SizeOf(k)
    /\ Publish(k, "DELETED", objects[k])
    /\ UNCHANGED resourceRev

Remove(k) ==
    /\ objects[k] # NoObject
    /\ objects' = [objects EXCEPT ![k] = NoObject]
    /\ storedBytes' = storedBytes - SizeOf(k)
    /\ resourceRev' = resourceRev + 1
    /\ Publish(k, "DELETED", objects[k])

----------------------------------------------------------------------------
(* The requests that write. A refused put or a missing key changes nothing *)
(* but the request, which ends.                                            *)

CanWrite == resourceRev < MaxRevision

Create(k, c) ==
    /\ CanWrite
    /\ Put(k, c, "ADDED")
    /\ UNCHANGED <<watchSlots, wpc, sel, view, unseen, req>>

Delete(k) ==
    /\ CanWrite
    /\ Remove(k)
    /\ UNCHANGED <<watchSlots, wpc, sel, view, unseen, req>>

\* update and patch read the object first; a missing one is a 404.
UpdateGet(r, k) ==
    /\ req[r] = Idle
    /\ objects[k] # NoObject
    /\ req' = [req EXCEPT ![r] = [op |-> "update", keys |-> {k}]]
    /\ UNCHANGED <<storeVars, watchVars>>

\* They write what they made of it in a second critical section: nothing
\* keeps the key from being deleted or rewritten in between.
UpdatePut(r, k, c) ==
    /\ CanWrite
    /\ req[r] = [op |-> "update", keys |-> {k}]
    /\ req' = [req EXCEPT ![r] = Idle]
    /\ \/ Put(k, c, "MODIFIED")
       \/ /\ ~ PutAccepts(k, c, "MODIFIED")
          /\ UNCHANGED <<storeVars, watchers, ch, closed, panicked>>
    /\ UNCHANGED <<watchSlots, wpc, sel, view, unseen>>

\* deleteMatching collects the keys under the read lock ...
SweepCollect(r, s) ==
    /\ req[r] = Idle
    /\ Matching(s) # {}
    /\ req' = [req EXCEPT ![r] = [op |-> "sweep", keys |-> Matching(s)]]
    /\ UNCHANGED <<storeVars, watchVars>>

\* ... and deletes them one by one, whatever has become of them since.
SweepDelete(r, k) ==
    /\ CanWrite
    /\ req[r].op = "sweep" /\ k \in req[r].keys
    /\ req' = [req EXCEPT ![r] = IF req[r].keys = {k} THEN Idle
                                 ELSE [op |-> "sweep", keys |-> req[r].keys \ {k}]]
    /\ \/ Remove(k)
       \/ /\ objects[k] = NoObject
          /\ UNCHANGED <<storeVars, watchers, ch, closed, panicked>>
    /\ UNCHANGED <<watchSlots, wpc, sel, view, unseen>>

----------------------------------------------------------------------------
(* API.watch.                                                              *)

NothingTold == [k \in Keys |-> NoObject]
NoScope == [keys |-> {}, contents |-> {}]

\* A slot is free, the parameters are valid: the watch is registered before
\* anything is replayed. With a resourceVersion nothing is replayed at all.
WatchStart(w, s, replay) ==
    /\ wpc[w] = "idle"
    /\ watchSlots < MaxWatchSlots
    /\ watchSlots' = watchSlots + 1
    /\ watchers' = watchers \cup {w}
    /\ sel' = [sel EXCEPT ![w] = s]
    /\ wpc' = [wpc EXCEPT ![w] = IF replay THEN "replay" ELSE "stream"]
    /\ UNCHANGED <<storeVars, ch, closed, panicked, view, unseen, req>>

\* listPage from offset 0: in key order, at most MaxListPageItems objects and,
\* after the first one, MaxListPageBytes.
Before(M, k) == {j \in M : j < k}

FirstPage(M) ==
    {k \in M : \A j \in M : j <= k =>
        /\ Cardinality(Before(M, j)) < MaxListPageItems
        /\ \/ Before(M, j) = {}
           \/ MapThenSumSet(SizeOf, Before(M, j) \cup {j}) <= MaxListPageBytes}

\* The replay sends the first page as ADDED events and forgets the rest.
Replay(w) ==
    LET M == Matching(sel[w])
        page == FirstPage(M)
    IN /\ wpc[w] = "replay"
       /\ wpc' = [wpc EXCEPT ![w] = "stream"]
       /\ view' = [view EXCEPT ![w] =
                    [k \in Keys |-> IF k \in page THEN objects[k] ELSE NoObject]]
       /\ unseen' = [unseen EXCEPT ![w] = M \ page]
       /\ UNCHANGED <<storeVars, watchers, ch, closed, panicked, watchSlots, sel, req>>

\* What one event tells the client of a key.
Tells(e) == IF e.type = "DELETED" THEN NoObject ELSE e.object

Receive(w) ==
    LET e == Head(ch[w])
    IN /\ wpc[w] = "stream"
       /\ ch[w] # << >>
       /\ ch' = [ch EXCEPT ![w] = Tail(ch[w])]
       /\ view' = [view EXCEPT ![w] = [view[w] EXCEPT ![e.key] = Tells(e)]]
       /\ unseen' = [unseen EXCEPT ![w] = unseen[w] \ {e.key}]
       /\ UNCHANGED <<storeVars, watchers, closed, panicked, watchSlots, wpc, sel, req>>

\* Mutant: unwatch closes the channel of a watch that was already removed.
WatchReturnCloses(w) ==
    /\ wpc[w] # "idle"
    /\ watchers' = watchers \ {w}
    /\ panicked' = (panicked \/ closed[w])
    /\ watchSlots' = watchSlots - 1
    /\ wpc' = [wpc EXCEPT ![w] = "idle"]
    /\ ch' = [ch EXCEPT ![w] = << >>]
    /\ closed' = [closed EXCEPT ![w] = FALSE]
    /\ view' = [view EXCEPT ![w] = NothingTold]
    /\ unseen' = [unseen EXCEPT ![w] = Keys]
    /\ sel' = [sel EXCEPT ![w] = NoScope]
    /\ UNCHANGED <<storeVars, req>>

\* Mutant: only a watch that is still registered gives its slot back.
WatchReturnLeaksSlot(w) ==
    /\ wpc[w] # "idle"
    /\ watchers' = watchers \ {w}
    /\ watchSlots' = IF w \in watchers THEN watchSlots - 1 ELSE watchSlots
    /\ wpc' = [wpc EXCEPT ![w] = "idle"]
    /\ ch' = [ch EXCEPT ![w] = << >>]
    /\ closed' = [closed EXCEPT ![w] = FALSE]
    /\ view' = [view EXCEPT ![w] = NothingTold]
    /\ unseen' = [unseen EXCEPT ![w] = Keys]
    /\ sel' = [sel EXCEPT ![w] = NoScope]
    /\ UNCHANGED <<storeVars, panicked, req>>

\* The client goes away, the timer fires, a write fails or the channel is
\* closed and empty. unwatch removes and closes only what is registered; then
\* the slot is given back. The watch and its channel are gone.
WatchReturn(w) ==
    /\ wpc[w] # "idle"
    /\ watchers' = watchers \ {w}
    /\ panicked' = (panicked \/ (w \in watchers /\ closed[w]))
    /\ watchSlots' = watchSlots - 1
    /\ wpc' = [wpc EXCEPT ![w] = "idle"]
    /\ ch' = [ch EXCEPT ![w] = << >>]
    /\ closed' = [closed EXCEPT ![w] = FALSE]
    /\ view' = [view EXCEPT ![w] = NothingTold]
    /\ unseen' = [unseen EXCEPT ![w] = Keys]
    /\ sel' = [sel EXCEPT ![w] = NoScope]
    /\ UNCHANGED <<storeVars, req>>

----------------------------------------------------------------------------

Init ==
    /\ objects = [k \in Keys |-> NoObject]
    /\ resourceRev = FirstRevision
    /\ storedBytes = 0
    /\ watchers = {}
    /\ ch = [w \in Watches |-> << >>]
    /\ closed = [w \in Watches |-> FALSE]
    /\ panicked = FALSE
    /\ watchSlots = 0
    /\ wpc = [w \in Watches |-> "idle"]
    /\ sel = [w \in Watches |-> NoScope]
    /\ view = [w \in Watches |-> NothingTold]
    /\ unseen = [w \in Watches |-> Keys]
    /\ req = [r \in Requests |-> Idle]

Next ==
    \/ \E k \in Keys, c \in Contents : Create(k, c)
    \/ \E k \in Keys : Delete(k)
    \/ \E r \in Requests, k \in Keys : UpdateGet(r, k)
    \/ \E r \in Requests, k \in Keys, c \in Contents : UpdatePut(r, k, c)
    \/ \E r \in Requests, s \in Selectors : SweepCollect(r, s)
    \/ \E r \in Requests, k \in Keys : SweepDelete(r, k)
    \/ \E w \in Watches, s \in Selectors, b \in BOOLEAN : WatchStart(w, s, b)
    \/ \E w \in Watches : Replay(w)
    \/ \E w \in Watches : Receive(w)
    \/ \E w \in Watches : WatchReturn(w)

Spec == Init /\ [][Next]_vars

----------------------------------------------------------------------------
(* Properties.                                                             *)

\* The shape of the state; a channel never holds more than its capacity.
TypeOK ==
    /\ objects \in [Keys -> Object \cup {NoObject}]
    /\ resourceRev \in Nat
    /\ storedBytes \in Int
    /\ watchers \subseteq Watches
    /\ ch \in [Watches -> Seq(Event)]
    /\ \A w \in Watches : Len(ch[w]) <= ChanCap
    /\ closed \in [Watches -> BOOLEAN]
    /\ panicked \in BOOLEAN
    /\ watchSlots \in Int
    /\ wpc \in [Watches -> {"idle", "replay", "stream"}]
    /\ sel \in [Watches -> Selector]
    /\ view \in [Watches -> [Keys -> Object \cup {NoObject}]]
    /\ unseen \in [Watches -> SUBSET Keys]
    /\ req \in [Requests -> [op : {"idle", "update", "sweep"}, keys : SUBSET Keys]]

\* What is stored never exceeds the limits of state.go, and storedBytes is
\* exactly the encoded size of what is stored, through every order of puts,
\* replacements and deletes.
StoredWithinLimits ==
    LET total == MapThenSumSet(SizeOf, Stored)
    IN /\ Cardinality(Stored) <= MaxStoredObjects
       /\ total <= MaxStoredBytes
       /\ storedBytes = total

\* A resourceVersion names one write: no two stored objects share one and
\* none is ahead of the store's own revision, which lists report.
RevisionsNameWrites ==
    \A k1, k2 \in Stored :
        /\ objects[k1].rev <= resourceRev
        /\ k1 # k2 => objects[k1].rev # objects[k2].rev

\* Every change of the store moves the revision by one, and nothing else
\* does: a continue token, which is honoured while the revision is the one it
\* was made for, can then not survive a change.
EveryChangeMovesRevision ==
    [][ /\ objects' # objects => resourceRev' = resourceRev + 1
        /\ objects' = objects => resourceRev' = resourceRev ]_vars

\* publishLocked and unwatch never send on a closed channel nor close one
\* twice, although either of them may be the one that closes it: a panic there
\* would leave the store's mutex locked for good.
NoChannelPanic == ~ panicked

\* A watch slot is held by each watch request until it returns, evicted by a
\* slow channel or not, and by nobody else.
WatchSlotsBalanced ==
    /\ watchSlots = Cardinality({w \in Watches : wpc[w] # "idle"})
    /\ watchSlots <= MaxWatchSlots
    /\ \A w \in watchers : wpc[w] # "idle"

\* The buffered events about k, and what the client of w will have been told
\* of k by the last of them: o.
Pending(w, k) == {i \in 1 .. Len(ch[w]) : ch[w][i].key = k}

WillKnow(w, k, o) ==
    /\ Pending(w, k) = {} => view[w][k] = o
    /\ \A i \in Pending(w, k) :
         (\A j \in Pending(w, k) : j <= i) => Tells(ch[w][i]) = o

Informed(w, k) ==
    Pending(w, k) # {} \/ (wpc[w] = "stream" /\ k \notin unseen[w])

\* A watch that is still registered loses no change: registering before the
\* replay, the bounded channel and the eviction of slow watches together make
\* what the client will have been told of a key, once it has read what is
\* buffered, the stored object. An object that is gone is known to be gone,
\* unless the watch filters on contents: it then hears nothing of an object
\* that was changed so as not to match before it was deleted.
WatchViewConverges ==
    \A w \in watchers, k \in Keys :
        Informed(w, k) /\ k \in sel[w].keys =>
            /\ Selects(sel[w], k, objects[k]) => WillKnow(w, k, objects[k])
            /\ objects[k] = NoObject /\ sel[w].contents = Contents
                    => WillKnow(w, k, NoObject)

\* "Watches without a resource version replay existing objects before live
\* changes" (readme.md): after the replay no matching object is left out.
ReplayIsComplete ==
    [][ \A w \in Watches :
          wpc[w] = "replay" /\ wpc'[w] = "stream" =>
              \A k \in Matching(sel[w]) : view'[w][k] = objects[k] ]_vars

=============================================================================
