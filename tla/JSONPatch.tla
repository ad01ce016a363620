----------------------------- MODULE JSONPatch -----------------------------
(***************************************************************************)
(* The two ways a PATCH request edits an object (honeypots/k8s/handler/    *)
(* api.go): applyJSONPatch and mergeObject, with RFC 6902 and RFC 7386 as   *)
(* the references they are checked against.                                *)
(*                                                                         *)
(* A JSON value is a leaf, null, an array or an object. The code edits Go  *)
(* maps in place, so an object it works on is a reference into a heap (two *)
(* members may hold the same map after a copy); an array is rebuilt        *)
(* whenever it changes and needs no identity.                              *)
(***************************************************************************)
EXTENDS Integers, Sequences, SequencesExt, FiniteSets, FiniteSetsExt, Functions, TLC

Leaf(v) == [t |-> "leaf", v |-> v]
Null == [t |-> "null"]
Arr(e) == [t |-> "arr", e |-> e]
Obj(f) == [t |-> "obj", f |-> f]
Ref(id) == [t |-> "ref", id |-> id]
Missing == [t |-> "missing"]
Refused == [t |-> "refused"]
TestFailed == [t |-> "test failed"]

\* An array index as a pointer spells it; -1 for a segment that is no number.
Index(segment) ==
    CASE segment = "0" -> 0 [] segment = "1" -> 1 [] segment = "2" -> 2 [] OTHER -> -1

Without(f, k) == Restrict(f, DOMAIN f \ {k})

----------------------------------------------------------------------------
(* The heap of maps that the code edits.                                   *)

Held(tree, id) == IF tree.t = "obj" THEN Ref(id) ELSE tree

\* The maps of a decoded document, each under the path it was decoded from.
RECURSIVE Load(_, _)
Load(tree, id) ==
    IF tree.t # "obj" THEN <<>>
    ELSE FoldSet(LAMBDA k, heap : Load(tree.f[k], Append(id, k)) @@ heap,
                 id :> [k \in DOMAIN tree.f |-> Held(tree.f[k], Append(id, k))],
                 DOMAIN tree.f)

\* A map that holds itself, which json.Marshal refuses.
RECURSIVE Cyclic(_, _, _)
Cyclic(heap, value, above) ==
    CASE value.t = "ref" ->
           \/ value.id \in above
           \/ \E k \in DOMAIN heap[value.id] :
                Cyclic(heap, heap[value.id][k], above \cup {value.id})
      [] value.t = "arr" -> \E i \in DOMAIN value.e : Cyclic(heap, value.e[i], above)
      [] OTHER -> FALSE

\* What json.Marshal writes of a value without cycles.
RECURSIVE Tree(_, _)
Tree(heap, value) ==
    CASE value.t = "ref" ->
           Obj([k \in DOMAIN heap[value.id] |-> Tree(heap, heap[value.id][k])])
      [] value.t = "arr" -> Arr([i \in DOMAIN value.e |-> Tree(heap, value.e[i])])
      [] OTHER -> value

Root == <<"document">>
Fresh(heap) == [i \in 1..(Cardinality(DOMAIN heap) + 1) |-> "created"]

Member(heap, value, segment) ==
    IF value.t = "ref" /\ segment \in DOMAIN heap[value.id] THEN heap[value.id][segment] ELSE Missing

\* resolvePatchTarget: the value at a pointer, through objects only.
Resolve(heap, pointer) ==
    FoldLeft(LAMBDA value, segment : Member(heap, value, segment), Ref(Root), pointer)

\* patchDescend along a pointer: a missing member becomes an empty object.
Descend(heap, pointer) ==
    FoldLeft(LAMBDA s, segment :
               CASE s.value.t # "ref" -> [s EXCEPT !.value = Missing]
                 [] Member(s.heap, s.value, segment) # Missing ->
                      [s EXCEPT !.value = Member(s.heap, s.value, segment)]
                 [] OTHER ->
                      LET id == Fresh(s.heap)
                      IN [value |-> Ref(id),
                          heap |-> (id :> <<>>) @@ [s.heap EXCEPT ![s.value.id] = (segment :> Ref(id)) @@ @]],
             [heap |-> heap, value |-> Ref(Root)], pointer)

\* patchWrite: set or delete a member, insert or delete an array element; the
\* array is rebuilt and stored in the object that holds it (patchContainer).
Write(heap, pointer, value, remove) ==
    LET at == Descend(heap, Front(pointer))
        leaf == Last(pointer)
        set(id, k, v) == [at.heap EXCEPT ![id] = (k :> v) @@ @]
        done(h) == [ok |-> TRUE, heap |-> h]
    IN CASE at.value.t = "ref" ->
              done(IF remove THEN [at.heap EXCEPT ![at.value.id] = Without(@, leaf)]
                             ELSE set(at.value.id, leaf, value))
         [] at.value.t = "arr"
            /\ Index(leaf) \in 0..(Len(at.value.e) - IF remove THEN 1 ELSE 0) ->
              LET array == IF remove THEN RemoveAt(at.value.e, Index(leaf) + 1)
                                     ELSE InsertAt(at.value.e, Index(leaf) + 1, value)
                  holder == Resolve(at.heap, Front(Front(pointer)))
              IN done(set(holder.id, Last(Front(pointer)), Arr(array)))
         [] OTHER -> [ok |-> FALSE, heap |-> at.heap]

\* Mutant: a test only looks whether the member is there.
EqualIfPresent(heap, a, b) == ~Cyclic(heap, a, {})

\* patchValuesEqual: the encodings are compared.
Equal(heap, a, b) == ~Cyclic(heap, a, {}) /\ Tree(heap, a) = b

\* One operation of applyJSONPatch; s.ok is FALSE once one has failed.
ApplyOperation(s, op) ==
    LET value == Held(op.value, op.id)
        heap == Load(op.value, op.id) @@ s.heap
        source == Resolve(s.heap, op.from)
        removed == IF op.op = "move" THEN Write(s.heap, op.from, Null, TRUE)
                                     ELSE [ok |-> TRUE, heap |-> s.heap]
        failed == [s EXCEPT !.ok = FALSE]
    IN CASE op.op = "test" ->
              LET found == Resolve(s.heap, op.path)
              IN IF found # Missing /\ Equal(s.heap, found, op.value) THEN s ELSE failed
         [] op.op \in {"move", "copy"} ->
              IF source = Missing \/ ~removed.ok THEN failed
              ELSE Write(removed.heap, op.path, source, FALSE)
         [] op.op \in {"add", "replace"} -> Write(heap, op.path, value, FALSE)
         [] op.op = "remove" -> Write(s.heap, op.path, Null, TRUE)

\* applyJSONPatch on the document of the stored object, and put's Marshal,
\* which refuses a document with a cycle.
ApplyJSONPatch(document, operations) ==
    LET end == FoldLeft(LAMBDA s, op : IF s.ok THEN ApplyOperation(s, op) ELSE s,
                        [ok |-> TRUE, heap |-> Load(document, Root)], operations)
    IN IF ~end.ok \/ Cyclic(end.heap, Ref(Root), {}) THEN Refused ELSE Tree(end.heap, Ref(Root))

\* decodeJSONPatch: a patch has at least one operation.
DecodeJSONPatch(operations) == operations # <<>>

\* Mutant: an object of the patch replaces the member it should be merged into.
MergeObjectShallow(destination, patch) ==
    LET kept == {k \in DOMAIN destination.f \cup DOMAIN patch.f :
                   k \in DOMAIN patch.f => patch.f[k] # Null}
    IN Obj([k \in kept |-> IF k \in DOMAIN patch.f THEN patch.f[k] ELSE destination.f[k]])

\* mergeObject: null deletes, an object is merged into an object, anything
\* else replaces.
RECURSIVE MergeObject(_, _)
MergeObject(destination, patch) ==
    LET kept == {k \in DOMAIN destination.f \cup DOMAIN patch.f :
                   k \in DOMAIN patch.f => patch.f[k] # Null}
        merged(k) ==
            CASE k \notin DOMAIN patch.f -> destination.f[k]
              [] k \in DOMAIN destination.f /\ destination.f[k].t = "obj" /\ patch.f[k].t = "obj" ->
                   MergeObject(destination.f[k], patch.f[k])
              [] OTHER -> patch.f[k]
    IN Obj([k \in kept |-> merged(k)])

----------------------------------------------------------------------------
(* RFC 6902 on values, and RFC 7386.                                       *)

RECURSIVE RFCGet(_, _)
RFCGet(tree, pointer) ==
    CASE pointer = <<>> -> tree
      [] tree.t = "obj" /\ Head(pointer) \in DOMAIN tree.f -> RFCGet(tree.f[Head(pointer)], Tail(pointer))
      [] tree.t = "arr" /\ Index(Head(pointer)) \in 0..(Len(tree.e) - 1) ->
           RFCGet(tree.e[Index(Head(pointer)) + 1], Tail(pointer))
      [] OTHER -> Missing

\* The edit at the end of a pointer, in a parent that must be there.
RFCLeaf(tree, segment, value, remove) ==
    LET place == IF tree.t = "arr" /\ segment = "-" /\ ~remove THEN Len(tree.e) ELSE Index(segment)
    IN CASE tree.t = "obj" /\ ~remove -> Obj((segment :> value) @@ tree.f)
         [] tree.t = "obj" /\ segment \in DOMAIN tree.f -> Obj(Without(tree.f, segment))
         [] tree.t = "arr" /\ remove /\ place \in 0..(Len(tree.e) - 1) -> Arr(RemoveAt(tree.e, place + 1))
         [] tree.t = "arr" /\ ~remove /\ place \in 0..Len(tree.e) -> Arr(InsertAt(tree.e, place + 1, value))
         [] OTHER -> Refused

RECURSIVE RFCEdit(_, _, _, _)
RFCEdit(tree, pointer, value, remove) ==
    IF Len(pointer) = 1 THEN RFCLeaf(tree, Head(pointer), value, remove)
    ELSE LET child == RFCGet(tree, <<Head(pointer)>>)
             edited == IF child = Missing THEN Refused ELSE RFCEdit(child, Tail(pointer), value, remove)
         IN CASE edited = Refused -> Refused
              [] tree.t = "obj" -> Obj((Head(pointer) :> edited) @@ tree.f)
              [] OTHER -> Arr([tree.e EXCEPT ![Index(Head(pointer)) + 1] = edited])

RFCOperation(tree, op) ==
    LET source == RFCGet(tree, op.from)
        removed(p) == RFCEdit(tree, p, Null, TRUE)
    IN CASE op.op = "test" -> IF RFCGet(tree, op.path) = op.value THEN tree ELSE TestFailed
         [] op.op = "add" -> RFCEdit(tree, op.path, op.value, FALSE)
         [] op.op = "remove" -> removed(op.path)
         [] op.op = "replace" ->
              IF removed(op.path) = Refused THEN Refused
              ELSE RFCEdit(removed(op.path), op.path, op.value, FALSE)
         [] source = Missing -> Refused
         [] op.op = "copy" -> RFCEdit(tree, op.path, source, FALSE)
         [] op.op = "move" ->
              IF IsStrictPrefix(op.from, op.path) \/ removed(op.from) = Refused THEN Refused
              ELSE RFCEdit(removed(op.from), op.path, source, FALSE)

RFCPatch(document, operations) ==
    FoldLeft(LAMBDA tree, op : IF tree \in {Refused, TestFailed} THEN tree ELSE RFCOperation(tree, op),
             document, operations)

RECURSIVE RFCMerge(_, _)
RFCMerge(target, patch) ==
    IF patch.t # "obj" THEN patch
    ELSE LET base == IF target.t = "obj" THEN target.f ELSE <<>>
             kept == {k \in DOMAIN base \cup DOMAIN patch.f : k \in DOMAIN patch.f => patch.f[k] # Null}
         IN Obj([k \in kept |->
                   IF k \notin DOMAIN patch.f THEN base[k]
                   ELSE RFCMerge(IF k \in DOMAIN base THEN base[k] ELSE Null, patch.f[k])])

\* The value without the null members of its objects.
RECURSIVE StripNulls(_)
StripNulls(tree) ==
    IF tree.t # "obj" THEN tree
    ELSE Obj([k \in {k \in DOMAIN tree.f : tree.f[k] # Null} |-> StripNulls(tree.f[k])])

----------------------------------------------------------------------------

\* A replace whose target is an element of an array: the code inserts.
ReplacesElement(operations) ==
    \E i \in DOMAIN operations :
        /\ operations[i].op = "replace"
        /\ Index(Last(operations[i].path)) # -1

\* After a copy two members are one map, so a later edit of one shows in the
\* other.
CopiesEarly(operations) == \E i \in DOMAIN operations : operations[i].op = "copy" /\ i < Len(operations)

\* A patch that the code and RFC 6902 both accept gives the same document, and
\* one that fails a test in the RFC is refused, unless it replaces an array
\* element or goes on after a copy (applyJSONPatch).
PatchAgrees(document, operations) ==
    LET code == ApplyJSONPatch(document, operations)
        rfc == RFCPatch(document, operations)
    IN DecodeJSONPatch(operations) /\ ~ReplacesElement(operations) /\ ~CopiesEarly(operations) =>
        /\ code # Refused /\ rfc \notin {Refused, TestFailed} => code = rfc
        /\ rfc = TestFailed => code = Refused

\* A merge differs from RFC 7386 in nothing but null members that it keeps in
\* objects it adds (mergeObject).
MergeAgrees(document, patch) == StripNulls(MergeObject(document, patch)) = RFCMerge(document, patch)
====
