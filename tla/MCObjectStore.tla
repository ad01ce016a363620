--------------------------- MODULE MCObjectStore ---------------------------
(* Small instances of ObjectStore.                                         *)
EXTENDS ObjectStore, TLC

CONSTANTS c1, c2

MCContents == {c1, c2}
MCKeys == {1, 2}

\* Two objects of the larger content do not fit together.
MCSize == (c1 :> 2) @@ (c2 :> 3)

\* The clone of c2 is one byte longer than what was put: an integer above 2^53
\* of a YAML body is stored as a float and may gain a digit.
MCCloneSize == (c1 :> 2) @@ (c2 :> 4)

\* The whole resource, and one key with a selector on contents.
MCSelectors == {[keys |-> MCKeys, contents |-> MCContents],
                [keys |-> {1}, contents |-> {c1}]}
=============================================================================
