-------------------------- MODULE ConnectionLimit --------------------------
(***************************************************************************)
(* What a bounded listener promises: each connection is admitted at most   *)
(* once, leaves at most once, and never more than MaxConnections are       *)
(* inside. CappedListener and TCPSensor implement it.                      *)
(***************************************************************************)
EXTENDS Integers, FiniteSets

CONSTANTS Conns, MaxConnections

VARIABLES
    inside,     \* connections accepted and not yet closed
    gone        \* connections accepted and closed

limitVars == <<inside, gone>>

Init == inside = {} /\ gone = {}

Admit(c) ==
    /\ c \notin inside \cup gone
    /\ Cardinality(inside) < MaxConnections
    /\ inside' = inside \cup {c}
    /\ gone' = gone

Leave(c) ==
    /\ c \in inside
    /\ inside' = inside \ {c}
    /\ gone' = gone \cup {c}

Next == \E c \in Conns : Admit(c) \/ Leave(c)

Spec == Init /\ [][Next]_limitVars
=============================================================================
