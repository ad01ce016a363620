--------------------------- MODULE CappedListener ---------------------------
(***************************************************************************)
(* internal/netlimit/listener.go: a listener that bounds the connections   *)
(* accepted and not yet closed. Several goroutines may call Accept, Close  *)
(* and the Close of a connection at once; slots is a channel, done is      *)
(* closed once, and sync.Once guards both Close functions.                 *)
(***************************************************************************)
EXTENDS Integers, FiniteSets

CONSTANTS
    Conns,            \* connections that clients may open
    Acceptors,        \* goroutines calling Accept
    Closers,          \* goroutines calling Close on a connection
    MaxConnections,   \* the cap, positive (NewCappedListener refuses another)
    NoConn            \* stands for "no connection"

ASSUME ListenerConstants ==
    /\ MaxConnections \in Nat \ {0}
    /\ IsFiniteSet(Conns) /\ IsFiniteSet(Acceptors)
    /\ NoConn \notin Conns

VARIABLES
    slots,      \* elements in the slots channel
    done,       \* the done channel is closed
    inner,      \* the wrapped listener: "open" or "closed"
    apc,        \* acceptor: "out", "wait" (in the select), "inner"
    conn,       \* connection: "none", "pending", "open", "closed" (the socket)
    released,   \* releaseOnce of the connection has fired
    cpc,        \* cpc[x]: the connection closer x is closing, past Conn.Close,
                \* and has yet to release, or none
    lpc         \* the listener's Close: "no", "done", "closed"

vars == <<slots, done, inner, apc, conn, released, cpc, lpc>>

----------------------------------------------------------------------------

\* A client connects; the kernel queues it while the listener is open.
Connect(c) ==
    /\ inner = "open" /\ conn[c] = "none"
    /\ conn' = [conn EXCEPT ![c] = "pending"]
    /\ UNCHANGED <<slots, done, inner, apc, released, cpc, lpc>>

Accept(a) ==
    /\ apc[a] = "out"
    /\ apc' = [apc EXCEPT ![a] = "wait"]
    /\ UNCHANGED <<slots, done, inner, conn, released, cpc, lpc>>

\* Mutant: the bound is compared the wrong way round by one.
AcceptSlotOver(a) ==
    /\ apc[a] = "wait" /\ slots <= MaxConnections
    /\ slots' = slots + 1
    /\ apc' = [apc EXCEPT ![a] = "inner"]
    /\ UNCHANGED <<done, inner, conn, released, cpc, lpc>>

\* The select: a slot is free, or ...
AcceptSlot(a) ==
    /\ apc[a] = "wait" /\ slots < MaxConnections
    /\ slots' = slots + 1
    /\ apc' = [apc EXCEPT ![a] = "inner"]
    /\ UNCHANGED <<done, inner, conn, released, cpc, lpc>>

\* Mutant: Accept waits for a slot alone.
AcceptDoneNever(a) ==
    /\ apc[a] = "wait" /\ done /\ slots < MaxConnections
    /\ apc' = [apc EXCEPT ![a] = "out"]
    /\ UNCHANGED <<slots, done, inner, conn, released, cpc, lpc>>

\* ... the listener is closed: net.ErrClosed. With both ready either is taken.
AcceptDone(a) ==
    /\ apc[a] = "wait" /\ done
    /\ apc' = [apc EXCEPT ![a] = "out"]
    /\ UNCHANGED <<slots, done, inner, conn, released, cpc, lpc>>

\* The wrapped Accept returns a connection, which keeps the slot.
AcceptConn(a, c) ==
    /\ apc[a] = "inner" /\ inner = "open" /\ conn[c] = "pending"
    /\ conn' = [conn EXCEPT ![c] = "open"]
    /\ apc' = [apc EXCEPT ![a] = "out"]
    /\ UNCHANGED <<slots, done, inner, released, cpc, lpc>>

\* Mutant: a failed Accept keeps its slot.
AcceptErrorLeaks(a) ==
    /\ apc[a] = "inner"
    /\ apc' = [apc EXCEPT ![a] = "out"]
    /\ UNCHANGED <<slots, done, inner, conn, released, cpc, lpc>>

\* The wrapped Accept fails, always once it is closed: the slot goes back.
AcceptError(a) ==
    /\ apc[a] = "inner"
    /\ slots > 0
    /\ slots' = slots - 1
    /\ apc' = [apc EXCEPT ![a] = "out"]
    /\ UNCHANGED <<done, inner, conn, released, cpc, lpc>>

----------------------------------------------------------------------------
(* cappedConn.Close, by any number of goroutines.                          *)

\* The socket is closed, by the first caller; every caller goes on to Do.
CloseConn(x, c) ==
    /\ cpc[x] = NoConn /\ conn[c] \in {"open", "closed"}
    /\ conn' = [conn EXCEPT ![c] = "closed"]
    /\ cpc' = [cpc EXCEPT ![x] = c]
    /\ UNCHANGED <<slots, done, inner, apc, released, lpc>>

\* Mutant: every Close gives a slot back.
ReleaseAgain(x) ==
    /\ cpc[x] # NoConn
    /\ slots > 0
    /\ slots' = slots - 1
    /\ released' = [released EXCEPT ![cpc[x]] = TRUE]
    /\ cpc' = [cpc EXCEPT ![x] = NoConn]
    /\ UNCHANGED <<done, inner, apc, conn, lpc>>

\* releaseOnce.Do(release): receiving from slots would block if it were empty.
Release(x) ==
    /\ cpc[x] # NoConn
    /\ IF released[cpc[x]] THEN UNCHANGED <<slots, released>>
       ELSE /\ slots > 0
            /\ slots' = slots - 1
            /\ released' = [released EXCEPT ![cpc[x]] = TRUE]
    /\ cpc' = [cpc EXCEPT ![x] = NoConn]
    /\ UNCHANGED <<done, inner, apc, conn, lpc>>

----------------------------------------------------------------------------
(* cappedListener.Close, under closeOnce.                                  *)

CloseDone ==
    /\ lpc = "no"
    /\ done' = TRUE
    /\ lpc' = "done"
    /\ UNCHANGED <<slots, inner, apc, conn, released, cpc>>

\* The wrapped listener is closed: connections nobody accepted are refused.
CloseInner ==
    /\ lpc = "done"
    /\ inner' = "closed"
    /\ conn' = [c \in Conns |-> IF conn[c] = "pending" THEN "none" ELSE conn[c]]
    /\ lpc' = "closed"
    /\ UNCHANGED <<slots, done, apc, released, cpc>>

----------------------------------------------------------------------------

Init ==
    /\ slots = 0 /\ done = FALSE /\ inner = "open" /\ lpc = "no"
    /\ apc = [a \in Acceptors |-> "out"]
    /\ conn = [c \in Conns |-> "none"]
    /\ released = [c \in Conns |-> FALSE]
    /\ cpc = [x \in Closers |-> NoConn]

Next ==
    \/ \E c \in Conns : Connect(c)
    \/ \E a \in Acceptors : Accept(a) \/ AcceptSlot(a) \/ AcceptDone(a) \/ AcceptError(a)
    \/ \E a \in Acceptors, c \in Conns : AcceptConn(a, c)
    \/ \E x \in Closers, c \in Conns : CloseConn(x, c)
    \/ \E x \in Closers : Release(x)
    \/ CloseDone \/ CloseInner

(* A goroutine in Accept, in a connection's Close or in Close goes on when *)
(* it can; nobody has to call Accept or Close, and no client to connect.   *)
(* The wrapped Accept returns once the wrapped listener is closed.         *)
Fairness ==
    /\ \A a \in Acceptors : /\ WF_vars(AcceptSlot(a) \/ AcceptDone(a))
                            /\ WF_vars(inner = "closed" /\ AcceptError(a))
    /\ \A x \in Closers : WF_vars(Release(x))
    /\ WF_vars(CloseInner)

Spec == Init /\ [][Next]_vars /\ Fairness

----------------------------------------------------------------------------
(* Properties.                                                             *)

\* The shape of the state.
TypeOK ==
    /\ slots \in 0 .. MaxConnections
    /\ done \in BOOLEAN
    /\ inner \in {"open", "closed"}
    /\ apc \in [Acceptors -> {"out", "wait", "inner"}]
    /\ conn \in [Conns -> {"none", "pending", "open", "closed"}]
    /\ released \in [Conns -> BOOLEAN]
    /\ cpc \in [Closers -> Conns \cup {NoConn}]
    /\ lpc \in {"no", "done", "closed"}

Accepting == {a \in Acceptors : apc[a] = "inner"}
Holding == {c \in Conns : conn[c] \in {"open", "closed"} /\ ~ released[c]}

\* Every slot taken belongs to one Accept in progress or one connection that
\* has not been released, whoever closed it and how often, and after every
\* failed Accept: capacity is neither leaked nor given back twice.
SlotsAccounted == slots = Cardinality(Accepting) + Cardinality(Holding)

\* "NewCappedListener limits the number of accepted connections that have not
\* yet been closed" (listener.go:10): the listener implements ConnectionLimit,
\* a connection being inside from its Accept to the close of its socket.
Limit == INSTANCE ConnectionLimit WITH
    inside <- {c \in Conns : conn[c] = "open"},
    gone <- {c \in Conns : conn[c] = "closed"}

ImplementsLimit == Limit!Spec

\* A release never finds the channel empty, where it would block for good.
ReleaseNeverBlocks ==
    /\ \A x \in Closers : cpc[x] # NoConn /\ ~ released[cpc[x]] => slots > 0
    /\ \A a \in Acceptors : apc[a] = "inner" => slots > 0

\* "Close also unblocks an Accept waiting for a free slot" (listener.go:11),
\* and one that got a slot while the listener was being closed: every Accept
\* in progress returns.
CloseUnblocksAccept ==
    \A a \in Acceptors : (done /\ apc[a] # "out") ~> (apc[a] = "out")
=============================================================================
