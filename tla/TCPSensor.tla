----------------------------- MODULE TCPSensor -----------------------------
(***************************************************************************)
(* honeypots/tcp/tcp.go: the accept loop with its connection slots, the    *)
(* goroutine that closes the listener when the context is cancelled, one   *)
(* handler per connection with the goroutine that closes its socket, and   *)
(* the deferred shutdown, which runs while handlers are still reading.     *)
(***************************************************************************)
EXTENDS Integers, FiniteSets

CONSTANTS
    Conns,            \* connections that clients may open
    MaxConnections    \* maxTCPConnections

ASSUME SensorConstants ==
    /\ MaxConnections \in Nat \ {0}
    /\ IsFiniteSet(Conns)

VARIABLES
    cancelled,     \* the context is done
    listener,      \* "open" or "closed"
    slots,         \* elements in the connections channel
    lpc,           \* StartTCPHoneypot: "select", "accept", "drain", "flush", "returned"
    failed,        \* it returns an error
    hpc,           \* connection: "none", "pending", "read", "log", "defer", "done"
    socket,        \* socket of an accepted connection: "none", "open", "closed"
    recorded,      \* recorded[c]: events of c the logger took while it was open
    loggerClosed   \* eventLogger.Close has run

vars == <<cancelled, listener, slots, lpc, failed, hpc, socket, recorded, loggerClosed>>

----------------------------------------------------------------------------

Connect(c) ==
    /\ listener = "open" /\ hpc[c] = "none"
    /\ hpc' = [hpc EXCEPT ![c] = "pending"]
    /\ UNCHANGED <<cancelled, listener, slots, lpc, failed, socket, recorded, loggerClosed>>

Cancel ==
    /\ ~ cancelled
    /\ cancelled' = TRUE
    /\ UNCHANGED <<listener, slots, lpc, failed, hpc, socket, recorded, loggerClosed>>

\* A closed listener refuses the connections nobody accepted.
Refused == [c \in Conns |-> IF hpc[c] = "pending" THEN "none" ELSE hpc[c]]

\* Mutant: the listener is closed between two accepts only.
CloseOnCancelLater ==
    /\ cancelled /\ listener = "open" /\ lpc # "accept"
    /\ listener' = "closed"
    /\ hpc' = Refused
    /\ UNCHANGED <<cancelled, slots, lpc, failed, socket, recorded, loggerClosed>>

\* The goroutine of StartTCPHoneypot that waits for the context.
CloseOnCancel ==
    /\ cancelled /\ listener = "open"
    /\ listener' = "closed"
    /\ hpc' = Refused
    /\ UNCHANGED <<cancelled, slots, lpc, failed, socket, recorded, loggerClosed>>

----------------------------------------------------------------------------
(* The accept loop.                                                        *)

LoopSlot ==
    /\ lpc = "select" /\ slots < MaxConnections
    /\ slots' = slots + 1
    /\ lpc' = "accept"
    /\ UNCHANGED <<cancelled, listener, failed, hpc, socket, recorded, loggerClosed>>

\* With no slot free, or by the choice of select, the cancelled context ends
\* the loop; the deferred function closes the listener first.
LoopCancelled ==
    /\ lpc = "select" /\ cancelled
    /\ lpc' = "drain"
    /\ listener' = "closed"
    /\ hpc' = Refused
    /\ UNCHANGED <<cancelled, slots, failed, socket, recorded, loggerClosed>>

\* Mutant: no slot is needed to accept.
AcceptConnUnbounded(c) ==
    /\ lpc \in {"select", "accept"} /\ listener = "open" /\ hpc[c] = "pending"
    /\ hpc' = [hpc EXCEPT ![c] = "read"]
    /\ socket' = [socket EXCEPT ![c] = "open"]
    /\ lpc' = "select"
    /\ UNCHANGED <<cancelled, listener, slots, failed, recorded, loggerClosed>>

AcceptConn(c) ==
    /\ lpc = "accept" /\ listener = "open" /\ hpc[c] = "pending"
    /\ hpc' = [hpc EXCEPT ![c] = "read"]
    /\ socket' = [socket EXCEPT ![c] = "open"]
    /\ lpc' = "select"
    /\ UNCHANGED <<cancelled, listener, slots, failed, recorded, loggerClosed>>

\* Mutant: the error path keeps the slot.
AcceptErrorLeaks ==
    /\ lpc = "accept"
    /\ failed' = ~ cancelled
    /\ lpc' = "drain"
    /\ listener' = "closed"
    /\ hpc' = Refused
    /\ UNCHANGED <<cancelled, slots, socket, recorded, loggerClosed>>

\* Accept fails, because the listener was closed or by itself: the slot goes
\* back and the function returns, with an error unless it was cancelled.
AcceptError ==
    /\ lpc = "accept"
    /\ slots' = slots - 1
    /\ failed' = ~ cancelled
    /\ lpc' = "drain"
    /\ listener' = "closed"
    /\ hpc' = Refused
    /\ UNCHANGED <<cancelled, socket, recorded, loggerClosed>>

----------------------------------------------------------------------------
(* readOneConnection and the deferred calls of its goroutine.              *)

\* The goroutine of the connection that waits for the context.
CloseSocketOnCancel(c) ==
    /\ cancelled /\ hpc[c] \in {"read", "log"} /\ socket[c] = "open"
    /\ socket' = [socket EXCEPT ![c] = "closed"]
    /\ UNCHANGED <<cancelled, listener, slots, lpc, failed, hpc, recorded, loggerClosed>>

\* Data, the end of the stream, the deadline or the closed socket: Read
\* returns in every case and its error is ignored.
Read(c) ==
    /\ hpc[c] = "read"
    /\ hpc' = [hpc EXCEPT ![c] = "log"]
    /\ UNCHANGED <<cancelled, listener, slots, lpc, failed, socket, recorded, loggerClosed>>

\* One event; a closed logger has no sinks left to give it to.
Log(c) ==
    /\ hpc[c] = "log"
    /\ hpc' = [hpc EXCEPT ![c] = "defer"]
    /\ recorded' = [recorded EXCEPT ![c] = recorded[c] + (IF loggerClosed THEN 0 ELSE 1)]
    /\ UNCHANGED <<cancelled, listener, slots, lpc, failed, socket, loggerClosed>>

\* The socket is closed, the slot given back and the handler done.
Deferred(c) ==
    /\ hpc[c] = "defer"
    /\ hpc' = [hpc EXCEPT ![c] = "done"]
    /\ socket' = [socket EXCEPT ![c] = "closed"]
    /\ slots' = slots - 1
    /\ UNCHANGED <<cancelled, listener, lpc, failed, recorded, loggerClosed>>

Handler(c) == Read(c) \/ Log(c) \/ Deferred(c)

Running == {c \in Conns : hpc[c] \in {"read", "log", "defer"}}

----------------------------------------------------------------------------
(* The deferred shutdown.                                                  *)

\* Mutant: the handlers are not waited for.
HandlersNotWaited ==
    /\ lpc = "drain"
    /\ lpc' = "flush"
    /\ UNCHANGED <<cancelled, listener, slots, failed, hpc, socket, recorded, loggerClosed>>

HandlersWait ==
    /\ lpc = "drain" /\ Running = {}
    /\ lpc' = "flush"
    /\ UNCHANGED <<cancelled, listener, slots, failed, hpc, socket, recorded, loggerClosed>>

CloseLogger ==
    /\ lpc = "flush"
    /\ lpc' = "returned"
    /\ loggerClosed' = TRUE
    /\ UNCHANGED <<cancelled, listener, slots, failed, hpc, socket, recorded>>

----------------------------------------------------------------------------

Init ==
    /\ cancelled = FALSE /\ listener = "open" /\ slots = 0
    /\ lpc = "select" /\ failed = FALSE /\ loggerClosed = FALSE
    /\ hpc = [c \in Conns |-> "none"]
    /\ socket = [c \in Conns |-> "none"]
    /\ recorded = [c \in Conns |-> 0]

\* The sensor has returned and is not started again.
Stopped == lpc = "returned" /\ UNCHANGED vars

Loop ==
    \/ LoopSlot \/ LoopCancelled
    \/ \E c \in Conns : AcceptConn(c)
    \/ listener = "closed" /\ AcceptError
    \/ HandlersWait \/ CloseLogger

Next ==
    \/ \E c \in Conns : Connect(c) \/ CloseSocketOnCancel(c) \/ Handler(c)
    \/ Cancel \/ CloseOnCancel
    \/ LoopSlot \/ LoopCancelled \/ AcceptError
    \/ \E c \in Conns : AcceptConn(c)
    \/ HandlersWait \/ CloseLogger
    \/ Stopped

(* Goroutines that can go on do. Read is one of them: it has a deadline of *)
(* five seconds. An Accept that fails on an open listener, a client and a  *)
(* cancellation are never owed.                                            *)
Fairness ==
    /\ WF_vars(Loop) /\ WF_vars(CloseOnCancel)
    /\ \A c \in Conns : WF_vars(Handler(c))

Spec == Init /\ [][Next]_vars /\ Fairness

----------------------------------------------------------------------------
(* Properties.                                                             *)

\* The shape of the state.
TypeOK ==
    /\ cancelled \in BOOLEAN /\ failed \in BOOLEAN /\ loggerClosed \in BOOLEAN
    /\ listener \in {"open", "closed"}
    /\ slots \in 0 .. MaxConnections
    /\ lpc \in {"select", "accept", "drain", "flush", "returned"}
    /\ hpc \in [Conns -> {"none", "pending", "read", "log", "defer", "done"}]
    /\ socket \in [Conns -> {"none", "open", "closed"}]
    /\ recorded \in [Conns -> Nat]

\* A slot is held by each handler and by the Accept in progress, through
\* refused and failed accepts: the sensor never loses capacity.
SlotsMatchHandlers ==
    slots = Cardinality(Running) + (IF lpc = "accept" THEN 1 ELSE 0)

\* The event of every connection the sensor accepted is taken by the logger
\* before it is closed, once, even of those being read when the sensor is
\* cancelled or its listener fails; and none outlives the sensor.
EveryConnectionRecorded ==
    /\ \A c \in Conns : hpc[c] \in {"defer", "done"} => recorded[c] = 1
    /\ lpc = "returned" => Running = {} /\ listener = "closed"

\* At most maxTCPConnections connections are being handled at a time, each
\* admitted and left once: a connection is inside while its handler runs.
Limit == INSTANCE ConnectionLimit WITH
    inside <- Running,
    gone <- {c \in Conns : hpc[c] = "done"}

ImplementsLimit == Limit!Spec

\* A cancelled sensor returns, whether it waits for a slot, in Accept or for
\* its handlers.
CancelReturns == cancelled ~> (lpc = "returned")
=============================================================================
