--------------------------- MODULE EventPipeline ---------------------------
(***************************************************************************)
(* The event pipeline of logger/: an EventLogger that writes every event   *)
(* locally and fans it out to its sinks under one mutex (logger.go), the   *)
(* batchShipper behind each remote sink and the file sink (sink.go), the   *)
(* start-up that opens the sinks one by one, and Close.                    *)
(*                                                                         *)
(* Each event is written by a protocol handler of its own. The handlers,   *)
(* the goroutine of each shipper and the goroutine that opens and closes   *)
(* the logger interleave; only l.mu and the channels order them.           *)
(***************************************************************************)
EXTENDS Integers, Sequences, FiniteSets

CONSTANTS
    Events,          \* the events of the run, one handler each
    NumSinks,        \* configured sinks, opened in the order 1 .. NumSinks
    FileSinks,       \* the ones of type "file"; the others are remote
    EventBytes,      \* EventBytes[e]: length of the JSON line of e
    QueueSize,       \* sinkQueueSize
    BatchEvents,     \* sinkBatchEvents
    BatchBytes,      \* sinkBatchBytes
    SendAttempts,    \* sinkSendAttempts
    Nobody           \* l.mu is not held

Sinks == 1 .. NumSinks
Remote == Sinks \ FileSinks

ASSUME PipelineConstants ==
    /\ NumSinks \in Nat
    /\ FileSinks \subseteq Sinks
    /\ EventBytes \in [Events -> Nat]
    /\ QueueSize \in Nat /\ BatchEvents \in Nat \ {0} /\ BatchBytes \in Nat
    /\ SendAttempts \in Nat \ {0}
    /\ Nobody \notin Events

VARIABLES
    phase,        \* "opening", "running", "closing", "closed"
    opened,       \* sinks 1 .. opened have been opened
    cursor,       \* the sink the closing loop has reached
    attached,     \* l.sinks is not empty
    mu,           \* holder of l.mu
    local,        \* lines written to the local output
    pc,           \* handler of e: "ready", "emit", "send", "done"
    at,           \* at[e]: the sink the fan-out loop of e has reached
    queue,        \* queue[s]: the channel of shipper s
    closed,       \* closed[s]: Close was called on sink s
    dropped,      \* dropped[s]: the shipper's counter
    rpc,          \* goroutine of s: "off", "select", "deliver", "drain", "last", "exited"
    batch,        \* batch[s], being collected or delivered
    batchBytes,   \* batchBytes[s]
    attempt,      \* attempt[s]: failed sends of the batch being delivered
    offered,      \* history: number of Emit calls on s
    acked,        \* history: events of batches the destination acknowledged
    copies        \* history: copies[s][e]: times the destination took e

loggerVars == <<phase, opened, cursor, attached>>
handlerVars == <<mu, local, pc, at>>
shipperVars == <<rpc, batch, batchBytes, attempt, acked, copies>>
vars == <<phase, opened, cursor, attached, mu, local, pc, at, queue, closed,
          dropped, rpc, batch, batchBytes, attempt, offered, acked, copies>>

----------------------------------------------------------------------------
(* Start-up: NewSinks, then AttachSinks.                                   *)

\* newBatchShipper starts the goroutine, newFileSink opens the file.
OpenSink ==
    /\ phase = "opening" /\ opened < NumSinks
    /\ opened' = opened + 1
    /\ rpc' = [rpc EXCEPT ![opened + 1] = IF opened + 1 \in Remote THEN "select" ELSE "off"]
    /\ UNCHANGED <<phase, cursor, attached, handlerVars, queue, closed, dropped,
                   batch, batchBytes, attempt, offered, acked, copies>>

\* Mutant: a failure returns at once and closes nothing.
OpenFailsLeaking ==
    /\ phase = "opening" /\ opened < NumSinks
    /\ phase' = "closed"
    /\ UNCHANGED <<opened, cursor, attached, handlerVars, queue, closed, dropped,
                   shipperVars, offered>>

\* A sink that cannot be built closes the ones before it; the sensor does
\* not start.
OpenFails ==
    /\ phase = "opening" /\ opened < NumSinks
    /\ phase' = "closing"
    /\ UNCHANGED <<opened, cursor, attached, handlerVars, queue, closed, dropped,
                   shipperVars, offered>>

AttachSinks ==
    /\ phase = "opening" /\ opened = NumSinks
    /\ phase' = "running"
    /\ attached' = (NumSinks > 0)
    /\ UNCHANGED <<opened, cursor, handlerVars, queue, closed, dropped, shipperVars, offered>>

----------------------------------------------------------------------------
(* write: a handler logs its event.                                        *)

\* Mutant: the lock is given back before the fan-out.
WriteUnlocked(e) ==
    /\ phase # "opening" /\ pc[e] = "ready" /\ mu = Nobody
    /\ \/ /\ local' = Append(local, e)
          /\ pc' = [pc EXCEPT ![e] = "emit"]
          /\ at' = [at EXCEPT ![e] = IF attached THEN 1 ELSE NumSinks + 1]
          /\ UNCHANGED mu
       \/ /\ pc' = [pc EXCEPT ![e] = "done"]
          /\ UNCHANGED <<mu, local, at>>
    /\ UNCHANGED <<loggerVars, queue, closed, dropped, shipperVars, offered>>

\* The event is encoded, the lock taken and the line written; if that fails
\* the handler returns and no sink sees the event.
Write(e) ==
    /\ phase # "opening" /\ pc[e] = "ready" /\ mu = Nobody
    /\ \/ /\ local' = Append(local, e)
          /\ mu' = e
          /\ pc' = [pc EXCEPT ![e] = "emit"]
          /\ at' = [at EXCEPT ![e] = IF attached THEN 1 ELSE NumSinks + 1]
       \/ /\ pc' = [pc EXCEPT ![e] = "done"]
          /\ UNCHANGED <<mu, local, at>>
    /\ UNCHANGED <<loggerVars, queue, closed, dropped, shipperVars, offered>>

\* fileSink.Emit: a closed file takes nothing and a failed write is ignored.
EmitToFile(e) ==
    LET s == at[e]
    IN /\ pc[e] = "emit" /\ s \in FileSinks
       /\ at' = [at EXCEPT ![e] = s + 1]
       /\ offered' = [offered EXCEPT ![s] = offered[s] + 1]
       /\ \/ /\ ~ closed[s]
             /\ acked' = [acked EXCEPT ![s] = Append(acked[s], e)]
             /\ copies' = [copies EXCEPT ![s][e] = copies[s][e] + 1]
          \/ UNCHANGED <<acked, copies>>
       /\ UNCHANGED <<loggerVars, mu, local, pc, queue, closed, dropped,
                      rpc, batch, batchBytes, attempt>>

\* batchShipper.Emit loads the closed flag ...
EmitLoad(e) ==
    LET s == at[e]
    IN /\ pc[e] = "emit" /\ s \in Remote
       /\ IF closed[s]
          THEN /\ dropped' = [dropped EXCEPT ![s] = dropped[s] + 1]
               /\ offered' = [offered EXCEPT ![s] = offered[s] + 1]
               /\ at' = [at EXCEPT ![e] = s + 1]
               /\ UNCHANGED pc
          ELSE /\ pc' = [pc EXCEPT ![e] = "send"]
               /\ UNCHANGED <<dropped, offered, at>>
       /\ UNCHANGED <<loggerVars, mu, local, queue, closed, shipperVars>>

\* Mutant: the send waits for room in the queue.
EmitSendBlocking(e) ==
    LET s == at[e]
    IN /\ pc[e] = "send"
       /\ Len(queue[s]) < QueueSize
       /\ queue' = [queue EXCEPT ![s] = Append(queue[s], e)]
       /\ offered' = [offered EXCEPT ![s] = offered[s] + 1]
       /\ at' = [at EXCEPT ![e] = s + 1]
       /\ pc' = [pc EXCEPT ![e] = "emit"]
       /\ UNCHANGED <<loggerVars, mu, local, closed, dropped, shipperVars>>

\* ... and then sends without blocking: a full queue drops the event.
EmitSend(e) ==
    LET s == at[e]
        room == Len(queue[s]) < QueueSize
    IN /\ pc[e] = "send"
       /\ queue' = [queue EXCEPT ![s] = IF room THEN Append(queue[s], e) ELSE queue[s]]
       /\ dropped' = [dropped EXCEPT ![s] = IF room THEN dropped[s] ELSE dropped[s] + 1]
       /\ offered' = [offered EXCEPT ![s] = offered[s] + 1]
       /\ at' = [at EXCEPT ![e] = s + 1]
       /\ pc' = [pc EXCEPT ![e] = "emit"]
       /\ UNCHANGED <<loggerVars, mu, local, closed, shipperVars>>

Unlock(e) ==
    /\ pc[e] = "emit" /\ at[e] = NumSinks + 1
    /\ mu' = Nobody
    /\ pc' = [pc EXCEPT ![e] = "done"]
    /\ UNCHANGED <<loggerVars, local, at, queue, closed, dropped, shipperVars, offered>>

Handler(e) == Write(e) \/ EmitToFile(e) \/ EmitLoad(e) \/ EmitSend(e) \/ Unlock(e)

----------------------------------------------------------------------------
(* run and deliver: the goroutine of a shipper.                            *)

\* The queue gives the next payload; a full batch is delivered.
Take(s) ==
    LET b == Append(batch[s], Head(queue[s]))
        n == batchBytes[s] + EventBytes[Head(queue[s])]
    IN /\ rpc[s] = "select" /\ queue[s] # << >>
       /\ queue' = [queue EXCEPT ![s] = Tail(queue[s])]
       /\ batch' = [batch EXCEPT ![s] = b]
       /\ batchBytes' = [batchBytes EXCEPT ![s] = n]
       /\ rpc' = [rpc EXCEPT ![s] = IF Len(b) >= BatchEvents \/ n >= BatchBytes
                                    THEN "deliver" ELSE "select"]
       /\ UNCHANGED <<loggerVars, handlerVars, closed, dropped, attempt, offered, acked, copies>>

\* The ticker flushes; an empty batch is not delivered.
Tick(s) ==
    /\ rpc[s] = "select" /\ batch[s] # << >>
    /\ rpc' = [rpc EXCEPT ![s] = "deliver"]
    /\ UNCHANGED <<loggerVars, handlerVars, queue, closed, dropped, batch, batchBytes,
                   attempt, offered, acked, copies>>

\* done is closed: the final drain begins. select picks any ready case, so
\* this may come before or after Take.
DrainStart(s) ==
    /\ rpc[s] = "select" /\ closed[s]
    /\ rpc' = [rpc EXCEPT ![s] = "drain"]
    /\ UNCHANGED <<loggerVars, handlerVars, queue, closed, dropped, batch, batchBytes,
                   attempt, offered, acked, copies>>

\* The drain adds to the batch whatever its size.
DrainTake(s) ==
    /\ rpc[s] = "drain" /\ queue[s] # << >>
    /\ queue' = [queue EXCEPT ![s] = Tail(queue[s])]
    /\ batch' = [batch EXCEPT ![s] = Append(batch[s], Head(queue[s]))]
    /\ UNCHANGED <<loggerVars, handlerVars, closed, dropped, rpc, batchBytes,
                   attempt, offered, acked, copies>>

DrainEnd(s) ==
    /\ rpc[s] = "drain" /\ queue[s] = << >>
    /\ rpc' = [rpc EXCEPT ![s] = IF batch[s] = << >> THEN "exited" ELSE "last"]
    /\ UNCHANGED <<loggerVars, handlerVars, queue, closed, dropped, batch, batchBytes,
                   attempt, offered, acked, copies>>

Delivering(s) == rpc[s] \in {"deliver", "last"}

\* flush returns: the batch is empty again and the goroutine goes on or exits.
Flushed(s) ==
    /\ batch' = [batch EXCEPT ![s] = << >>]
    /\ batchBytes' = [batchBytes EXCEPT ![s] = 0]
    /\ attempt' = [attempt EXCEPT ![s] = 0]
    /\ rpc' = [rpc EXCEPT ![s] = IF rpc[s] = "last" THEN "exited" ELSE "select"]

\* The destination took the batch, once more if it had before.
Taken(s) ==
    copies' = [copies EXCEPT ![s] =
                 [e \in Events |-> IF \E i \in 1 .. Len(batch[s]) : batch[s][i] = e
                                   THEN copies[s][e] + 1 ELSE copies[s][e]]]

SendSucceeds(s) ==
    /\ Delivering(s)
    /\ acked' = [acked EXCEPT ![s] = acked[s] \o batch[s]]
    /\ Taken(s)
    /\ Flushed(s)
    /\ UNCHANGED <<loggerVars, handlerVars, queue, closed, dropped, offered>>

\* Mutant: the attempts are counted from one too few.
SendFailsOnceMore(s) ==
    /\ Delivering(s)
    /\ Taken(s) \/ UNCHANGED copies
    /\ IF attempt[s] < SendAttempts
       THEN /\ attempt' = [attempt EXCEPT ![s] = attempt[s] + 1]
            /\ UNCHANGED <<dropped, batch, batchBytes, rpc>>
       ELSE /\ dropped' = [dropped EXCEPT ![s] = dropped[s] + Len(batch[s])]
            /\ Flushed(s)
    /\ UNCHANGED <<loggerVars, handlerVars, queue, closed, offered, acked>>

\* Mutant: after the last attempt a failing batch is tried all over again.
SendFailsForever(s) ==
    /\ Delivering(s)
    /\ attempt' = [attempt EXCEPT ![s] = IF attempt[s] + 1 < SendAttempts THEN attempt[s] + 1 ELSE 0]
    /\ UNCHANGED <<loggerVars, handlerVars, queue, closed, dropped, offered, acked, copies,
                   batch, batchBytes, rpc>>

\* An error, a refusal or a timeout, possibly after the destination took the
\* batch: one more attempt, or the batch is counted as dropped.
SendFails(s) ==
    /\ Delivering(s)
    /\ Taken(s) \/ UNCHANGED copies
    /\ IF attempt[s] + 1 < SendAttempts
       THEN /\ attempt' = [attempt EXCEPT ![s] = attempt[s] + 1]
            /\ UNCHANGED <<dropped, batch, batchBytes, rpc>>
       ELSE /\ dropped' = [dropped EXCEPT ![s] = dropped[s] + Len(batch[s])]
            /\ Flushed(s)
    /\ UNCHANGED <<loggerVars, handlerVars, queue, closed, offered, acked>>

Shipper(s) ==
    \/ Take(s) \/ Tick(s) \/ DrainStart(s) \/ DrainTake(s) \/ DrainEnd(s)
    \/ SendSucceeds(s) \/ SendFails(s)

----------------------------------------------------------------------------
(* Close, called while handlers may still be writing.                      *)

\* Mutant: the sinks are detached without taking l.mu.
CloseDetachUnlocked ==
    /\ phase = "running"
    /\ phase' = "closing"
    /\ attached' = FALSE
    /\ UNCHANGED <<opened, cursor, handlerVars, queue, closed, dropped, shipperVars, offered>>

CloseDetach ==
    /\ phase = "running" /\ mu = Nobody
    /\ phase' = "closing"
    /\ attached' = FALSE
    /\ UNCHANGED <<opened, cursor, handlerVars, queue, closed, dropped, shipperVars, offered>>

\* Close of one sink: the flag and the done channel ...
CloseSink ==
    /\ phase = "closing" /\ cursor <= opened /\ ~ closed[cursor]
    /\ closed' = [closed EXCEPT ![cursor] = TRUE]
    /\ UNCHANGED <<loggerVars, handlerVars, queue, dropped, shipperVars, offered>>

\* ... and the wait for its goroutine.
CloseWait ==
    /\ phase = "closing" /\ cursor <= opened /\ closed[cursor]
    /\ cursor \in Remote => rpc[cursor] = "exited"
    /\ cursor' = cursor + 1
    /\ UNCHANGED <<phase, opened, attached, handlerVars, queue, closed, dropped,
                   shipperVars, offered>>

CloseReturn ==
    /\ phase = "closing" /\ cursor > opened
    /\ phase' = "closed"
    /\ UNCHANGED <<opened, cursor, attached, handlerVars, queue, closed, dropped,
                   shipperVars, offered>>

Closer == CloseSink \/ CloseWait \/ CloseReturn

----------------------------------------------------------------------------

Init ==
    /\ phase = "opening" /\ opened = 0 /\ cursor = 1 /\ attached = FALSE
    /\ mu = Nobody /\ local = << >>
    /\ pc = [e \in Events |-> "ready"]
    /\ at = [e \in Events |-> 1]
    /\ queue = [s \in Sinks |-> << >>]
    /\ closed = [s \in Sinks |-> FALSE]
    /\ dropped = [s \in Sinks |-> 0]
    /\ rpc = [s \in Sinks |-> "off"]
    /\ batch = [s \in Sinks |-> << >>]
    /\ batchBytes = [s \in Sinks |-> 0]
    /\ attempt = [s \in Sinks |-> 0]
    /\ offered = [s \in Sinks |-> 0]
    /\ acked = [s \in Sinks |-> << >>]
    /\ copies = [s \in Sinks |-> [e \in Events |-> 0]]

\* Close has returned and every handler is done.
Finished == phase = "closed" /\ UNCHANGED vars

Next ==
    \/ OpenSink \/ OpenFails \/ AttachSinks
    \/ \E e \in Events : Handler(e)
    \/ \E s \in Remote : Shipper(s)
    \/ CloseDetach \/ Closer
    \/ Finished

(* Goroutines are scheduled: a handler that holds the lock, a shipper that *)
(* can step and the closing loop do go on. A send ends, one way or the     *)
(* other, because the HTTP client has a timeout. Nothing makes handlers    *)
(* start or somebody call Close.                                           *)
Fairness ==
    /\ \A e \in Events : WF_vars(EmitToFile(e) \/ EmitLoad(e) \/ EmitSend(e) \/ Unlock(e))
    /\ \A s \in Remote : WF_vars(Shipper(s))
    /\ WF_vars(Closer)

Spec == Init /\ [][Next]_vars /\ Fairness

----------------------------------------------------------------------------
(* Properties.                                                             *)

\* The shape of the state; queues hold at most their capacity.
TypeOK ==
    /\ phase \in {"opening", "running", "closing", "closed"}
    /\ opened \in 0 .. NumSinks
    /\ cursor \in 1 .. NumSinks + 1
    /\ attached \in BOOLEAN
    /\ mu \in Events \cup {Nobody}
    /\ local \in Seq(Events)
    /\ pc \in [Events -> {"ready", "emit", "send", "done"}]
    /\ at \in [Events -> 1 .. NumSinks + 1]
    /\ queue \in [Sinks -> Seq(Events)]
    /\ \A s \in Sinks : Len(queue[s]) <= QueueSize
    /\ closed \in [Sinks -> BOOLEAN]
    /\ dropped \in [Sinks -> Nat]
    /\ rpc \in [Sinks -> {"off", "select", "deliver", "drain", "last", "exited"}]
    /\ batch \in [Sinks -> Seq(Events)]
    /\ batchBytes \in [Sinks -> Nat]
    /\ attempt \in [Sinks -> 0 .. SendAttempts - 1]
    /\ offered \in [Sinks -> Nat]
    /\ acked \in [Sinks -> Seq(Events)]
    /\ copies \in [Sinks -> [Events -> Nat]]

\* No event offered to a remote sink is lost without being counted: it is in
\* the queue, in the batch, acknowledged by the destination or in the number
\* that Close reports; and a goroutine that has exited left nothing behind,
\* however Close, the drain and late handlers interleave.
LossIsCounted ==
    \A s \in Remote :
        /\ offered[s] = Len(acked[s]) + dropped[s] + Len(queue[s]) + Len(batch[s])
        /\ rpc[s] = "exited" => queue[s] = << >> /\ batch[s] = << >>

\* A destination sees the events in the order of the local output, though
\* they come from concurrent handlers through queues and retried batches.
SinkOrderIsLocalOrder ==
    \A s \in Sinks : \A i, j \in 1 .. Len(acked[s]) : i < j =>
        \E m, n \in 1 .. Len(local) :
            m < n /\ local[m] = acked[s][i] /\ local[n] = acked[s][j]

\* "send at most two attempts per batch" (readme.md): no destination gets an
\* event more often than that, even when the answers to sends it took are
\* lost, and what still waits in a queue has never been sent.
FewCopies ==
    \A s \in Remote, e \in Events :
        /\ copies[s][e] <= SendAttempts
        /\ (\E i \in 1 .. Len(queue[s]) : queue[s][i] = e) => copies[s][e] = 0

\* Emit never blocks a handler, however slow the destinations are: whoever
\* holds the lock can always take its next step by itself.
HandlersNeverBlock ==
    \A e \in Events : mu = e =>
        ENABLED (EmitToFile(e) \/ EmitLoad(e) \/ EmitSend(e) \/ Unlock(e))

\* After a start-up that failed half-way, as after Close, every sink that was
\* opened is closed and its goroutine has exited.
NothingLeftOpen ==
    phase = "closed" => \A s \in 1 .. opened :
        closed[s] /\ (s \in Remote => rpc[s] = "exited")

\* Close returns, after drains, failing sends and retries; so does a failed
\* start-up.
CloseReturns == (phase = "closing") ~> (phase = "closed")
=============================================================================
