-------------------------- MODULE TCPSensorProofs --------------------------
(***************************************************************************)
(* Theorems about TCPSensor, for every bound and every finite set of       *)
(* connections.                                                            *)
(***************************************************************************)
EXTENDS TCPSensor, FiniteSetTheorems, TLAPS

\* The logger is closed only after the listener is, and after the last
\* handler is done: no handler starts once the loop has been left.
ShutdownOrder ==
    /\ lpc \in {"drain", "flush", "returned"} => listener = "closed"
    /\ lpc \in {"flush", "returned"} => Running = {}
    /\ loggerClosed => lpc = "returned"

\* What has been recorded of a connection follows its handler.
RecordedOnce ==
    \A c \in Conns : recorded[c] = IF hpc[c] \in {"defer", "done"} THEN 1 ELSE 0

\* The inductive invariant: shutdown happens in order, and slots and records follow the handlers.
Invariant == TypeOK /\ ShutdownOrder /\ RecordedOnce /\ SlotsMatchHandlers

\* The running handlers can be counted.
LEMMA FiniteRunning == IsFiniteSet(Running) /\ Cardinality(Running) \in Nat
<1>1. Running \subseteq Conns
  BY DEF Running
<1> QED
  BY <1>1, FS_Subset, FS_CardinalityType, SensorConstants

\* The started sensor satisfies the invariant.
LEMMA InitInvariant == Init => Invariant
<1> SUFFICES ASSUME Init PROVE Invariant
  OBVIOUS
<1>1. TypeOK
  <2>1. slots \in 0 .. MaxConnections
    BY SensorConstants DEF Init
  <2>2. cancelled \in BOOLEAN /\ failed \in BOOLEAN /\ loggerClosed \in BOOLEAN
    BY DEF Init
  <2> QED
    BY <2>1, <2>2 DEF Init, TypeOK
<1>2. Running = {}
  BY DEF Init, Running
<1>3. ShutdownOrder /\ RecordedOnce
  BY DEF Init, ShutdownOrder, RecordedOnce
<1>4. SlotsMatchHandlers
  <2>1. Cardinality(Running) = 0
    BY <1>2, FS_EmptySet, Zenon
  <2> QED
    BY <2>1 DEF Init, SlotsMatchHandlers
<1> QED
  BY <1>1, <1>3, <1>4 DEF Invariant

\* Closing the listener refuses pending connections and touches no other.
LEMMA RefusedKeeps ==
  ASSUME TypeOK, hpc' = Refused
  PROVE  /\ hpc' \in [Conns -> {"none", "pending", "read", "log", "defer", "done"}]
         /\ Running' = Running
         /\ \A c \in Conns : hpc'[c] \in {"defer", "done"} <=> hpc[c] \in {"defer", "done"}
  BY DEF TypeOK, Refused, Running

\* Every step of the loop, the handlers, the shutdown and the clients keeps the invariant.
LEMMA StepInvariant ==
  ASSUME TypeOK, ShutdownOrder, RecordedOnce, SlotsMatchHandlers, [Next]_vars
  PROVE  Invariant'
<1>0. /\ slots = Cardinality(Running) + (IF lpc = "accept" THEN 1 ELSE 0)
      /\ MaxConnections \in Nat /\ slots \in Nat /\ slots <= MaxConnections
      /\ Cardinality(Running) \in Nat
  BY SensorConstants, FiniteRunning DEF SlotsMatchHandlers, TypeOK
<1>1. ASSUME NEW c \in Conns, Connect(c) PROVE Invariant'
  <2>1. Running' = Running
    BY <1>1 DEF Connect, TypeOK, Running
  <2>2. TypeOK'
    BY <1>1 DEF Connect, TypeOK
  <2>3. ShutdownOrder' /\ SlotsMatchHandlers'
    BY <1>1, <2>1 DEF Connect, ShutdownOrder, SlotsMatchHandlers
  <2>4. RecordedOnce'
    BY <1>1 DEF Connect, TypeOK, RecordedOnce
  <2> QED
    BY <2>2, <2>3, <2>4 DEF Invariant
<1>2. ASSUME Cancel \/ Stopped \/ UNCHANGED vars PROVE Invariant'
  <2>1. cancelled' \in BOOLEAN
    BY <1>2 DEF Cancel, Stopped, vars, TypeOK
  <2>2. UNCHANGED <<listener, slots, lpc, failed, hpc, socket, recorded, loggerClosed>>
    BY <1>2 DEF Cancel, Stopped, vars
  <2>3. Running' = Running
    BY <2>2 DEF Running
  <2>4. TypeOK'
    BY <2>1, <2>2 DEF TypeOK
  <2>5. ShutdownOrder' /\ SlotsMatchHandlers' /\ RecordedOnce'
    BY <2>2, <2>3 DEF ShutdownOrder, SlotsMatchHandlers, RecordedOnce
  <2> QED
    BY <2>4, <2>5 DEF Invariant
<1>3. ASSUME CloseOnCancel PROVE Invariant'
  <2>1. Running' = Running /\ TypeOK'
    BY <1>3, RefusedKeeps DEF CloseOnCancel, TypeOK
  <2>2. ShutdownOrder' /\ SlotsMatchHandlers'
    BY <1>3, <2>1 DEF CloseOnCancel, ShutdownOrder, SlotsMatchHandlers
  <2>3. RecordedOnce'
    BY <1>3, RefusedKeeps DEF CloseOnCancel, RecordedOnce
  <2> QED
    BY <2>1, <2>2, <2>3 DEF Invariant
<1>4. ASSUME LoopSlot PROVE Invariant'
  <2>1. slots' = slots + 1 /\ slots' \in 0 .. MaxConnections /\ lpc = "select" /\ lpc' = "accept"
    BY <1>0, <1>4 DEF LoopSlot
  <2>2. Running' = Running
    BY <1>4 DEF LoopSlot, Running
  <2>3. TypeOK'
    BY <1>4, <2>1 DEF LoopSlot, TypeOK
  <2>4. SlotsMatchHandlers'
    BY <1>0, <2>1, <2>2 DEF SlotsMatchHandlers
  <2>5. ShutdownOrder' /\ RecordedOnce'
    BY <1>4 DEF LoopSlot, ShutdownOrder, RecordedOnce
  <2> QED
    BY <2>3, <2>4, <2>5 DEF Invariant
<1>5. ASSUME LoopCancelled PROVE Invariant'
  <2>1. Running' = Running /\ TypeOK'
    BY <1>5, RefusedKeeps DEF LoopCancelled, TypeOK
  <2>2. ShutdownOrder' /\ SlotsMatchHandlers'
    BY <1>5, <2>1 DEF LoopCancelled, ShutdownOrder, SlotsMatchHandlers
  <2>3. RecordedOnce'
    BY <1>5, RefusedKeeps DEF LoopCancelled, RecordedOnce
  <2> QED
    BY <2>1, <2>2, <2>3 DEF Invariant
<1>6. ASSUME NEW c \in Conns, AcceptConn(c) PROVE Invariant'
  <2>1. c \notin Running /\ Running' = Running \cup {c} /\ lpc = "accept" /\ lpc' = "select"
    BY <1>6 DEF AcceptConn, TypeOK, Running
  <2>2. Cardinality(Running') = Cardinality(Running) + 1
    BY <2>1, FiniteRunning, FS_AddElement
  <2>3. TypeOK'
    BY <1>6 DEF AcceptConn, TypeOK
  <2>4. SlotsMatchHandlers'
    BY <1>0, <1>6, <2>1, <2>2 DEF AcceptConn, SlotsMatchHandlers
  <2>5. ShutdownOrder'
    BY <1>6, <2>1 DEF AcceptConn, ShutdownOrder
  <2>6. RecordedOnce'
    BY <1>6 DEF AcceptConn, TypeOK, RecordedOnce
  <2> QED
    BY <2>3, <2>4, <2>5, <2>6 DEF Invariant
<1>7. ASSUME AcceptError PROVE Invariant'
  <2>1. /\ slots' = slots - 1 /\ slots' \in 0 .. MaxConnections
        /\ lpc = "accept" /\ lpc' = "drain"
    BY <1>0, <1>7 DEF AcceptError
  <2>2. Running' = Running
    BY <1>7, RefusedKeeps DEF AcceptError
  <2>3. failed' \in BOOLEAN
    BY <1>7 DEF AcceptError
  <2>4. TypeOK'
    BY <1>7, <2>1, <2>3, RefusedKeeps DEF AcceptError, TypeOK
  <2>5. SlotsMatchHandlers'
    BY <1>0, <2>1, <2>2 DEF SlotsMatchHandlers
  <2>6. ShutdownOrder'
    BY <1>7, <2>1 DEF AcceptError, ShutdownOrder
  <2>7. RecordedOnce'
    BY <1>7, RefusedKeeps DEF AcceptError, RecordedOnce
  <2> QED
    BY <2>4, <2>5, <2>6, <2>7 DEF Invariant
<1>8. ASSUME NEW c \in Conns, CloseSocketOnCancel(c) PROVE Invariant'
  <2>1. TypeOK'
    BY <1>8 DEF CloseSocketOnCancel, TypeOK
  <2>2. Running' = Running
    BY <1>8 DEF CloseSocketOnCancel, Running
  <2>3. ShutdownOrder' /\ SlotsMatchHandlers' /\ RecordedOnce'
    BY <1>8, <2>2 DEF CloseSocketOnCancel, ShutdownOrder, SlotsMatchHandlers, RecordedOnce
  <2> QED
    BY <2>1, <2>3 DEF Invariant
<1>9. ASSUME NEW c \in Conns, Read(c) PROVE Invariant'
  <2>1. TypeOK'
    BY <1>9 DEF Read, TypeOK
  <2>2. Running' = Running
    BY <1>9 DEF Read, TypeOK, Running
  <2>3. ShutdownOrder' /\ SlotsMatchHandlers'
    BY <1>9, <2>2 DEF Read, ShutdownOrder, SlotsMatchHandlers
  <2>4. RecordedOnce'
    BY <1>9 DEF Read, TypeOK, RecordedOnce
  <2> QED
    BY <2>1, <2>3, <2>4 DEF Invariant
<1>10. ASSUME NEW c \in Conns, Log(c) PROVE Invariant'
  <2>1. c \in Running /\ ~ loggerClosed
    BY <1>10 DEF Log, Running, ShutdownOrder
  <2>2. recorded[c] = 0 /\ recorded' = [recorded EXCEPT ![c] = 1]
    <3>1. recorded[c] = 0
      BY <1>10 DEF Log, RecordedOnce
    <3>2. recorded' = [recorded EXCEPT ![c] = recorded[c] + 1]
      BY <1>10, <2>1 DEF Log
    <3> QED
      BY <3>1, <3>2
  <2>3. TypeOK'
    BY <1>10, <2>2 DEF Log, TypeOK
  <2>4. Running' = Running
    BY <1>10 DEF Log, TypeOK, Running
  <2>5. ShutdownOrder' /\ SlotsMatchHandlers'
    BY <1>10, <2>4 DEF Log, ShutdownOrder, SlotsMatchHandlers
  <2>6. RecordedOnce'
    BY <1>10, <2>2 DEF Log, TypeOK, RecordedOnce
  <2> QED
    BY <2>3, <2>5, <2>6 DEF Invariant
<1>11. ASSUME NEW c \in Conns, Deferred(c) PROVE Invariant'
  <2>1. c \in Running /\ Running' = Running \ {c}
    BY <1>11 DEF Deferred, TypeOK, Running
  <2>2. Cardinality(Running') = Cardinality(Running) - 1 /\ Cardinality(Running) # 0
    BY <2>1, FiniteRunning, FS_RemoveElement, FS_EmptySet
  <2>3. slots' = slots - 1 /\ slots' \in 0 .. MaxConnections /\ lpc' = lpc
    BY <1>0, <1>11, <2>2 DEF Deferred
  <2>4. TypeOK'
    BY <1>11, <2>3 DEF Deferred, TypeOK
  <2>5. SlotsMatchHandlers'
    BY <1>0, <2>2, <2>3 DEF SlotsMatchHandlers
  <2>6. ShutdownOrder'
    BY <1>11, <2>1 DEF Deferred, ShutdownOrder
  <2>7. RecordedOnce'
    BY <1>11 DEF Deferred, TypeOK, RecordedOnce
  <2> QED
    BY <2>4, <2>5, <2>6, <2>7 DEF Invariant
<1>12. ASSUME HandlersWait \/ CloseLogger PROVE Invariant'
  <2>1. Running' = Running
    BY <1>12 DEF HandlersWait, CloseLogger, Running
  <2>2. loggerClosed' \in BOOLEAN
    BY <1>12 DEF HandlersWait, CloseLogger, TypeOK
  <2>3. TypeOK'
    BY <1>12, <2>2 DEF HandlersWait, CloseLogger, TypeOK
  <2>4. ShutdownOrder' /\ SlotsMatchHandlers' /\ RecordedOnce'
    BY <1>12, <2>1 DEF HandlersWait, CloseLogger, ShutdownOrder, SlotsMatchHandlers, RecordedOnce
  <2> QED
    BY <2>3, <2>4 DEF Invariant
<1> QED
  BY <1>1, <1>2, <1>3, <1>4, <1>5, <1>6, <1>7, <1>8, <1>9, <1>10, <1>11, <1>12
  DEF Next, Handler

\* The invariant holds in every behaviour.
THEOREM Inductive == Spec => []Invariant
<1>1. Invariant /\ [Next]_vars => Invariant'
  BY StepInvariant DEF Invariant
<1> QED
  BY <1>1, InitInvariant, PTL DEF Spec

\* The slots are those of the handlers and of the Accept in progress.
THEOREM SlotsNeverLeak == Spec => []SlotsMatchHandlers
<1>1. Invariant => SlotsMatchHandlers
  BY DEF Invariant
<1> QED
  BY <1>1, Inductive, PTL

\* Every accepted connection is recorded once, before the logger closes, and
\* no handler outlives the sensor.
THEOREM AllRecorded == Spec => []EveryConnectionRecorded
<1>1. Invariant => EveryConnectionRecorded
  BY DEF Invariant, RecordedOnce, ShutdownOrder, EveryConnectionRecorded
<1> QED
  BY <1>1, Inductive, PTL

\* The sensor implements ConnectionLimit: a connection is admitted with the
\* slot its Accept holds, so that the running handlers were fewer than the
\* bound.
THEOREM RefinesLimit == Spec => ImplementsLimit
<1> DEFINE gone == {c \in Conns : hpc[c] = "done"}
<1>1. Init => Limit!Init
  BY DEF Init, Limit!Init, Running
<1>2. Invariant /\ [Next]_vars => [Limit!Next]_(Limit!limitVars)
  <2> SUFFICES ASSUME Invariant, [Next]_vars
               PROVE  Limit!Next \/ (Running' = Running /\ gone' = gone)
    BY DEF Limit!limitVars
  <2>0. TypeOK /\ SlotsMatchHandlers
    BY DEF Invariant
  <2>1. ASSUME NEW c \in Conns, AcceptConn(c) PROVE Limit!Admit(c)
    <3>1. Cardinality(Running) < MaxConnections
      BY <2>0, <2>1, FiniteRunning, SensorConstants DEF AcceptConn, SlotsMatchHandlers, TypeOK
    <3>2. c \notin Running \cup gone /\ Running' = Running \cup {c} /\ gone' = gone
      BY <2>0, <2>1 DEF AcceptConn, TypeOK, Running
    <3> QED
      BY <3>1, <3>2, Zenon DEF Limit!Admit, Limit!Cardinality, Cardinality
  <2>2. ASSUME NEW c \in Conns, Deferred(c) PROVE Limit!Leave(c)
    <3>1. c \in Running /\ Running' = Running \ {c} /\ gone' = gone \cup {c}
      BY <2>0, <2>2 DEF Deferred, TypeOK, Running
    <3> QED
      BY <3>1, Zenon DEF Limit!Leave
  <2>3. ASSUME NEW c \in Conns, Connect(c) \/ Read(c) \/ Log(c)
        PROVE  Running' = Running /\ gone' = gone
    BY <2>0, <2>3 DEF Connect, Read, Log, TypeOK, Running
  <2>4. ASSUME hpc' = Refused PROVE Running' = Running /\ gone' = gone
    BY <2>0, <2>4 DEF Refused, Running
  <2>5. ASSUME hpc' = hpc PROVE Running' = Running /\ gone' = gone
    BY <2>5 DEF Running
  <2>6. ASSUME CloseOnCancel \/ LoopCancelled \/ AcceptError PROVE hpc' = Refused
    BY <2>6 DEF CloseOnCancel, LoopCancelled, AcceptError
  <2>7. ASSUME \/ \E c \in Conns : CloseSocketOnCancel(c)
               \/ Cancel \/ LoopSlot \/ HandlersWait \/ CloseLogger \/ Stopped
               \/ UNCHANGED vars
        PROVE  hpc' = hpc
    BY <2>7 DEF CloseSocketOnCancel, Cancel, LoopSlot, HandlersWait, CloseLogger, Stopped, vars
  <2> QED
    BY <2>1, <2>2, <2>3, <2>4, <2>5, <2>6, <2>7 DEF Next, Handler, Limit!Next
<1> QED
  BY <1>1, <1>2, Inductive, PTL DEF Spec, ImplementsLimit, Limit!Spec
=============================================================================
