------------------------ MODULE EventPipelineProofs ------------------------
(***************************************************************************)
(* Theorems about EventPipeline, for every number of events and sinks and  *)
(* every capacity.                                                         *)
(***************************************************************************)
EXTENDS EventPipeline, TLAPS

(* What orders Close, the handlers and the shippers: a handler in its      *)
(* fan-out loop holds the lock, so that no sink is being closed while an   *)
(* event may still be sent to it; a goroutine that drains its queue has    *)
(* seen its sink closed, so that nothing more can be queued behind it.     *)

\* A handler in its fan-out holds the lock, and sinks are being visited only while running.
HandlerHoldsLock ==
    \A e \in Events :
        /\ pc[e] \in {"emit", "send"} => mu = e
        /\ pc[e] = "send" => at[e] \in Remote
        /\ pc[e] \in {"emit", "send"} /\ at[e] <= NumSinks => phase = "running"

\* Sinks are closed in order, after they were detached, and their goroutines end in order.
ClosedInOrder ==
    /\ attached => phase = "running"
    /\ phase = "opening" => cursor = 1
    /\ \A s \in Sinks : closed[s] => phase \in {"closing", "closed"}
    /\ \A s \in Sinks : rpc[s] \in {"drain", "last", "exited"} => closed[s]
    /\ \A s \in Sinks : rpc[s] \in {"last", "exited"} => queue[s] = << >>
    /\ \A s \in Sinks : rpc[s] = "exited" => batch[s] = << >>
    /\ phase = "closed" => cursor > opened
    /\ \A s \in Sinks : s < cursor => closed[s] /\ (s \in Remote => rpc[s] = "exited")

\* The inductive invariant: the lock and the order of closing make loss accounting hold.
Invariant == TypeOK /\ HandlerHoldsLock /\ ClosedInOrder /\ LossIsCounted

\* Sinks are numbered from 1 to NumSinks.
LEMMA SinkNumbers == Sinks \subseteq Int /\ Remote \subseteq Sinks /\ NumSinks \in Nat
                     /\ \A i \in Int : i \in Sinks <=> (1 <= i /\ i <= NumSinks)
  BY PipelineConstants DEF Sinks, Remote

\* A sink is remote or a file, not both.
LEMMA SinkKinds == Remote \subseteq Sinks /\ FileSinks \subseteq Sinks /\ FileSinks \cap Remote = {}
  BY PipelineConstants DEF Remote

\* A free lock is held by no handler.
LEMMA NoHandler == Nobody \notin Events
  BY PipelineConstants

\* The fan-out loop stays within the sinks, or just past them.
LEMMA NextSink ==
  ASSUME NEW s \in Sinks
  PROVE  s + 1 \in 1 .. NumSinks + 1
  BY PipelineConstants DEF Sinks

\* A logger that has opened nothing satisfies the invariant.
LEMMA InitInvariant == Init => Invariant
<1> SUFFICES ASSUME Init PROVE Invariant
  OBVIOUS
<1>1. /\ << >> \in Seq(Events) /\ Len(<< >>) = 0
  OBVIOUS
<1>2. TypeOK
  <2>1. phase \in {"opening", "running", "closing", "closed"} /\ opened \in 0 .. NumSinks
          /\ cursor \in 1 .. NumSinks + 1
    BY SinkNumbers DEF Init
  <2>6. attached \in BOOLEAN /\ mu \in Events \cup {Nobody} /\ local \in Seq(Events)
    BY <1>1 DEF Init
  <2>2. pc \in [Events -> {"ready", "emit", "send", "done"}]
          /\ at \in [Events -> 1 .. NumSinks + 1]
    BY SinkNumbers DEF Init
  <2>3. queue \in [Sinks -> Seq(Events)] /\ batch \in [Sinks -> Seq(Events)]
          /\ acked \in [Sinks -> Seq(Events)] /\ \A s \in Sinks : Len(queue[s]) <= QueueSize
    BY <1>1, PipelineConstants DEF Init
  <2>4. closed \in [Sinks -> BOOLEAN]
          /\ rpc \in [Sinks -> {"off", "select", "deliver", "drain", "last", "exited"}]
    BY DEF Init
  <2>5. dropped \in [Sinks -> Nat] /\ batchBytes \in [Sinks -> Nat]
          /\ attempt \in [Sinks -> 0 .. SendAttempts - 1] /\ offered \in [Sinks -> Nat]
          /\ copies \in [Sinks -> [Events -> Nat]]
    BY PipelineConstants DEF Init
  <2> QED
    BY <2>1, <2>2, <2>3, <2>4, <2>5, <2>6 DEF TypeOK
<1>3. HandlerHoldsLock
  BY DEF Init, HandlerHoldsLock
<1>4. ClosedInOrder
  BY SinkNumbers DEF Init, ClosedInOrder
<1>5. LossIsCounted
  BY <1>1, SinkNumbers DEF Init, LossIsCounted
<1> QED
  BY <1>2, <1>3, <1>4, <1>5 DEF Invariant

\* What appending to a queue of events gives.
LEMMA Appended ==
  ASSUME NEW q \in Seq(Events), NEW e \in Events
  PROVE  Append(q, e) \in Seq(Events) /\ Len(Append(q, e)) = Len(q) + 1 /\ Len(q) \in Nat
         /\ Append(q, e) # << >>
  OBVIOUS

\* What taking the head of a queue of events leaves.
LEMMA Split ==
  ASSUME NEW q \in Seq(Events), q # << >>
  PROVE  /\ Head(q) \in Events /\ Tail(q) \in Seq(Events)
         /\ Len(Tail(q)) = Len(q) - 1 /\ Len(q) \in Nat /\ Len(q) >= 1
  OBVIOUS

\* What joining two sequences of events gives.
LEMMA Joined ==
  ASSUME NEW q \in Seq(Events), NEW r \in Seq(Events)
  PROVE  q \o r \in Seq(Events) /\ Len(q \o r) = Len(q) + Len(r)
         /\ Len(q) \in Nat /\ Len(r) \in Nat
  OBVIOUS

\* The empty sequence is a sequence of events of length 0.
LEMMA Empty == << >> \in Seq(Events) /\ Len(<< >>) = 0
  OBVIOUS

\* Start-up and Close.
LEMMA LoggerStep ==
  ASSUME TypeOK, HandlerHoldsLock, ClosedInOrder, LossIsCounted,
         (OpenSink \/ OpenFails \/ AttachSinks \/ CloseDetach \/ CloseSink \/ CloseWait \/ CloseReturn)
  PROVE  Invariant'
<1>1. CASE OpenSink
  <2>1. TypeOK'
    <3>1. opened' \in 0 .. NumSinks
      BY <1>1, SinkNumbers DEF OpenSink, TypeOK
    <3>2. rpc' \in [Sinks -> {"off", "select", "deliver", "drain", "last", "exited"}]
      BY <1>1 DEF OpenSink, TypeOK
    <3> QED
      BY <1>1, <3>1, <3>2 DEF OpenSink, TypeOK, handlerVars
  <2>2. HandlerHoldsLock'
    BY <1>1 DEF OpenSink, HandlerHoldsLock, TypeOK, loggerVars, handlerVars, shipperVars
  <2>3. ClosedInOrder'
    BY <1>1 DEF OpenSink, ClosedInOrder, TypeOK, loggerVars, handlerVars, shipperVars
  <2>4. LossIsCounted'
    BY <1>1 DEF OpenSink, LossIsCounted, TypeOK, ClosedInOrder, loggerVars, handlerVars, shipperVars
  <2> QED
    BY <2>1, <2>2, <2>3, <2>4 DEF Invariant
<1>2. CASE OpenFails
  <2>1. TypeOK'
    BY <1>2 DEF OpenFails, TypeOK, loggerVars, handlerVars, shipperVars
  <2>2. HandlerHoldsLock'
    BY <1>2 DEF OpenFails, HandlerHoldsLock, TypeOK, loggerVars, handlerVars, shipperVars
  <2>3. ClosedInOrder'
    BY <1>2 DEF OpenFails, ClosedInOrder, TypeOK, loggerVars, handlerVars, shipperVars
  <2>4. LossIsCounted'
    BY <1>2 DEF OpenFails, LossIsCounted, TypeOK, ClosedInOrder, loggerVars, handlerVars, shipperVars
  <2> QED
    BY <2>1, <2>2, <2>3, <2>4 DEF Invariant
<1>3. CASE AttachSinks
  <2>1. TypeOK'
    BY <1>3 DEF AttachSinks, TypeOK, loggerVars, handlerVars, shipperVars
  <2>2. HandlerHoldsLock'
    BY <1>3 DEF AttachSinks, HandlerHoldsLock, TypeOK, loggerVars, handlerVars, shipperVars
  <2>3. ClosedInOrder'
    BY <1>3 DEF AttachSinks, ClosedInOrder, TypeOK, loggerVars, handlerVars, shipperVars
  <2>4. LossIsCounted'
    BY <1>3 DEF AttachSinks, LossIsCounted, TypeOK, ClosedInOrder, loggerVars, handlerVars, shipperVars
  <2> QED
    BY <2>1, <2>2, <2>3, <2>4 DEF Invariant
<1>4. CASE CloseDetach
  <2>1. TypeOK'
    BY <1>4 DEF CloseDetach, TypeOK, loggerVars, handlerVars, shipperVars
  <2>2. HandlerHoldsLock'
    BY <1>4, NoHandler DEF CloseDetach, HandlerHoldsLock, TypeOK, loggerVars, handlerVars, shipperVars
  <2>3. ClosedInOrder'
    BY <1>4 DEF CloseDetach, ClosedInOrder, TypeOK, loggerVars, handlerVars, shipperVars
  <2>4. LossIsCounted'
    BY <1>4 DEF CloseDetach, LossIsCounted, TypeOK, ClosedInOrder, loggerVars, handlerVars, shipperVars
  <2> QED
    BY <2>1, <2>2, <2>3, <2>4 DEF Invariant
<1>5. CASE CloseSink
  <2>1. TypeOK'
    <3>1. closed' \in [Sinks -> BOOLEAN]
      <4>1. ASSUME NEW s \in Sinks PROVE closed'[s] \in BOOLEAN
        BY <1>5 DEF CloseSink, TypeOK
      <4> QED
        BY <1>5, <4>1 DEF CloseSink, TypeOK
    <3> QED
      BY <1>5, <3>1 DEF CloseSink, TypeOK, loggerVars, handlerVars, shipperVars
  <2>2. HandlerHoldsLock'
    BY <1>5 DEF CloseSink, HandlerHoldsLock, TypeOK, loggerVars, handlerVars, shipperVars
  <2>3. ClosedInOrder'
    BY <1>5 DEF CloseSink, ClosedInOrder, TypeOK, loggerVars, handlerVars, shipperVars
  <2>4. LossIsCounted'
    BY <1>5 DEF CloseSink, LossIsCounted, TypeOK, ClosedInOrder, loggerVars, handlerVars, shipperVars
  <2> QED
    BY <2>1, <2>2, <2>3, <2>4 DEF Invariant
<1>6. CASE CloseWait
  <2>1. TypeOK'
    <3>1. cursor' \in 1 .. NumSinks + 1
      BY <1>6, SinkNumbers DEF CloseWait, TypeOK
    <3> QED
      BY <1>6, <3>1 DEF CloseWait, TypeOK, handlerVars, shipperVars
  <2>2. HandlerHoldsLock'
    BY <1>6 DEF CloseWait, HandlerHoldsLock, TypeOK, loggerVars, handlerVars, shipperVars
  <2>3. ClosedInOrder'
    <3>1. ASSUME NEW s \in Sinks, s < cursor'
          PROVE  closed[s] /\ (s \in Remote => rpc[s] = "exited")
      <4>1. s < cursor \/ s = cursor
        BY <1>6, <3>1, SinkNumbers DEF CloseWait, TypeOK
      <4>2. CASE s < cursor
        BY <4>2 DEF ClosedInOrder
      <4>3. CASE s = cursor
        BY <1>6, <4>3 DEF CloseWait
      <4> QED
        BY <4>1, <4>2, <4>3
    <3> QED
      BY <1>6, <3>1 DEF CloseWait, ClosedInOrder, TypeOK, shipperVars
  <2>4. LossIsCounted'
    BY <1>6 DEF CloseWait, LossIsCounted, TypeOK, ClosedInOrder, loggerVars, handlerVars, shipperVars
  <2> QED
    BY <2>1, <2>2, <2>3, <2>4 DEF Invariant
<1>7. CASE CloseReturn
  <2>1. TypeOK'
    BY <1>7 DEF CloseReturn, TypeOK, loggerVars, handlerVars, shipperVars
  <2>2. HandlerHoldsLock'
    BY <1>7 DEF CloseReturn, HandlerHoldsLock, TypeOK, loggerVars, handlerVars, shipperVars
  <2>3. ClosedInOrder'
    BY <1>7 DEF CloseReturn, ClosedInOrder, TypeOK, loggerVars, handlerVars, shipperVars
  <2>4. LossIsCounted'
    BY <1>7 DEF CloseReturn, LossIsCounted, TypeOK, ClosedInOrder, loggerVars, handlerVars, shipperVars
  <2> QED
    BY <2>1, <2>2, <2>3, <2>4 DEF Invariant
<1> QED
  BY <1>1, <1>2, <1>3, <1>4, <1>5, <1>6, <1>7

\* The steps of a handler.
LEMMA HandlerStep ==
  ASSUME TypeOK, HandlerHoldsLock, ClosedInOrder, LossIsCounted,
         NEW e \in Events, (Write(e) \/ EmitToFile(e) \/ EmitLoad(e) \/ EmitSend(e) \/ Unlock(e))
  PROVE  Invariant'
<1>1. CASE Write(e)
  <2>1. TypeOK'
    <3>1. local' \in Seq(Events)
      BY <1>1, Appended DEF Write, TypeOK
    <3>2. pc' \in [Events -> {"ready", "emit", "send", "done"}]
      BY <1>1 DEF Write, TypeOK
    <3>3. at' \in [Events -> 1 .. NumSinks + 1]
      <4>1. (IF attached THEN 1 ELSE NumSinks + 1) \in 1 .. NumSinks + 1
        BY SinkNumbers
      <4>2. at \in [Events -> 1 .. NumSinks + 1]
        BY DEF TypeOK
      <4> QED
        BY <1>1, <4>1, <4>2 DEF Write
    <3>4. mu' \in Events \cup {Nobody}
      BY <1>1 DEF Write, TypeOK
    <3> QED
      BY <1>1, <3>1, <3>2, <3>3, <3>4 DEF Write, TypeOK, loggerVars, shipperVars
  <2>2. HandlerHoldsLock'
    <3>1. ASSUME NEW d \in Events
          PROVE  /\ pc'[d] \in {"emit", "send"} => mu' = d
                 /\ pc'[d] = "send" => at'[d] \in Remote
                 /\ pc'[d] \in {"emit", "send"} /\ at'[d] <= NumSinks => phase' = "running"
      <4>1. CASE d # e
        <5>1. pc'[d] = pc[d] /\ at'[d] = at[d] /\ phase' = phase
          BY <1>1, <4>1 DEF Write, TypeOK, loggerVars
        <5>2. pc[d] \notin {"emit", "send"}
          BY <1>1, NoHandler DEF HandlerHoldsLock, Write
        <5> QED
          BY <5>1, <5>2
      <4>2. CASE d = e
        <5>1. CASE pc' = [pc EXCEPT ![e] = "done"]
          BY <4>2, <5>1 DEF TypeOK
        <5>2. CASE /\ mu' = e
                   /\ pc' = [pc EXCEPT ![e] = "emit"]
                   /\ at' = [at EXCEPT ![e] = IF attached THEN 1 ELSE NumSinks + 1]
          <6>1. pc'[d] = "emit" /\ mu' = d
            BY <4>2, <5>2 DEF TypeOK
          <6>2. at'[d] = IF attached THEN 1 ELSE NumSinks + 1
            BY <4>2, <5>2 DEF TypeOK
          <6>3. attached => phase' = "running"
            BY <1>1 DEF Write, ClosedInOrder, loggerVars
          <6> QED
            BY <6>1, <6>2, <6>3, SinkNumbers
        <5> QED
          BY <1>1, <5>1, <5>2 DEF Write
      <4> QED
        BY <4>1, <4>2
    <3> QED
      BY <3>1 DEF HandlerHoldsLock
  <2>3. ClosedInOrder'
    BY <1>1 DEF Write, ClosedInOrder, TypeOK, loggerVars, shipperVars
  <2>4. LossIsCounted'
    BY <1>1 DEF Write, LossIsCounted, TypeOK, ClosedInOrder, loggerVars, shipperVars
  <2> QED
    BY <2>1, <2>2, <2>3, <2>4 DEF Invariant
<1>2. CASE EmitToFile(e)
  <2>1. TypeOK'
    <3>1. at[e] \in Sinks
      BY <1>2, SinkKinds DEF EmitToFile
    <3>2. at' \in [Events -> 1 .. NumSinks + 1]
      <4>1. at[e] + 1 \in 1 .. NumSinks + 1
        BY <3>1, NextSink, SinkKinds
      <4>2. at \in [Events -> 1 .. NumSinks + 1]
        BY DEF TypeOK
      <4> QED
        BY <1>2, <4>1, <4>2 DEF EmitToFile
    <3>3. offered' \in [Sinks -> Nat]
      <4>1. offered \in [Sinks -> Nat] /\ offered[at[e]] + 1 \in Nat
        BY <3>1 DEF TypeOK
      <4>2. offered' = [offered EXCEPT ![at[e]] = offered[at[e]] + 1]
        BY <1>2 DEF EmitToFile
      <4> QED
        BY <4>1, <4>2
    <3>4. acked' \in [Sinks -> Seq(Events)]
      <4>1. acked \in [Sinks -> Seq(Events)] /\ Append(acked[at[e]], e) \in Seq(Events)
        BY <3>1, Appended DEF TypeOK
      <4> QED
        BY <1>2, <4>1 DEF EmitToFile
    <3>5. copies' \in [Sinks -> [Events -> Nat]]
      <4>1. copies \in [Sinks -> [Events -> Nat]] /\ copies[at[e]][e] + 1 \in Nat
        BY <3>1 DEF TypeOK
      <4>2. \/ copies' = copies
            \/ copies' = [copies EXCEPT ![at[e]] = [copies[at[e]] EXCEPT ![e] = copies[at[e]][e] + 1]]
        BY <1>2, <4>1 DEF EmitToFile
      <4>3. [copies[at[e]] EXCEPT ![e] = copies[at[e]][e] + 1] \in [Events -> Nat]
        BY <3>1, <4>1
      <4> QED
        BY <4>1, <4>2, <4>3
    <3> QED
      BY <1>2, <3>2, <3>3, <3>4, <3>5 DEF EmitToFile, TypeOK, loggerVars
  <2>2. HandlerHoldsLock'
    <3>1. pc' = pc /\ mu' = mu /\ phase' = phase /\ \A d \in Events : d # e => at'[d] = at[d]
      BY <1>2 DEF EmitToFile, loggerVars, TypeOK
    <3>2. pc[e] = "emit" /\ at[e] \in Sinks
      BY <1>2, SinkKinds DEF EmitToFile
    <3>3. phase = "running"
      BY <3>2, SinkNumbers DEF HandlerHoldsLock
    <3> QED
      BY <3>1, <3>2, <3>3 DEF HandlerHoldsLock
  <2>3. ClosedInOrder'
    BY <1>2 DEF EmitToFile, ClosedInOrder, TypeOK, HandlerHoldsLock, loggerVars, shipperVars
  <2>4. LossIsCounted'
    <3>1. at[e] \notin Remote /\ at[e] \in Sinks
      BY <1>2, SinkKinds DEF EmitToFile, Remote
    <3>2. ASSUME NEW s \in Remote
          PROVE  offered'[s] = offered[s] /\ acked'[s] = acked[s]
      BY <1>2, <3>1, <3>2, SinkKinds DEF EmitToFile, TypeOK
    <3> QED
      BY <1>2, <3>2 DEF EmitToFile, LossIsCounted
  <2> QED
    BY <2>1, <2>2, <2>3, <2>4 DEF Invariant
<1>3. CASE EmitLoad(e)
  <2>1. TypeOK'
    <3>1. at[e] \in Sinks
      BY <1>3, SinkKinds DEF EmitLoad
    <3>2. at' \in [Events -> 1 .. NumSinks + 1]
      <4>1. at[e] + 1 \in 1 .. NumSinks + 1
        BY <3>1, NextSink, SinkKinds
      <4>2. at \in [Events -> 1 .. NumSinks + 1]
        BY DEF TypeOK
      <4> QED
        BY <1>3, <4>1, <4>2 DEF EmitLoad
    <3>3. offered' \in [Sinks -> Nat] /\ dropped' \in [Sinks -> Nat]
      <4>1. offered \in [Sinks -> Nat] /\ dropped \in [Sinks -> Nat]
        BY DEF TypeOK
      <4>2. offered[at[e]] + 1 \in Nat /\ dropped[at[e]] + 1 \in Nat
        BY <3>1, <4>1
      <4> QED
        BY <1>3, <4>1, <4>2 DEF EmitLoad
    <3>4. pc' \in [Events -> {"ready", "emit", "send", "done"}]
      BY <1>3 DEF EmitLoad, TypeOK
    <3> QED
      BY <1>3, <3>2, <3>3, <3>4 DEF EmitLoad, TypeOK, loggerVars, shipperVars
  <2>2. HandlerHoldsLock'
    BY <1>3, SinkKinds, SinkNumbers DEF EmitLoad, HandlerHoldsLock, TypeOK, loggerVars, shipperVars
  <2>3. ClosedInOrder'
    BY <1>3 DEF EmitLoad, ClosedInOrder, TypeOK, HandlerHoldsLock, loggerVars, shipperVars
  <2>4. LossIsCounted'
    <3>1. ASSUME NEW s \in Remote
          PROVE  /\ offered'[s] = Len(acked'[s]) + dropped'[s] + Len(queue'[s]) + Len(batch'[s])
                 /\ rpc'[s] = "exited" => queue'[s] = << >> /\ batch'[s] = << >>
      <4>1. /\ offered[s] = Len(acked[s]) + dropped[s] + Len(queue[s]) + Len(batch[s])
            /\ rpc[s] = "exited" => queue[s] = << >> /\ batch[s] = << >>
        BY DEF LossIsCounted
      <4>2. /\ acked'[s] = acked[s] /\ batch'[s] = batch[s] /\ rpc'[s] = rpc[s]
            /\ queue'[s] = queue[s]
        BY <1>3 DEF EmitLoad, shipperVars
      <4>3. /\ offered \in [Sinks -> Nat] /\ dropped \in [Sinks -> Nat]
            /\ acked \in [Sinks -> Seq(Events)] /\ queue \in [Sinks -> Seq(Events)]
            /\ batch \in [Sinks -> Seq(Events)] /\ s \in Sinks
        BY SinkKinds DEF TypeOK
      <4>4. \/ offered'[s] = offered[s] /\ dropped'[s] = dropped[s]
            \/ offered'[s] = offered[s] + 1 /\ dropped'[s] = dropped[s] + 1
        <5>1. at[e] \in Sinks /\ s \in Sinks
          BY <1>3, SinkKinds DEF EmitLoad
        <5>2. CASE closed[at[e]] /\ s = at[e]
          BY <1>3, <5>1, <5>2 DEF EmitLoad, TypeOK
        <5>3. CASE closed[at[e]] /\ s # at[e]
          BY <1>3, <5>1, <5>3 DEF EmitLoad, TypeOK
        <5>4. CASE ~ closed[at[e]]
          BY <1>3, <5>4 DEF EmitLoad
        <5> QED
          BY <5>2, <5>3, <5>4
      <4>5. offered'[s] = Len(acked'[s]) + dropped'[s] + Len(queue'[s]) + Len(batch'[s])
        <5>1. offered[s] + 1 = Len(acked[s]) + (dropped[s] + 1) + Len(queue[s]) + Len(batch[s])
          BY <4>1, <4>3
        <5> QED
          BY <4>1, <4>2, <4>4, <5>1, Zenon
      <4> QED
        BY <4>1, <4>2, <4>5
    <3> QED
      BY <3>1 DEF LossIsCounted
  <2> QED
    BY <2>1, <2>2, <2>3, <2>4 DEF Invariant
<1>4. CASE EmitSend(e)
  <2>1. TypeOK'
    <3>1. at[e] \in Remote
      BY <1>4 DEF EmitSend, HandlerHoldsLock
    <3>2. at' \in [Events -> 1 .. NumSinks + 1]
      <4>1. at[e] + 1 \in 1 .. NumSinks + 1
        BY <3>1, NextSink, SinkKinds
      <4>2. at \in [Events -> 1 .. NumSinks + 1]
        BY DEF TypeOK
      <4> QED
        BY <1>4, <4>1, <4>2 DEF EmitSend
    <3>3. offered' \in [Sinks -> Nat] /\ dropped' \in [Sinks -> Nat]
      <4>1. offered \in [Sinks -> Nat] /\ dropped \in [Sinks -> Nat] /\ at[e] \in Sinks
        BY <3>1, SinkKinds DEF TypeOK
      <4>2. /\ offered[at[e]] + 1 \in Nat
            /\ (IF Len(queue[at[e]]) < QueueSize THEN dropped[at[e]] ELSE dropped[at[e]] + 1) \in Nat
        BY <4>1
      <4> QED
        BY <1>4, <4>1, <4>2 DEF EmitSend
    <3>4. pc' \in [Events -> {"ready", "emit", "send", "done"}]
      BY <1>4 DEF EmitSend, TypeOK
    <3>5. queue' \in [Sinks -> Seq(Events)]
      BY <1>4, <3>1, Appended DEF EmitSend, TypeOK
    <3>6. ASSUME NEW s \in Sinks PROVE Len(queue'[s]) <= QueueSize
      <4>1. CASE s = at[e] /\ Len(queue[s]) < QueueSize
        <5>1. queue'[s] = Append(queue[s], e)
          BY <1>4, <4>1 DEF EmitSend, TypeOK
        <5> QED
          BY <4>1, <5>1, Appended, PipelineConstants DEF TypeOK
      <4>2. CASE ~ (s = at[e] /\ Len(queue[s]) < QueueSize)
        <5>1. queue'[s] = queue[s]
          BY <1>4, <4>2 DEF EmitSend, TypeOK
        <5> QED
          BY <5>1 DEF TypeOK
      <4> QED
        BY <4>1, <4>2
    <3> QED
      BY <1>4, <3>2, <3>3, <3>4, <3>5, <3>6 DEF EmitSend, TypeOK, loggerVars, shipperVars
  <2>2. HandlerHoldsLock'
    BY <1>4, SinkNumbers DEF EmitSend, HandlerHoldsLock, TypeOK, loggerVars, shipperVars
  <2>3. ClosedInOrder'
    <3>1. at[e] \in Remote /\ at[e] \in Sinks /\ at[e] <= NumSinks
      BY <1>4, SinkKinds, SinkNumbers DEF EmitSend, HandlerHoldsLock
    <3>2. rpc[at[e]] \notin {"last", "exited"}
      BY <1>4, <3>1 DEF EmitSend, HandlerHoldsLock, ClosedInOrder
    <3>3. \A s \in Sinks : s # at[e] => queue'[s] = queue[s]
      BY <1>4 DEF EmitSend, TypeOK
    <3> QED
      BY <1>4, <3>2, <3>3 DEF EmitSend, ClosedInOrder, loggerVars, shipperVars
  <2>4. LossIsCounted'
    <3>1. at[e] \in Remote /\ ~ closed[at[e]] /\ rpc[at[e]] # "exited"
      BY <1>4, SinkNumbers DEF EmitSend, HandlerHoldsLock, ClosedInOrder, TypeOK
    <3>2. ASSUME NEW s \in Remote
          PROVE  /\ offered'[s] = Len(acked'[s]) + dropped'[s] + Len(queue'[s]) + Len(batch'[s])
                 /\ rpc'[s] = "exited" => queue'[s] = << >> /\ batch'[s] = << >>
      <4>5. offered[s] = Len(acked[s]) + dropped[s] + Len(queue[s]) + Len(batch[s])
        BY DEF LossIsCounted
      <4>0. /\ rpc[s] = "exited" => queue[s] = << >> /\ batch[s] = << >>
            /\ acked'[s] = acked[s] /\ batch'[s] = batch[s] /\ rpc'[s] = rpc[s]
        BY <1>4 DEF LossIsCounted, EmitSend, shipperVars
      <4>1. /\ offered \in [Sinks -> Nat] /\ dropped \in [Sinks -> Nat]
            /\ acked \in [Sinks -> Seq(Events)] /\ queue \in [Sinks -> Seq(Events)]
            /\ batch \in [Sinks -> Seq(Events)] /\ s \in Sinks
        BY SinkKinds DEF TypeOK
      <4>2. CASE s # at[e]
        <5>1. queue'[s] = queue[s] /\ dropped'[s] = dropped[s] /\ offered'[s] = offered[s]
          BY <1>4, <3>1, <4>2 DEF EmitSend, TypeOK
        <5> QED
          BY <4>0, <4>5, <5>1
      <4>3. CASE s = at[e] /\ Len(queue[s]) < QueueSize
        <5>1. /\ queue'[s] = Append(queue[s], e) /\ dropped'[s] = dropped[s]
              /\ offered'[s] = offered[s] + 1
          BY <1>4, <4>3, SinkKinds DEF EmitSend, TypeOK
        <5>2. Len(queue'[s]) = Len(queue[s]) + 1
          BY <5>1, Appended DEF TypeOK
        <5>3. offered[s] + 1 = Len(acked[s]) + dropped[s] + (Len(queue[s]) + 1) + Len(batch[s])
          <6> DEFINE a == Len(acked[s])
                     d == dropped[s]
                     q == Len(queue[s])
                     b == Len(batch[s])
          <6>1. a \in Nat /\ d \in Nat /\ q \in Nat /\ b \in Nat
            BY <4>1
          <6>2. (a + d + q + b) + 1 = a + d + (q + 1) + b
            <7> HIDE DEF a, d, q, b
            <7> QED
              BY <6>1
          <6> QED
            BY <4>5, <6>2, Zenon
        <5> QED
          BY <3>1, <4>0, <4>3, <5>1, <5>2, <5>3, Zenon
      <4>4. CASE s = at[e] /\ ~ (Len(queue[s]) < QueueSize)
        <5>1. /\ queue'[s] = queue[s] /\ dropped'[s] = dropped[s] + 1
              /\ offered'[s] = offered[s] + 1
          BY <1>4, <4>4, SinkKinds DEF EmitSend, TypeOK
        <5>2. offered[s] + 1 = Len(acked[s]) + (dropped[s] + 1) + Len(queue[s]) + Len(batch[s])
          BY <4>1, <4>5
        <5> QED
          BY <4>0, <5>1, <5>2, Zenon
      <4> QED
        BY <4>2, <4>3, <4>4
    <3> QED
      BY <3>2 DEF LossIsCounted
  <2> QED
    BY <2>1, <2>2, <2>3, <2>4 DEF Invariant
<1>5. CASE Unlock(e)
  <2>1. TypeOK'
    BY <1>5 DEF Unlock, TypeOK, loggerVars, shipperVars
  <2>2. HandlerHoldsLock'
    BY <1>5 DEF Unlock, HandlerHoldsLock, TypeOK, loggerVars, shipperVars
  <2>3. ClosedInOrder'
    BY <1>5 DEF Unlock, ClosedInOrder, TypeOK, loggerVars, shipperVars
  <2>4. LossIsCounted'
    BY <1>5 DEF Unlock, LossIsCounted, TypeOK, ClosedInOrder, loggerVars, shipperVars
  <2> QED
    BY <2>1, <2>2, <2>3, <2>4 DEF Invariant
<1> QED
  BY <1>1, <1>2, <1>3, <1>4, <1>5

\* A step of shipper s keeps the invariant if it keeps the types, works on s
\* alone and keeps what the invariant says of s.
LEMMA ShipperFrame ==
  ASSUME TypeOK, HandlerHoldsLock, ClosedInOrder, LossIsCounted, NEW s \in Remote,
         TypeOK', UNCHANGED <<loggerVars, handlerVars, closed, offered>>,
         \A t \in Sinks : t # s => /\ queue'[t] = queue[t] /\ dropped'[t] = dropped[t]
                                   /\ rpc'[t] = rpc[t] /\ batch'[t] = batch[t]
                                   /\ acked'[t] = acked[t],
         rpc'[s] \in {"drain", "last", "exited"} => closed[s],
         rpc'[s] \in {"last", "exited"} => queue'[s] = << >>,
         rpc'[s] = "exited" => batch'[s] = << >>,
         rpc[s] # "exited",
         offered[s] = Len(acked'[s]) + dropped'[s] + Len(queue'[s]) + Len(batch'[s])
  PROVE  Invariant'
<1>1. HandlerHoldsLock'
  BY DEF HandlerHoldsLock, loggerVars, handlerVars
<1>2. ClosedInOrder'
  <2>1. s \in Sinks
    BY SinkKinds
  <2>2. /\ \A t \in Sinks : closed'[t] => phase' \in {"closing", "closed"}
        /\ attached' => phase' = "running"
        /\ phase' = "opening" => cursor' = 1
        /\ phase' = "closed" => cursor' > opened'
    BY DEF ClosedInOrder, loggerVars
  <2>3. \A t \in Sinks : /\ rpc'[t] \in {"drain", "last", "exited"} => closed'[t]
                         /\ rpc'[t] \in {"last", "exited"} => queue'[t] = << >>
                         /\ rpc'[t] = "exited" => batch'[t] = << >>
    BY DEF ClosedInOrder
  <2>4. ASSUME NEW t \in Sinks, t < cursor'
        PROVE  closed'[t] /\ (t \in Remote => rpc'[t] = "exited")
    <3>1. t < cursor
      BY <2>4 DEF loggerVars
    <3>2. closed[t] /\ (t \in Remote => rpc[t] = "exited")
      BY <3>1 DEF ClosedInOrder
    <3>3. t # s
      BY <3>2
    <3> QED
      BY <3>2, <3>3
  <2> QED
    BY <2>2, <2>3, <2>4 DEF ClosedInOrder
<1>3. LossIsCounted'
  <2>1. ASSUME NEW t \in Remote
        PROVE  /\ offered'[t] = Len(acked'[t]) + dropped'[t] + Len(queue'[t]) + Len(batch'[t])
               /\ rpc'[t] = "exited" => queue'[t] = << >> /\ batch'[t] = << >>
    <3>1. CASE t = s
      BY <3>1
    <3>2. CASE t # s
      <4>1. /\ queue'[t] = queue[t] /\ dropped'[t] = dropped[t]
            /\ rpc'[t] = rpc[t] /\ batch'[t] = batch[t] /\ acked'[t] = acked[t]
        BY <3>2, SinkKinds
      <4> QED
        BY <4>1 DEF LossIsCounted
    <3> QED
      BY <3>1, <3>2
  <2> QED
    BY <2>1 DEF LossIsCounted
<1> QED
  BY <1>1, <1>2, <1>3 DEF Invariant

\* The steps of the goroutine of a shipper.
LEMMA ShipperStep ==
  ASSUME TypeOK, HandlerHoldsLock, ClosedInOrder, LossIsCounted, NEW s \in Remote, Shipper(s)
  PROVE  Invariant'
<1>0. /\ s \in Sinks
      /\ offered \in [Sinks -> Nat] /\ dropped \in [Sinks -> Nat]
      /\ acked \in [Sinks -> Seq(Events)] /\ queue \in [Sinks -> Seq(Events)]
      /\ batch \in [Sinks -> Seq(Events)] /\ batchBytes \in [Sinks -> Nat]
      /\ rpc \in [Sinks -> {"off", "select", "deliver", "drain", "last", "exited"}]
      /\ attempt \in [Sinks -> 0 .. SendAttempts - 1]
      /\ copies \in [Sinks -> [Events -> Nat]]
      /\ Len(queue[s]) <= QueueSize /\ QueueSize \in Nat
  BY SinkKinds, PipelineConstants DEF TypeOK
<1>a. offered[s] = Len(acked[s]) + dropped[s] + Len(queue[s]) + Len(batch[s])
  BY DEF LossIsCounted
<1>b. /\ rpc[s] \in {"drain", "last", "exited"} => closed[s]
      /\ rpc[s] \in {"last", "exited"} => queue[s] = << >>
  BY <1>0 DEF ClosedInOrder
<1>1. CASE Take(s)
  <2>1. /\ queue[s] # << >> /\ rpc[s] = "select"
        /\ Head(queue[s]) \in Events /\ Tail(queue[s]) \in Seq(Events)
        /\ Len(Tail(queue[s])) = Len(queue[s]) - 1
    BY <1>0, <1>1, Split DEF Take
  <2>2. /\ Append(batch[s], Head(queue[s])) \in Seq(Events)
        /\ Len(Append(batch[s], Head(queue[s]))) = Len(batch[s]) + 1
    BY <1>0, <2>1, Appended
  <2>3. batchBytes[s] + EventBytes[Head(queue[s])] \in Nat
    BY <1>0, <2>1, PipelineConstants
  <2>4. /\ queue' \in [Sinks -> Seq(Events)] /\ queue'[s] = Tail(queue[s])
        /\ batch' \in [Sinks -> Seq(Events)] /\ batch'[s] = Append(batch[s], Head(queue[s]))
    BY <1>0, <1>1, <2>1, <2>2 DEF Take
  <2>5. batchBytes' \in [Sinks -> Nat]
    BY <1>0, <1>1, <2>3 DEF Take
  <2>6. /\ rpc' \in [Sinks -> {"off", "select", "deliver", "drain", "last", "exited"}]
        /\ rpc'[s] \in {"select", "deliver"}
    BY <1>0, <1>1 DEF Take
  <2>7. \A t \in Sinks : t # s => /\ queue'[t] = queue[t] /\ rpc'[t] = rpc[t]
                                  /\ batch'[t] = batch[t]
    BY <1>0, <1>1 DEF Take
  <2>8. \A t \in Sinks : Len(queue'[t]) <= QueueSize
    <3>1. Len(queue'[s]) <= QueueSize
      BY <1>0, <2>1, <2>4
    <3> QED
      BY <2>7, <3>1 DEF TypeOK
  <2>9. TypeOK'
    BY <1>1, <2>4, <2>5, <2>6, <2>8 DEF Take, TypeOK, loggerVars, handlerVars
  <2>10. offered[s] = Len(acked[s]) + dropped[s] + (Len(queue[s]) - 1) + (Len(batch[s]) + 1)
    <3> DEFINE a == Len(acked[s])
               d == dropped[s]
               q == Len(queue[s])
               b == Len(batch[s])
    <3>1. a \in Nat /\ d \in Nat /\ q \in Nat /\ b \in Nat
      BY <1>0
    <3>2. a + d + q + b = a + d + (q - 1) + (b + 1)
      <4> HIDE DEF a, d, q, b
      <4> QED
        BY <3>1
    <3> QED
      BY <1>a, <3>2, Zenon
  <2>11. offered[s] = Len(acked'[s]) + dropped'[s] + Len(queue'[s]) + Len(batch'[s])
    BY <1>1, <2>1, <2>2, <2>4, <2>10 DEF Take
  <2>12. UNCHANGED <<loggerVars, handlerVars, closed, offered, dropped, acked>>
    BY <1>1 DEF Take
  <2> QED
    BY <2>1, <2>6, <2>7, <2>9, <2>11, <2>12, ShipperFrame
<1>2. CASE Tick(s)
  <2>1. /\ rpc' \in [Sinks -> {"off", "select", "deliver", "drain", "last", "exited"}]
        /\ rpc'[s] = "deliver" /\ rpc[s] = "select"
        /\ \A t \in Sinks : t # s => rpc'[t] = rpc[t]
    BY <1>0, <1>2 DEF Tick
  <2>2. UNCHANGED <<loggerVars, handlerVars, queue, closed, dropped, batch, offered, acked>>
    BY <1>2 DEF Tick
  <2>3. TypeOK'
    BY <1>2, <2>1 DEF Tick, TypeOK, loggerVars, handlerVars
  <2> QED
    BY <1>a, <2>1, <2>2, <2>3, ShipperFrame
<1>3. CASE DrainStart(s)
  <2>1. /\ rpc' \in [Sinks -> {"off", "select", "deliver", "drain", "last", "exited"}]
        /\ rpc'[s] = "drain" /\ rpc[s] = "select" /\ closed[s]
        /\ \A t \in Sinks : t # s => rpc'[t] = rpc[t]
    BY <1>0, <1>3 DEF DrainStart
  <2>2. UNCHANGED <<loggerVars, handlerVars, queue, closed, dropped, batch, offered, acked>>
    BY <1>3 DEF DrainStart
  <2>3. TypeOK'
    BY <1>3, <2>1 DEF DrainStart, TypeOK, loggerVars, handlerVars
  <2> QED
    BY <1>a, <2>1, <2>2, <2>3, ShipperFrame
<1>4. CASE DrainTake(s)
  <2>1. /\ queue[s] # << >> /\ rpc[s] = "drain" /\ rpc' = rpc
        /\ Head(queue[s]) \in Events /\ Tail(queue[s]) \in Seq(Events)
        /\ Len(Tail(queue[s])) = Len(queue[s]) - 1
    BY <1>0, <1>4, Split DEF DrainTake
  <2>2. /\ Append(batch[s], Head(queue[s])) \in Seq(Events)
        /\ Len(Append(batch[s], Head(queue[s]))) = Len(batch[s]) + 1
    BY <1>0, <2>1, Appended
  <2>3. /\ queue' \in [Sinks -> Seq(Events)] /\ queue'[s] = Tail(queue[s])
        /\ batch' \in [Sinks -> Seq(Events)] /\ batch'[s] = Append(batch[s], Head(queue[s]))
    BY <1>0, <1>4, <2>1, <2>2 DEF DrainTake
  <2>4. \A t \in Sinks : t # s => queue'[t] = queue[t] /\ batch'[t] = batch[t]
    BY <1>0, <1>4 DEF DrainTake
  <2>5. \A t \in Sinks : Len(queue'[t]) <= QueueSize
    <3>1. Len(queue'[s]) <= QueueSize
      BY <1>0, <2>1, <2>3
    <3> QED
      BY <2>4, <3>1 DEF TypeOK
  <2>6. TypeOK'
    BY <1>4, <2>3, <2>5 DEF DrainTake, TypeOK, loggerVars, handlerVars
  <2>7. offered[s] = Len(acked[s]) + dropped[s] + (Len(queue[s]) - 1) + (Len(batch[s]) + 1)
    <3> DEFINE a == Len(acked[s])
               d == dropped[s]
               q == Len(queue[s])
               b == Len(batch[s])
    <3>1. a \in Nat /\ d \in Nat /\ q \in Nat /\ b \in Nat
      BY <1>0
    <3>2. a + d + q + b = a + d + (q - 1) + (b + 1)
      <4> HIDE DEF a, d, q, b
      <4> QED
        BY <3>1
    <3> QED
      BY <1>a, <3>2, Zenon
  <2>8. offered[s] = Len(acked'[s]) + dropped'[s] + Len(queue'[s]) + Len(batch'[s])
    BY <1>4, <2>1, <2>2, <2>3, <2>7 DEF DrainTake
  <2>9. UNCHANGED <<loggerVars, handlerVars, closed, offered, dropped, acked>>
    BY <1>4 DEF DrainTake
  <2> QED
    BY <1>b, <2>1, <2>4, <2>6, <2>8, <2>9, ShipperFrame
<1>5. CASE DrainEnd(s)
  <2>1. /\ rpc' \in [Sinks -> {"off", "select", "deliver", "drain", "last", "exited"}]
        /\ rpc[s] = "drain" /\ queue[s] = << >>
        /\ rpc'[s] = IF batch[s] = << >> THEN "exited" ELSE "last"
        /\ \A t \in Sinks : t # s => rpc'[t] = rpc[t]
    BY <1>0, <1>5 DEF DrainEnd
  <2>2. UNCHANGED <<loggerVars, handlerVars, queue, closed, dropped, batch, offered, acked>>
    BY <1>5 DEF DrainEnd
  <2>3. TypeOK'
    BY <1>5, <2>1 DEF DrainEnd, TypeOK, loggerVars, handlerVars
  <2>4. closed[s]
    BY <1>b, <2>1
  <2> QED
    BY <1>a, <2>1, <2>2, <2>3, <2>4, ShipperFrame
<1>6. ASSUME Delivering(s), Flushed(s)
      PROVE  /\ batch' \in [Sinks -> Seq(Events)] /\ batch'[s] = << >>
             /\ batchBytes' \in [Sinks -> Nat]
             /\ attempt' \in [Sinks -> 0 .. SendAttempts - 1]
             /\ rpc' \in [Sinks -> {"off", "select", "deliver", "drain", "last", "exited"}]
             /\ \A t \in Sinks : t # s => rpc'[t] = rpc[t] /\ batch'[t] = batch[t]
             /\ rpc[s] # "exited"
             /\ rpc'[s] \in {"drain", "last", "exited"} => closed[s] /\ queue[s] = << >>
  <2>1. 0 \in 0 .. SendAttempts - 1
    BY PipelineConstants
  <2>2. batch' \in [Sinks -> Seq(Events)] /\ batch'[s] = << >>
    BY <1>0, <1>6, Empty DEF Flushed
  <2>3. batchBytes' \in [Sinks -> Nat] /\ attempt' \in [Sinks -> 0 .. SendAttempts - 1]
    BY <1>0, <1>6, <2>1 DEF Flushed
  <2>4. /\ rpc' \in [Sinks -> {"off", "select", "deliver", "drain", "last", "exited"}]
        /\ \A t \in Sinks : t # s => rpc'[t] = rpc[t] /\ batch'[t] = batch[t]
        /\ rpc'[s] = IF rpc[s] = "last" THEN "exited" ELSE "select"
    BY <1>0, <1>6 DEF Flushed
  <2> QED
    BY <1>6, <1>b, <2>2, <2>3, <2>4 DEF Delivering
<1>7. ASSUME Taken(s)
      PROVE  copies' \in [Sinks -> [Events -> Nat]]
  <2>1. [e \in Events |-> IF \E i \in 1 .. Len(batch[s]) : batch[s][i] = e
                          THEN copies[s][e] + 1 ELSE copies[s][e]] \in [Events -> Nat]
    <3>1. \A e \in Events : copies[s][e] \in Nat /\ copies[s][e] + 1 \in Nat
      BY <1>0
    <3> QED
      BY <3>1
  <2> QED
    BY <1>0, <1>7, <2>1 DEF Taken
<1>8. CASE SendSucceeds(s)
  <2>1. Delivering(s) /\ Flushed(s) /\ Taken(s)
    BY <1>8 DEF SendSucceeds
  <2>2. /\ acked[s] \o batch[s] \in Seq(Events)
        /\ Len(acked[s] \o batch[s]) = Len(acked[s]) + Len(batch[s])
    BY <1>0, Joined
  <2>3. /\ acked' \in [Sinks -> Seq(Events)] /\ acked'[s] = acked[s] \o batch[s]
        /\ \A t \in Sinks : t # s => acked'[t] = acked[t]
    BY <1>0, <1>8, <2>2 DEF SendSucceeds
  <2>4. UNCHANGED <<loggerVars, handlerVars, queue, closed, dropped, offered>>
    BY <1>8 DEF SendSucceeds
  <2>5. TypeOK'
    BY <1>6, <1>7, <2>1, <2>3, <2>4 DEF TypeOK, loggerVars, handlerVars
  <2>6. offered[s] = (Len(acked[s]) + Len(batch[s])) + dropped[s] + Len(queue[s]) + 0
    BY <1>0, <1>a
  <2>7. Len(batch'[s]) = 0
    BY <1>6, <2>1, Empty
  <2>8. offered[s] = Len(acked'[s]) + dropped'[s] + Len(queue'[s]) + Len(batch'[s])
    BY <2>2, <2>3, <2>4, <2>6, <2>7
  <2> QED
    BY <1>6, <2>1, <2>3, <2>4, <2>5, <2>8, ShipperFrame
<1>9. CASE SendFails(s)
  <2>1. Delivering(s) /\ UNCHANGED <<loggerVars, handlerVars, queue, closed, offered, acked>>
    BY <1>9 DEF SendFails
  <2>2. copies' \in [Sinks -> [Events -> Nat]]
    BY <1>0, <1>7, <1>9 DEF SendFails
  <2>3. CASE /\ attempt[s] + 1 < SendAttempts
             /\ attempt' = [attempt EXCEPT ![s] = attempt[s] + 1]
             /\ UNCHANGED <<dropped, batch, batchBytes, rpc>>
    <3>1. attempt[s] + 1 \in 0 .. SendAttempts - 1
      BY <1>0, <2>3, PipelineConstants
    <3>2. attempt' \in [Sinks -> 0 .. SendAttempts - 1]
      BY <1>0, <2>3, <3>1
    <3>3. TypeOK'
      BY <2>1, <2>2, <2>3, <3>2 DEF TypeOK, loggerVars, handlerVars
    <3>4. rpc[s] # "exited" /\ (rpc[s] \in {"drain", "last", "exited"} => closed[s])
      BY <1>b, <2>1 DEF Delivering
    <3> QED
      BY <1>a, <1>b, <2>1, <2>3, <3>3, <3>4, ShipperFrame
  <2>4. CASE /\ dropped' = [dropped EXCEPT ![s] = dropped[s] + Len(batch[s])]
             /\ Flushed(s)
    <3>1. /\ dropped' \in [Sinks -> Nat] /\ dropped'[s] = dropped[s] + Len(batch[s])
          /\ \A t \in Sinks : t # s => dropped'[t] = dropped[t]
      BY <1>0, <2>4
    <3>2. TypeOK'
      BY <1>6, <2>1, <2>2, <2>4, <3>1 DEF TypeOK, loggerVars, handlerVars
    <3>3. offered[s] = Len(acked[s]) + (dropped[s] + Len(batch[s])) + Len(queue[s]) + 0
      BY <1>0, <1>a
    <3>4. Len(batch'[s]) = 0
      BY <1>6, <2>1, <2>4, Empty
    <3>5. offered[s] = Len(acked'[s]) + dropped'[s] + Len(queue'[s]) + Len(batch'[s])
      BY <2>1, <3>1, <3>3, <3>4
    <3> QED
      BY <1>6, <2>1, <2>4, <3>1, <3>2, <3>5, ShipperFrame
  <2> QED
    BY <1>9, <2>3, <2>4 DEF SendFails
<1> QED
  BY <1>1, <1>2, <1>3, <1>4, <1>5, <1>8, <1>9 DEF Shipper

----------------------------------------------------------------------------

\* Invariant is inductive.
THEOREM Inductive == Spec => []Invariant
<1>1. Invariant /\ [Next]_vars => Invariant'
  <2> SUFFICES ASSUME Invariant, [Next]_vars PROVE Invariant'
    OBVIOUS
  <2>0. TypeOK /\ HandlerHoldsLock /\ ClosedInOrder /\ LossIsCounted
    BY DEF Invariant
  <2>1. CASE OpenSink \/ OpenFails \/ AttachSinks \/ CloseDetach \/ Closer
    BY <2>0, <2>1, LoggerStep DEF Closer
  <2>2. ASSUME NEW e \in Events, Handler(e) PROVE Invariant'
    BY <2>0, <2>2, HandlerStep DEF Handler
  <2>3. ASSUME NEW s \in Remote, Shipper(s) PROVE Invariant'
    BY <2>0, <2>3, ShipperStep
  <2>4. CASE UNCHANGED vars
    BY <2>4, <2>0 DEF vars, Invariant, TypeOK, HandlerHoldsLock, ClosedInOrder, LossIsCounted
  <2> QED
    BY <2>1, <2>2, <2>3, <2>4 DEF Next, Finished
<1> QED
  BY <1>1, InitInvariant, PTL DEF Spec

\* The shape of the state, for every configuration.
THEOREM TypeCorrect == Spec => []TypeOK
<1>1. Invariant => TypeOK
  BY DEF Invariant
<1> QED
  BY <1>1, Inductive, PTL

\* Whatever the interleaving of handlers, shippers and Close, an event that a
\* remote sink was offered is waiting, acknowledged or counted as dropped.
THEOREM NoSilentLoss == Spec => []LossIsCounted
<1>1. Invariant => LossIsCounted
  BY DEF Invariant
<1> QED
  BY <1>1, Inductive, PTL

\* A start-up that fails half-way and Close leave no goroutine and no file
\* behind.
THEOREM AllReleased == Spec => []NothingLeftOpen
<1>1. Invariant => NothingLeftOpen
  <2> SUFFICES ASSUME Invariant, phase = "closed", NEW s \in 1 .. opened
               PROVE  closed[s] /\ (s \in Remote => rpc[s] = "exited")
    BY DEF NothingLeftOpen
  <2>1. s \in Sinks /\ s < cursor
    BY SinkNumbers DEF Invariant, TypeOK, ClosedInOrder
  <2> QED
    BY <2>1 DEF Invariant, ClosedInOrder
<1> QED
  BY <1>1, Inductive, PTL

----------------------------------------------------------------------------
(* The order of the streams. A handler keeps the lock from the local line  *)
(* to the end of its fan-out, so that the event it sends is the last of    *)
(* the local output; a shipper moves events on without overtaking.         *)

\* The event x is in the sequence q.
Has(q, x) == \E i \in 1 .. Len(q) : q[i] = x

\* The sequence l holds x and, further on, y.
Precedes(l, x, y) == \E m, n \in 1 .. Len(l) : m < n /\ l[m] = x /\ l[n] = y

\* The elements of q are in the order of l, each once.
Ordered(l, q) == \A i, j \in 1 .. Len(q) : i < j => Precedes(l, q[i], q[j])

\* Every event of p precedes every event of q in l.
Before(l, p, q) == \A x, y \in Events : Has(p, x) /\ Has(q, y) => Precedes(l, x, y)

\* The handler of e has not come to sink s yet.
Ahead(e, s) == pc[e] = "ready" \/ (pc[e] \in {"emit", "send"} /\ at[e] <= s)

\* An event is written locally once, and is the last line while it is fanned out.
LocalOnce ==
    /\ \A m, n \in 1 .. Len(local) : local[m] = local[n] => m = n
    /\ \A e \in Events : pc[e] = "ready" => ~ Has(local, e)
    /\ \A e \in Events : pc[e] \in {"emit", "send"} => Len(local) > 0 /\ local[Len(local)] = e
    /\ mu \in Events => pc[mu] \in {"emit", "send"}

\* What is acknowledged, what is in the batch and what is in the queue of a sink
\* follow each other in the order of the local output.
StreamInOrder(s) ==
    /\ Ordered(local, acked[s]) /\ Ordered(local, batch[s]) /\ Ordered(local, queue[s])
    /\ Before(local, acked[s], batch[s]) /\ Before(local, acked[s], queue[s])
    /\ Before(local, batch[s], queue[s])
    /\ \A e \in Events : Has(acked[s], e) \/ Has(batch[s], e) \/ Has(queue[s], e) =>
                             Has(local, e) /\ ~ Ahead(e, s)

\* What was never sent has no copy, what is being sent at most one per attempt.
CopiesBounded(s) ==
    \A e \in Events :
        /\ copies[s][e] <= SendAttempts
        /\ Ahead(e, s) \/ Has(queue[s], e) => copies[s][e] = 0
        /\ Has(batch[s], e) => copies[s][e] <= attempt[s]

\* The inductive invariant about the order and the copies, on top of Invariant.
Streams ==
    /\ LocalOnce
    /\ \A s \in Sinks : StreamInOrder(s)
    /\ \A s \in Remote : CopiesBounded(s)
    /\ \A s \in FileSinks : queue[s] = << >> /\ batch[s] = << >>

----------------------------------------------------------------------------
(* Sequences of events: membership and order under the operations used.    *)

\* Nothing is in the empty sequence, which is ordered.
LEMMA EmptyHas ==
  ASSUME NEW l
  PROVE  (\A x \in Events : ~ Has(<< >>, x)) /\ Ordered(l, << >>)
  BY DEF Has, Ordered

\* Append adds its element and no other.
LEMMA AppendHas ==
  ASSUME NEW q \in Seq(Events), NEW e \in Events
  PROVE  \A x \in Events : Has(Append(q, e), x) <=> Has(q, x) \/ x = e
<1>1. Len(Append(q, e)) = Len(q) + 1 /\ Len(q) \in Nat /\ Append(q, e)[Len(q) + 1] = e
  OBVIOUS
<1>2. \A i \in 1 .. Len(q) : Append(q, e)[i] = q[i]
  OBVIOUS
<1>3. ASSUME NEW x \in Events, Has(Append(q, e), x) PROVE Has(q, x) \/ x = e
  <2>1. PICK i \in 1 .. Len(q) + 1 : Append(q, e)[i] = x
    BY <1>1, <1>3 DEF Has
  <2> QED
    BY <1>1, <1>2, <2>1 DEF Has
<1>4. ASSUME NEW x \in Events, Has(q, x) \/ x = e PROVE Has(Append(q, e), x)
  BY <1>1, <1>2, <1>4 DEF Has
<1> QED
  BY <1>3, <1>4

\* A sequence that is not empty holds its head and what its tail holds.
LEMMA TailHas ==
  ASSUME NEW q \in Seq(Events), q # << >>
  PROVE  \A x \in Events : Has(q, x) <=> x = Head(q) \/ Has(Tail(q), x)
<1>1. Len(q) \in Nat /\ Len(q) >= 1 /\ Len(Tail(q)) = Len(q) - 1 /\ Head(q) = q[1]
  OBVIOUS
<1>2. \A i \in 1 .. Len(q) - 1 : Tail(q)[i] = q[i + 1]
  OBVIOUS
<1>3. ASSUME NEW x \in Events, Has(q, x) PROVE x = Head(q) \/ Has(Tail(q), x)
  <2>1. PICK i \in 1 .. Len(q) : q[i] = x
    BY <1>3 DEF Has
  <2>2. CASE i = 1
    BY <1>1, <2>1, <2>2
  <2>3. CASE i # 1
    <3>1. i - 1 \in 1 .. Len(Tail(q)) /\ Tail(q)[i - 1] = x
      BY <1>1, <1>2, <2>1, <2>3
    <3> QED
      BY <3>1 DEF Has
  <2> QED
    BY <2>2, <2>3
<1>4. ASSUME NEW x \in Events, x = Head(q) \/ Has(Tail(q), x) PROVE Has(q, x)
  <2>1. CASE x = Head(q)
    BY <1>1, <2>1 DEF Has
  <2>2. CASE Has(Tail(q), x)
    <3>1. PICK i \in 1 .. Len(Tail(q)) : Tail(q)[i] = x
      BY <2>2 DEF Has
    <3>2. i + 1 \in 1 .. Len(q) /\ q[i + 1] = x
      BY <1>1, <1>2, <3>1
    <3> QED
      BY <3>2 DEF Has
  <2> QED
    BY <1>4, <2>1, <2>2
<1> QED
  BY <1>3, <1>4

\* The join of two sequences holds what either holds.
LEMMA JoinHas ==
  ASSUME NEW p \in Seq(Events), NEW q \in Seq(Events)
  PROVE  \A x \in Events : Has(p \o q, x) <=> Has(p, x) \/ Has(q, x)
<1>1. Len(p) \in Nat /\ Len(q) \in Nat /\ Len(p \o q) = Len(p) + Len(q)
  OBVIOUS
<1>2. \A i \in 1 .. Len(p) : (p \o q)[i] = p[i]
  OBVIOUS
<1>3. \A i \in 1 .. Len(q) : (p \o q)[Len(p) + i] = q[i]
  OBVIOUS
<1>4. ASSUME NEW x \in Events, Has(p \o q, x) PROVE Has(p, x) \/ Has(q, x)
  <2>1. PICK i \in 1 .. Len(p) + Len(q) : (p \o q)[i] = x
    BY <1>1, <1>4 DEF Has
  <2>2. CASE i <= Len(p)
    BY <1>1, <1>2, <2>1, <2>2 DEF Has
  <2>3. CASE i > Len(p)
    <3>1. i - Len(p) \in 1 .. Len(q) /\ Len(p) + (i - Len(p)) = i
      BY <1>1, <2>3
    <3>2. q[i - Len(p)] = x
      BY <1>3, <2>1, <3>1
    <3> QED
      BY <3>1, <3>2 DEF Has
  <2> QED
    BY <1>1, <2>2, <2>3
<1>5. ASSUME NEW x \in Events, Has(p, x) PROVE Has(p \o q, x)
  BY <1>1, <1>2, <1>5 DEF Has
<1>6. ASSUME NEW x \in Events, Has(q, x) PROVE Has(p \o q, x)
  <2>1. PICK i \in 1 .. Len(q) : q[i] = x
    BY <1>6 DEF Has
  <2>2. Len(p) + i \in 1 .. Len(p \o q) /\ (p \o q)[Len(p) + i] = x
    BY <1>1, <1>3, <2>1
  <2> QED
    BY <2>2 DEF Has
<1> QED
  BY <1>4, <1>5, <1>6

\* Order is kept by an element that all others precede.
LEMMA AppendOrdered ==
  ASSUME NEW l, NEW q \in Seq(Events), NEW e \in Events, Ordered(l, q),
         \A x \in Events : Has(q, x) => Precedes(l, x, e)
  PROVE  Ordered(l, Append(q, e))
<1>1. Len(Append(q, e)) = Len(q) + 1 /\ Len(q) \in Nat /\ Append(q, e)[Len(q) + 1] = e
  OBVIOUS
<1>2. \A i \in 1 .. Len(q) : Append(q, e)[i] = q[i] /\ q[i] \in Events
  OBVIOUS
<1>3. ASSUME NEW i \in 1 .. Len(q) + 1, NEW j \in 1 .. Len(q) + 1, i < j
      PROVE  Precedes(l, Append(q, e)[i], Append(q, e)[j])
  <2>1. i \in 1 .. Len(q) /\ (j \in 1 .. Len(q) \/ j = Len(q) + 1)
    BY <1>1, <1>3
  <2>2. CASE j \in 1 .. Len(q)
    BY <1>2, <1>3, <2>1, <2>2 DEF Ordered
  <2>3. CASE j = Len(q) + 1
    <3>1. Has(q, q[i]) /\ q[i] \in Events
      BY <1>2, <2>1 DEF Has
    <3> QED
      BY <1>1, <1>2, <2>1, <2>3, <3>1
  <2> QED
    BY <2>1, <2>2, <2>3
<1> QED
  BY <1>1, <1>3 DEF Ordered

\* The tail of an ordered sequence is ordered and comes after the head.
LEMMA TailOrdered ==
  ASSUME NEW l, NEW q \in Seq(Events), q # << >>, Ordered(l, q)
  PROVE  Ordered(l, Tail(q)) /\ \A x \in Events : Has(Tail(q), x) => Precedes(l, Head(q), x)
<1>1. Len(q) \in Nat /\ Len(q) >= 1 /\ Len(Tail(q)) = Len(q) - 1 /\ Head(q) = q[1]
  OBVIOUS
<1>2. \A i \in 1 .. Len(q) - 1 : Tail(q)[i] = q[i + 1] /\ i + 1 \in 1 .. Len(q)
  OBVIOUS
<1>3. ASSUME NEW i \in 1 .. Len(Tail(q)), NEW j \in 1 .. Len(Tail(q)), i < j
      PROVE  Precedes(l, Tail(q)[i], Tail(q)[j])
  <2>1. i + 1 < j + 1 /\ i + 1 \in 1 .. Len(q) /\ j + 1 \in 1 .. Len(q)
    BY <1>1, <1>3
  <2>2. Precedes(l, q[i + 1], q[j + 1])
    BY <2>1 DEF Ordered
  <2> QED
    BY <1>1, <1>2, <2>2
<1>4. ASSUME NEW x \in Events, Has(Tail(q), x) PROVE Precedes(l, Head(q), x)
  <2>1. PICK i \in 1 .. Len(Tail(q)) : Tail(q)[i] = x
    BY <1>4 DEF Has
  <2>2. i + 1 \in 1 .. Len(q) /\ 1 \in 1 .. Len(q) /\ 1 < i + 1 /\ q[i + 1] = x
    BY <1>1, <1>2, <2>1
  <2> QED
    BY <1>1, <2>2 DEF Ordered
<1> QED
  BY <1>3, <1>4 DEF Ordered

\* The join of ordered sequences, one before the other, is ordered.
LEMMA JoinOrdered ==
  ASSUME NEW l, NEW p \in Seq(Events), NEW q \in Seq(Events),
         Ordered(l, p), Ordered(l, q), Before(l, p, q)
  PROVE  Ordered(l, p \o q)
<1>1. Len(p) \in Nat /\ Len(q) \in Nat /\ Len(p \o q) = Len(p) + Len(q)
  OBVIOUS
<1>2. \A i \in 1 .. Len(p) : (p \o q)[i] = p[i] /\ p[i] \in Events /\ Has(p, p[i])
  BY DEF Has
<1>3. \A i \in 1 .. Len(q) : (p \o q)[Len(p) + i] = q[i] /\ q[i] \in Events /\ Has(q, q[i])
  BY DEF Has
<1>4. ASSUME NEW i \in 1 .. Len(p) + Len(q), NEW j \in 1 .. Len(p) + Len(q), i < j
      PROVE  Precedes(l, (p \o q)[i], (p \o q)[j])
  <2>1. CASE j <= Len(p)
    <3>1. i \in 1 .. Len(p) /\ j \in 1 .. Len(p)
      BY <1>1, <1>4, <2>1
    <3> QED
      BY <1>2, <1>4, <3>1 DEF Ordered
  <2>2. CASE i > Len(p)
    <3> DEFINE a == i - Len(p)
               b == j - Len(p)
    <3>1. a \in 1 .. Len(q) /\ b \in 1 .. Len(q) /\ a < b /\ Len(p) + a = i /\ Len(p) + b = j
      BY <1>1, <1>4, <2>2
    <3> HIDE DEF a, b
    <3>2. Precedes(l, q[a], q[b])
      BY <3>1 DEF Ordered
    <3> QED
      BY <1>3, <3>1, <3>2
  <2>3. CASE i <= Len(p) /\ j > Len(p)
    <3> DEFINE b == j - Len(p)
    <3>1. i \in 1 .. Len(p) /\ b \in 1 .. Len(q) /\ Len(p) + b = j
      BY <1>1, <1>4, <2>3
    <3> HIDE DEF b
    <3>2. Precedes(l, p[i], q[b])
      BY <1>2, <1>3, <3>1 DEF Before
    <3> QED
      BY <1>2, <1>3, <3>1, <3>2
  <2> QED
    BY <1>1, <2>1, <2>2, <2>3
<1> QED
  BY <1>1, <1>4 DEF Ordered

\* The local output only grows: what precedes what stays so.
LEMMA PrecedesGrows ==
  ASSUME NEW l \in Seq(Events), NEW e \in Events
  PROVE  \A x, y : Precedes(l, x, y) => Precedes(Append(l, e), x, y)
<1>1. Len(Append(l, e)) = Len(l) + 1 /\ Len(l) \in Nat
  OBVIOUS
<1>2. \A i \in 1 .. Len(l) : Append(l, e)[i] = l[i] /\ i \in 1 .. Len(l) + 1
  OBVIOUS
<1> QED
  BY <1>1, <1>2 DEF Precedes

\* An event that is in l precedes a different one that is its last.
LEMMA LastPrecedes ==
  ASSUME NEW l \in Seq(Events), NEW x \in Events, NEW e \in Events,
         Has(l, x), x # e, Len(l) > 0, l[Len(l)] = e
  PROVE  Precedes(l, x, e)
<1>1. PICK m \in 1 .. Len(l) : l[m] = x
  BY DEF Has
<1>2. Len(l) \in Nat /\ m < Len(l) /\ Len(l) \in 1 .. Len(l)
  BY <1>1
<1> QED
  BY <1>1, <1>2 DEF Precedes

\* Nothing precedes itself in a sequence without repetition.
LEMMA NotItself ==
  ASSUME NEW l, NEW x, \A m, n \in 1 .. Len(l) : l[m] = l[n] => m = n
  PROVE  ~ Precedes(l, x, x)
  BY DEF Precedes

----------------------------------------------------------------------------
(* The order is inductive.                                                 *)

\* A step that does not touch sink t and brings no handler back before it.
LEMMA StreamKept ==
  ASSUME NEW t \in Sinks, StreamInOrder(t), local' = local,
         acked'[t] = acked[t], batch'[t] = batch[t], queue'[t] = queue[t],
         \A d \in Events : Ahead(d, t)' => Ahead(d, t)
  PROVE  StreamInOrder(t)'
  BY DEF StreamInOrder

\* The same for the copies its destination has.
LEMMA CopiesKept ==
  ASSUME NEW t \in Remote, CopiesBounded(t),
         copies'[t] = copies[t], batch'[t] = batch[t], queue'[t] = queue[t], attempt'[t] = attempt[t],
         \A d \in Events : Ahead(d, t)' => Ahead(d, t)
  PROVE  CopiesBounded(t)'
  BY DEF CopiesBounded

\* What moves neither events nor handlers keeps the order.
LEMMA StreamsKept ==
  ASSUME Streams, UNCHANGED <<handlerVars, queue, batch, attempt, acked, copies>>
  PROVE  Streams'
<1>1. \A t \in Sinks, d \in Events : Ahead(d, t)' => Ahead(d, t)
  BY DEF Ahead, handlerVars
<1>2. LocalOnce'
  BY DEF Streams, LocalOnce, handlerVars
<1>3. ASSUME NEW t \in Sinks PROVE StreamInOrder(t)'
  BY <1>1, StreamKept DEF Streams, handlerVars
<1>4. ASSUME NEW t \in Remote PROVE CopiesBounded(t)'
  BY <1>1, CopiesKept, SinkKinds DEF Streams
<1> QED
  BY <1>2, <1>3, <1>4 DEF Streams

\* Nothing has been written at the start.
LEMMA InitStreams == Init => Streams
<1> SUFFICES ASSUME Init PROVE Streams
  OBVIOUS
<1>1. LocalOnce
  BY PipelineConstants DEF Init, LocalOnce, Has
<1>2. ASSUME NEW s \in Sinks PROVE StreamInOrder(s)
  <2>1. acked[s] = << >> /\ batch[s] = << >> /\ queue[s] = << >>
    BY DEF Init
  <2>2. (\A x \in Events : ~ Has(<< >>, x)) /\ Ordered(local, << >>)
    BY EmptyHas
  <2> QED
    BY <2>1, <2>2 DEF StreamInOrder, Before
<1>3. ASSUME NEW s \in Remote PROVE CopiesBounded(s)
  <2>1. s \in Sinks
    BY SinkKinds
  <2>2. batch[s] = << >> /\ \A x \in Events : copies[s][x] = 0
    BY <2>1 DEF Init
  <2>3. \A x \in Events : ~ Has(<< >>, x)
    BY EmptyHas
  <2> QED
    BY <2>2, <2>3, PipelineConstants DEF CopiesBounded
<1>4. \A s \in FileSinks : queue[s] = << >> /\ batch[s] = << >>
  BY SinkKinds DEF Init
<1> QED
  BY <1>1, <1>2, <1>3, <1>4 DEF Streams

\* The steps of a handler keep the order: it holds the lock from its line in
\* the local output to the end of its fan-out.
LEMMA HandlerOrder ==
  ASSUME Invariant, Streams, NEW e \in Events, Handler(e)
  PROVE  Streams'
<1>0. /\ local \in Seq(Events) /\ pc \in [Events -> {"ready", "emit", "send", "done"}]
      /\ at \in [Events -> 1 .. NumSinks + 1]
      /\ queue \in [Sinks -> Seq(Events)] /\ acked \in [Sinks -> Seq(Events)]
      /\ copies \in [Sinks -> [Events -> Nat]]
      /\ \A d \in Events : pc[d] \in {"emit", "send"} => mu = d
      /\ pc[e] = "send" => at[e] \in Remote
      /\ mu \in Events \cup {Nobody} /\ Nobody \notin Events
  BY PipelineConstants DEF Invariant, TypeOK, HandlerHoldsLock
<1>a. /\ LocalOnce
      /\ \A s \in Sinks : StreamInOrder(s)
      /\ \A s \in Remote : CopiesBounded(s)
      /\ \A s \in FileSinks : queue[s] = << >> /\ batch[s] = << >>
  BY DEF Streams
\* What is said of sink s when the handler of e sends to it.
<1>b. ASSUME NEW s \in Sinks, pc[e] \in {"emit", "send"}, at[e] = s
      PROVE  /\ Ahead(e, s)
             /\ \A x \in Events : Has(acked[s], x) \/ Has(batch[s], x) \/ Has(queue[s], x) =>
                                      x # e /\ Precedes(local, x, e)
             /\ Has(local, e)
  <2>1. Ahead(e, s) /\ Len(local) > 0 /\ local[Len(local)] = e
    BY <1>0, <1>a, <1>b, SinkNumbers DEF Ahead, LocalOnce
  <2>2. \A x \in Events : Has(acked[s], x) \/ Has(batch[s], x) \/ Has(queue[s], x) =>
                              Has(local, x) /\ ~ Ahead(x, s)
    BY <1>a DEF StreamInOrder
  <2>3. Has(local, e)
    BY <1>0, <2>1 DEF Has
  <2> QED
    BY <1>0, <2>1, <2>2, <2>3, LastPrecedes
<1>1. CASE Write(e)
  <2>1. /\ pc[e] = "ready" /\ mu = Nobody
        /\ UNCHANGED <<queue, shipperVars>>
    BY <1>1 DEF Write
  <2>2. CASE pc' = [pc EXCEPT ![e] = "done"] /\ UNCHANGED <<mu, local, at>>
    <3>1. \A t \in Sinks, d \in Events : Ahead(d, t)' => Ahead(d, t)
      BY <1>0, <2>2 DEF Ahead
    <3>2. LocalOnce'
      BY <1>0, <1>a, <2>1, <2>2 DEF LocalOnce
    <3>3. ASSUME NEW t \in Sinks PROVE StreamInOrder(t)'
      BY <1>a, <2>1, <2>2, <3>1, StreamKept DEF shipperVars
    <3>4. ASSUME NEW t \in Remote PROVE CopiesBounded(t)'
      BY <1>a, <2>1, <3>1, CopiesKept, SinkKinds DEF shipperVars
    <3> QED
      BY <1>a, <2>1, <3>2, <3>3, <3>4 DEF Streams, shipperVars
  <2>3. CASE /\ local' = Append(local, e) /\ mu' = e
             /\ pc' = [pc EXCEPT ![e] = "emit"]
             /\ at' = [at EXCEPT ![e] = IF attached THEN 1 ELSE NumSinks + 1]
    <3>1. \A t \in Sinks, d \in Events : Ahead(d, t)' => Ahead(d, t)
      BY <1>0, <2>1, <2>3 DEF Ahead
    <3>2. LocalOnce'
      <4>1. ~ Has(local, e) /\ \A d \in Events : pc[d] \notin {"emit", "send"}
        BY <1>0, <1>a, <2>1 DEF LocalOnce
      <4>2. /\ Len(local') = Len(local) + 1 /\ Len(local) \in Nat /\ local'[Len(local) + 1] = e
            /\ \A m \in 1 .. Len(local) : local'[m] = local[m] /\ local[m] # e
        BY <1>0, <2>3, <4>1 DEF Has
      <4>3. ASSUME NEW m \in 1 .. Len(local'), NEW n \in 1 .. Len(local'), local'[m] = local'[n]
            PROVE  m = n
        BY <1>a, <4>2, <4>3 DEF LocalOnce
      <4>4. \A d \in Events : Has(local', d) <=> Has(local, d) \/ d = e
        BY <1>0, <2>3, AppendHas
      <4>5. pc'[e] = "emit" /\ \A d \in Events : d # e => pc'[d] = pc[d]
        BY <1>0, <2>3
      <4>6. \A d \in Events : pc'[d] = "ready" => ~ Has(local', d)
        BY <1>a, <4>4, <4>5 DEF LocalOnce
      <4>7. \A d \in Events : pc'[d] \in {"emit", "send"} => Len(local') > 0 /\ local'[Len(local')] = d
        BY <4>1, <4>2, <4>5
      <4> QED
        BY <2>3, <4>3, <4>5, <4>6, <4>7 DEF LocalOnce
    <3>3. /\ \A x, y : Precedes(local, x, y) => Precedes(local', x, y)
          /\ \A x \in Events : Has(local, x) => Has(local', x)
      BY <1>0, <2>3, PrecedesGrows, AppendHas
    <3>4. ASSUME NEW t \in Sinks PROVE StreamInOrder(t)'
      <4>1. acked'[t] = acked[t] /\ batch'[t] = batch[t] /\ queue'[t] = queue[t]
        BY <2>1 DEF shipperVars
      <4>2. StreamInOrder(t)
        BY <1>a
      <4>3. \A q : Ordered(local, q) => Ordered(local', q)
        BY <3>3 DEF Ordered
      <4>4. \A p, q : Before(local, p, q) => Before(local', p, q)
        BY <3>3 DEF Before
      <4> QED
        BY <3>1, <3>3, <4>1, <4>2, <4>3, <4>4 DEF StreamInOrder
    <3>5. ASSUME NEW t \in Remote PROVE CopiesBounded(t)'
      BY <1>a, <2>1, <3>1, CopiesKept, SinkKinds DEF shipperVars
    <3> QED
      BY <1>a, <2>1, <3>2, <3>4, <3>5 DEF Streams, shipperVars
  <2> QED
    BY <1>1, <2>2, <2>3 DEF Write
<1>2. CASE EmitToFile(e)
  <2>0. PICK s \in FileSinks : s = at[e]
    BY <1>2 DEF EmitToFile
  <2>1. /\ pc[e] = "emit" /\ s \in FileSinks /\ at' = [at EXCEPT ![e] = s + 1]
        /\ acked' = [acked EXCEPT ![s] = Append(acked[s], e)] \/ UNCHANGED acked
        /\ UNCHANGED <<mu, local, pc, queue, batch, attempt>>
    BY <1>2, <2>0 DEF EmitToFile
  <2>2. s \in Sinks /\ s \notin Remote
    BY <2>1, SinkKinds
  <2>3. \A t \in Remote : copies'[t] = copies[t]
    BY <1>0, <1>2, <2>0, <2>2, SinkKinds DEF EmitToFile
  <2>4. \A t \in Sinks, d \in Events : Ahead(d, t)' => Ahead(d, t)
    BY <1>0, <2>0, <2>1, <2>2, SinkNumbers DEF Ahead
  <2>5. ~ Ahead(e, s)'
    <3>1. at'[e] = s + 1 /\ pc'[e] = "emit" /\ s \in Int
      BY <1>0, <2>1, <2>2, SinkNumbers
    <3> QED
      BY <3>1 DEF Ahead
  <2>6. LocalOnce'
    BY <1>a, <2>1 DEF LocalOnce
  <2>7. ASSUME NEW t \in Sinks PROVE StreamInOrder(t)'
    <3>1. CASE acked'[t] = acked[t]
      BY <1>a, <2>1, <2>4, <3>1, StreamKept
    <3>2. CASE t = s /\ acked'[t] = Append(acked[s], e)
      <4>1. queue'[s] = << >> /\ batch'[s] = << >>
        BY <1>a, <2>1
      <4>2. (\A x \in Events : ~ Has(<< >>, x)) /\ Ordered(local, << >>)
        BY EmptyHas
      <4>3. /\ \A x \in Events : Has(acked[s], x) => Precedes(local, x, e)
            /\ Has(local, e)
        BY <1>b, <2>0, <2>1, <2>2
      <4>4. acked[s] \in Seq(Events) /\ Ordered(local, acked[s])
        BY <1>0, <1>a, <2>2 DEF StreamInOrder
      <4>5. Ordered(local, Append(acked[s], e))
        BY <4>3, <4>4, AppendOrdered
      <4>6. \A x \in Events : Has(acked'[s], x) <=> Has(acked[s], x) \/ x = e
        BY <3>2, <4>4, AppendHas
      <4>7. \A x \in Events : Has(acked'[s], x) => Has(local, x) /\ ~ Ahead(x, s)'
        BY <1>a, <2>2, <2>4, <2>5, <4>3, <4>6 DEF StreamInOrder
      <4> QED
        BY <2>1, <3>2, <4>1, <4>2, <4>5, <4>7 DEF StreamInOrder, Before
    <3> QED
      BY <1>0, <2>1, <2>2, <3>1, <3>2
  <2>8. ASSUME NEW t \in Remote PROVE CopiesBounded(t)'
    BY <1>a, <2>1, <2>3, <2>4, CopiesKept, SinkKinds
  <2> QED
    BY <1>a, <2>1, <2>6, <2>7, <2>8 DEF Streams
<1>3. CASE EmitLoad(e)
  <2>1. /\ pc[e] = "emit" /\ at[e] \in Sinks
        /\ UNCHANGED <<mu, local, queue, shipperVars>>
        /\ \/ at' = [at EXCEPT ![e] = at[e] + 1] /\ UNCHANGED pc
           \/ pc' = [pc EXCEPT ![e] = "send"] /\ UNCHANGED at
    BY <1>3, SinkKinds DEF EmitLoad
  <2>2. \A t \in Sinks, d \in Events : Ahead(d, t)' => Ahead(d, t)
    <3>1. CASE at' = [at EXCEPT ![e] = at[e] + 1] /\ UNCHANGED pc
      BY <1>0, <2>1, <3>1, SinkNumbers DEF Ahead
    <3>2. CASE pc' = [pc EXCEPT ![e] = "send"] /\ UNCHANGED at
      BY <1>0, <2>1, <3>2 DEF Ahead
    <3> QED
      BY <2>1, <3>1, <3>2
  <2>3. LocalOnce'
    BY <1>0, <1>a, <2>1 DEF LocalOnce
  <2>4. ASSUME NEW t \in Sinks PROVE StreamInOrder(t)'
    BY <1>a, <2>1, <2>2, StreamKept DEF shipperVars
  <2>5. ASSUME NEW t \in Remote PROVE CopiesBounded(t)'
    BY <1>a, <2>1, <2>2, CopiesKept, SinkKinds DEF shipperVars
  <2> QED
    BY <1>a, <2>1, <2>3, <2>4, <2>5 DEF Streams, shipperVars
<1>4. CASE EmitSend(e)
  <2>0. PICK s \in Remote : s = at[e]
    BY <1>0, <1>4 DEF EmitSend
  <2>1. /\ pc[e] = "send" /\ at' = [at EXCEPT ![e] = s + 1] /\ pc' = [pc EXCEPT ![e] = "emit"]
        /\ queue' = [queue EXCEPT ![s] = IF Len(queue[s]) < QueueSize THEN Append(queue[s], e) ELSE queue[s]]
        /\ UNCHANGED <<mu, local, shipperVars>>
    BY <1>4, <2>0 DEF EmitSend
  <2>2. s \in Sinks /\ s \in Remote
    BY <1>0, <2>1, SinkKinds
  <2>3. \A t \in Sinks, d \in Events : Ahead(d, t)' => Ahead(d, t)
    BY <1>0, <2>0, <2>1, <2>2, SinkNumbers DEF Ahead
  <2>4. ~ Ahead(e, s)'
    <3>1. at'[e] = s + 1 /\ pc'[e] = "emit" /\ s \in Int
      BY <1>0, <2>1, <2>2, SinkNumbers
    <3> QED
      BY <3>1 DEF Ahead
  <2>5. LocalOnce'
    BY <1>0, <1>a, <2>1 DEF LocalOnce
  <2>6. /\ Ahead(e, s) /\ Has(local, e)
        /\ \A x \in Events : Has(acked[s], x) \/ Has(batch[s], x) \/ Has(queue[s], x) =>
                                 x # e /\ Precedes(local, x, e)
    BY <1>b, <2>0, <2>1, <2>2
  <2>7. ASSUME NEW t \in Sinks PROVE StreamInOrder(t)'
    <3>1. CASE queue'[t] = queue[t]
      BY <1>a, <2>1, <2>3, <3>1, StreamKept DEF shipperVars
    <3>2. CASE t = s /\ queue'[t] = Append(queue[s], e)
      <4>1. StreamInOrder(s) /\ queue[s] \in Seq(Events)
        BY <1>0, <1>a, <2>2
      <4>2. Ordered(local, queue'[s])
        BY <2>6, <3>2, <4>1, AppendOrdered DEF StreamInOrder
      <4>3. \A x \in Events : Has(queue'[s], x) <=> Has(queue[s], x) \/ x = e
        BY <3>2, <4>1, AppendHas
      <4>4. Before(local, acked[s], queue'[s]) /\ Before(local, batch[s], queue'[s])
        BY <2>6, <4>1, <4>3 DEF StreamInOrder, Before
      <4>5. local' = local /\ acked'[s] = acked[s] /\ batch'[s] = batch[s]
        BY <2>1 DEF shipperVars
      <4>6. \A d \in Events : Has(acked[s], d) \/ Has(batch[s], d) \/ Has(queue'[s], d) =>
                                  Has(local, d) /\ ~ Ahead(d, s)'
        BY <2>2, <2>3, <2>4, <2>6, <4>1, <4>3 DEF StreamInOrder
      <4> QED
        BY <3>2, <4>1, <4>2, <4>4, <4>5, <4>6 DEF StreamInOrder
    <3> QED
      BY <1>0, <2>1, <2>2, <3>1, <3>2
  <2>8. ASSUME NEW t \in Remote PROVE CopiesBounded(t)'
    <3>1. CASE queue'[t] = queue[t]
      BY <1>a, <2>1, <2>3, <3>1, CopiesKept, SinkKinds DEF shipperVars
    <3>2. CASE t = s /\ queue'[t] = Append(queue[s], e)
      <4>1. queue[s] \in Seq(Events) /\ CopiesBounded(s) /\ copies[s][e] = 0
        BY <1>0, <1>a, <2>2, <2>6 DEF CopiesBounded
      <4>2. \A x \in Events : Has(queue'[s], x) <=> Has(queue[s], x) \/ x = e
        BY <3>2, <4>1, AppendHas
      <4>3. copies'[s] = copies[s] /\ batch'[s] = batch[s] /\ attempt'[s] = attempt[s]
        BY <2>1 DEF shipperVars
      <4> QED
        BY <2>2, <2>3, <3>2, <4>1, <4>2, <4>3 DEF CopiesBounded
    <3> QED
      BY <1>0, <2>1, <2>2, <3>1, <3>2, SinkKinds
  <2>9. \A t \in FileSinks : queue'[t] = << >> /\ batch'[t] = << >>
    <3>1. \A t \in FileSinks : t # s /\ queue'[t] = queue[t]
      BY <1>0, <2>1, <2>2, SinkKinds
    <3> QED
      BY <1>a, <2>1, <3>1 DEF shipperVars
  <2> QED
    BY <2>5, <2>7, <2>8, <2>9 DEF Streams
<1>5. CASE Unlock(e)
  <2>1. /\ pc[e] = "emit" /\ pc' = [pc EXCEPT ![e] = "done"] /\ mu' = Nobody
        /\ UNCHANGED <<local, at, queue, shipperVars>>
    BY <1>5 DEF Unlock
  <2>2. \A t \in Sinks, d \in Events : Ahead(d, t)' => Ahead(d, t)
    BY <1>0, <2>1 DEF Ahead
  <2>3. LocalOnce'
    BY <1>0, <1>a, <2>1 DEF LocalOnce
  <2>4. ASSUME NEW t \in Sinks PROVE StreamInOrder(t)'
    BY <1>a, <2>1, <2>2, StreamKept DEF shipperVars
  <2>5. ASSUME NEW t \in Remote PROVE CopiesBounded(t)'
    BY <1>a, <2>1, <2>2, CopiesKept, SinkKinds DEF shipperVars
  <2> QED
    BY <1>a, <2>1, <2>3, <2>4, <2>5 DEF Streams, shipperVars
<1> QED
  BY <1>1, <1>2, <1>3, <1>4, <1>5 DEF Handler


\* A shipper that changes its own sink only, with the handlers where they were.
LEMMA ShipperOrder ==
  ASSUME Invariant, Streams, NEW s \in Remote, Shipper(s)
  PROVE  Streams'
<1>0. /\ s \in Sinks /\ local \in Seq(Events)
      /\ queue \in [Sinks -> Seq(Events)] /\ batch \in [Sinks -> Seq(Events)]
      /\ acked \in [Sinks -> Seq(Events)] /\ attempt \in [Sinks -> 0 .. SendAttempts - 1]
      /\ copies \in [Sinks -> [Events -> Nat]] /\ SendAttempts \in Nat
  BY PipelineConstants, SinkKinds DEF Invariant, TypeOK
<1>a. /\ LocalOnce
      /\ \A t \in Sinks : StreamInOrder(t)
      /\ \A t \in Remote : CopiesBounded(t)
      /\ \A t \in FileSinks : queue[t] = << >> /\ batch[t] = << >>
  BY DEF Streams
<1>b. StreamInOrder(s) /\ CopiesBounded(s) /\ s \notin FileSinks
  BY <1>0, <1>a, SinkKinds
\* It is enough to look at the sink itself.
<1>c. ASSUME UNCHANGED handlerVars, StreamInOrder(s)', CopiesBounded(s)',
             \A t \in Sinks : t # s => /\ queue'[t] = queue[t] /\ batch'[t] = batch[t]
                                       /\ acked'[t] = acked[t] /\ attempt'[t] = attempt[t]
                                       /\ copies'[t] = copies[t]
      PROVE  Streams'
  <2>1. \A t \in Sinks, d \in Events : Ahead(d, t)' => Ahead(d, t)
    BY <1>c DEF Ahead, handlerVars
  <2>2. LocalOnce'
    BY <1>a, <1>c DEF LocalOnce, handlerVars
  <2>3. ASSUME NEW t \in Sinks PROVE StreamInOrder(t)'
    BY <1>a, <1>c, <2>1, StreamKept DEF handlerVars
  <2>4. ASSUME NEW t \in Remote PROVE CopiesBounded(t)'
    BY <1>a, <1>c, <2>1, CopiesKept, SinkKinds
  <2>5. \A t \in FileSinks : queue'[t] = << >> /\ batch'[t] = << >>
    BY <1>a, <1>b, <1>c, SinkKinds
  <2> QED
    BY <2>2, <2>3, <2>4, <2>5 DEF Streams
\* The head of the queue moves to the end of the batch.
<1>d. ASSUME queue[s] # << >>, UNCHANGED <<handlerVars, attempt, acked, copies>>,
             queue' = [queue EXCEPT ![s] = Tail(queue[s])],
             batch' = [batch EXCEPT ![s] = Append(batch[s], Head(queue[s]))]
      PROVE  Streams'
  <2> DEFINE h == Head(queue[s])
  <2>1. /\ queue[s] \in Seq(Events) /\ batch[s] \in Seq(Events) /\ h \in Events
        /\ queue'[s] = Tail(queue[s]) /\ batch'[s] = Append(batch[s], h)
        /\ \A t \in Sinks : t # s => queue'[t] = queue[t] /\ batch'[t] = batch[t]
    BY <1>0, <1>d, Split
  <2>2. \A x \in Events : Has(queue[s], x) <=> x = h \/ Has(queue'[s], x)
    BY <1>d, <2>1, TailHas
  <2>3. \A x \in Events : Has(batch'[s], x) <=> Has(batch[s], x) \/ x = h
    BY <2>1, AppendHas
  <2>4. Ordered(local, queue'[s]) /\ \A x \in Events : Has(queue'[s], x) => Precedes(local, h, x)
    BY <1>b, <1>d, <2>1, TailOrdered DEF StreamInOrder
  <2>5. Ordered(local, batch'[s])
    <3>1. \A x \in Events : Has(batch[s], x) => Precedes(local, x, h)
      BY <1>b, <2>1, <2>2 DEF StreamInOrder, Before
    <3> QED
      BY <1>b, <2>1, <3>1, AppendOrdered DEF StreamInOrder
  <2> HIDE DEF h
  <2>6. /\ Before(local, acked[s], batch'[s]) /\ Before(local, acked[s], queue'[s])
        /\ Before(local, batch'[s], queue'[s])
    BY <1>b, <2>1, <2>2, <2>3, <2>4 DEF StreamInOrder, Before
  <2>7. local' = local /\ acked'[s] = acked[s] /\ \A d \in Events : Ahead(d, s)' <=> Ahead(d, s)
    BY <1>d DEF handlerVars, Ahead
  <2>8. StreamInOrder(s)'
    BY <1>b, <2>2, <2>3, <2>1, <2>4, <2>5, <2>6, <2>7 DEF StreamInOrder
  <2>9. CopiesBounded(s)'
    <3>1. attempt'[s] = attempt[s] /\ copies'[s] = copies[s] /\ attempt[s] >= 0
      BY <1>0, <1>d
    <3> QED
      BY <1>b, <2>1, <2>2, <2>3, <2>7, <3>1 DEF CopiesBounded
  <2> QED
    BY <1>c, <1>d, <2>1, <2>8, <2>9
\* The destination takes the batch, or does not: what it has then.
<1>e. ASSUME Taken(s) \/ UNCHANGED copies
      PROVE  /\ \A t \in Sinks : t # s => copies'[t] = copies[t]
             /\ \A x \in Events : /\ copies[s][x] \in Nat /\ copies'[s][x] \in Nat
                                  /\ Has(batch[s], x) => copies'[s][x] <= copies[s][x] + 1
                                  /\ ~ Has(batch[s], x) => copies'[s][x] = copies[s][x]
  <2>1. CASE UNCHANGED copies
    BY <1>0, <2>1
  <2>2. CASE Taken(s)
    <3>1. copies' = [copies EXCEPT ![s] =
                       [x \in Events |-> IF Has(batch[s], x) THEN copies[s][x] + 1 ELSE copies[s][x]]]
      BY <2>2 DEF Taken, Has
    <3>2. /\ \A t \in Sinks : t # s => copies'[t] = copies[t]
          /\ copies'[s] = [x \in Events |-> IF Has(batch[s], x) THEN copies[s][x] + 1 ELSE copies[s][x]]
      BY <1>0, <3>1
    <3> QED
      BY <1>0, <3>2
  <2> QED
    BY <1>e, <2>1, <2>2
\* What is in the batch is neither in the queue nor still to come.
<1>f. \A x \in Events : Has(batch[s], x) => ~ Has(queue[s], x) /\ ~ Ahead(x, s)
  <2>1. \A x \in Events : ~ Precedes(local, x, x)
    BY <1>a, NotItself DEF LocalOnce
  <2> QED
    BY <1>b, <2>1 DEF StreamInOrder, Before
<1>g. (\A x \in Events : ~ Has(<< >>, x)) /\ Ordered(local, << >>)
  BY EmptyHas
<1>1. CASE Take(s)
  BY <1>1, <1>d DEF Take
<1>2. CASE DrainTake(s)
  BY <1>2, <1>d DEF DrainTake
<1>3. CASE Tick(s) \/ DrainStart(s) \/ DrainEnd(s)
  BY <1>3, StreamsKept DEF Tick, DrainStart, DrainEnd
<1>4. CASE SendSucceeds(s)
  <2>1. /\ acked' = [acked EXCEPT ![s] = acked[s] \o batch[s]] /\ Taken(s)
        /\ batch' = [batch EXCEPT ![s] = << >>] /\ attempt' = [attempt EXCEPT ![s] = 0]
        /\ UNCHANGED <<handlerVars, queue>>
    BY <1>4 DEF SendSucceeds, Flushed
  <2>2. /\ acked[s] \in Seq(Events) /\ batch[s] \in Seq(Events) /\ queue'[s] = queue[s]
        /\ acked'[s] = acked[s] \o batch[s] /\ batch'[s] = << >> /\ attempt'[s] = 0
        /\ \A t \in Sinks : t # s => /\ queue'[t] = queue[t] /\ batch'[t] = batch[t]
                                     /\ acked'[t] = acked[t] /\ attempt'[t] = attempt[t]
    BY <1>0, <2>1
  <2>3. Ordered(local, acked'[s])
    BY <1>b, <2>2, JoinOrdered DEF StreamInOrder
  <2>4. \A x \in Events : Has(acked'[s], x) <=> Has(acked[s], x) \/ Has(batch[s], x)
    BY <2>2, JoinHas
  <2>5. local' = local /\ \A d \in Events : Ahead(d, s)' <=> Ahead(d, s)
    BY <2>1 DEF handlerVars, Ahead
  <2>6. /\ Before(local, acked'[s], batch'[s]) /\ Before(local, batch'[s], queue[s])
        /\ Before(local, acked'[s], queue[s])
    BY <1>b, <1>g, <2>2, <2>4 DEF StreamInOrder, Before
  <2>7. StreamInOrder(s)'
    BY <1>b, <1>g, <2>2, <2>3, <2>4, <2>5, <2>6 DEF StreamInOrder
  <2>8. CopiesBounded(s)'
    <3>1. attempt[s] \in 0 .. SendAttempts - 1
      BY <1>0
    <3> QED
      BY <1>0, <1>b, <1>e, <1>f, <1>g, <2>1, <2>2, <2>5, <3>1 DEF CopiesBounded
  <2> QED
    BY <1>c, <1>e, <2>1, <2>2, <2>7, <2>8
<1>5. CASE SendFails(s)
  <2>1. /\ Taken(s) \/ UNCHANGED copies
        /\ UNCHANGED <<handlerVars, queue, acked>>
        /\ \/ attempt' = [attempt EXCEPT ![s] = attempt[s] + 1] /\ UNCHANGED batch
           \/ batch' = [batch EXCEPT ![s] = << >>] /\ attempt' = [attempt EXCEPT ![s] = 0]
    BY <1>5 DEF SendFails, Flushed
  <2>2. /\ queue'[s] = queue[s] /\ acked'[s] = acked[s]
        /\ \/ attempt'[s] = attempt[s] + 1 /\ batch'[s] = batch[s]
           \/ batch'[s] = << >>
        /\ \A t \in Sinks : t # s => /\ queue'[t] = queue[t] /\ batch'[t] = batch[t]
                                     /\ acked'[t] = acked[t] /\ attempt'[t] = attempt[t]
    BY <1>0, <2>1
  <2>3. local' = local /\ \A d \in Events : Ahead(d, s)' <=> Ahead(d, s)
    BY <2>1 DEF handlerVars, Ahead
  <2>4. StreamInOrder(s)'
    <3>1. CASE batch'[s] = batch[s]
      BY <1>b, <2>2, <2>3, <3>1 DEF StreamInOrder
    <3>2. CASE batch'[s] = << >>
      <4>1. Before(local, acked[s], << >>) /\ Before(local, << >>, queue[s])
        BY <1>g DEF Before
      <4> QED
        BY <1>b, <1>g, <2>2, <2>3, <3>2, <4>1 DEF StreamInOrder
    <3> QED
      BY <2>2, <3>1, <3>2
  <2>5. CopiesBounded(s)'
    <3>1. attempt[s] \in 0 .. SendAttempts - 1
      BY <1>0
    <3>2. \A x \in Events : /\ copies[s][x] \in Nat /\ copies'[s][x] \in Nat
                            /\ Has(batch[s], x) => copies'[s][x] <= copies[s][x] + 1
                            /\ ~ Has(batch[s], x) => copies'[s][x] = copies[s][x]
      BY <1>e, <2>1
    <3>3. ASSUME NEW x \in Events
          PROVE  /\ copies'[s][x] <= SendAttempts
                 /\ Ahead(x, s) \/ Has(queue[s], x) => copies'[s][x] = 0
                 /\ Has(batch[s], x) => copies'[s][x] <= attempt[s] + 1
      <4>1. CASE Has(batch[s], x)
        BY <1>0, <1>b, <1>f, <3>1, <3>2, <4>1 DEF CopiesBounded
      <4>2. CASE ~ Has(batch[s], x)
        BY <1>b, <3>2, <4>2 DEF CopiesBounded
      <4> QED
        BY <4>1, <4>2
    <3> QED
      BY <1>g, <2>2, <2>3, <3>3 DEF CopiesBounded
  <2> QED
    BY <1>c, <1>e, <2>1, <2>2, <2>4, <2>5
<1> QED
  BY <1>1, <1>2, <1>3, <1>4, <1>5 DEF Shipper

\* Order and copies are kept by every step.
THEOREM StreamsInductive == Spec => []Streams
<1>1. Invariant /\ Streams /\ [Next]_vars => Streams'
  <2> SUFFICES ASSUME Invariant, Streams, [Next]_vars PROVE Streams'
    OBVIOUS
  <2>1. CASE OpenSink \/ OpenFails \/ AttachSinks \/ CloseDetach \/ Closer
    BY <2>1, StreamsKept DEF OpenSink, OpenFails, AttachSinks, CloseDetach, Closer, CloseSink,
                             CloseWait, CloseReturn, shipperVars
  <2>2. ASSUME NEW e \in Events, Handler(e) PROVE Streams'
    BY <2>2, HandlerOrder
  <2>3. ASSUME NEW s \in Remote, Shipper(s) PROVE Streams'
    BY <2>3, ShipperOrder
  <2>4. CASE UNCHANGED vars
    BY <2>4, StreamsKept DEF vars, handlerVars
  <2> QED
    BY <2>1, <2>2, <2>3, <2>4 DEF Next, Finished
<1> QED
  BY <1>1, InitStreams, Inductive, PTL DEF Spec

\* Every destination sees the events in the order of the local output, for any
\* number of handlers, sinks, retries and drains.
THEOREM OrderKept == Spec => []SinkOrderIsLocalOrder
<1>1. Streams => SinkOrderIsLocalOrder
  BY DEF Streams, StreamInOrder, Ordered, Precedes, SinkOrderIsLocalOrder
<1> QED
  BY <1>1, StreamsInductive, PTL

\* No remote destination gets an event more often than a batch is attempted,
\* and none that still waits in the queue.
THEOREM CopiesAreFew == Spec => []FewCopies
<1>1. Streams => FewCopies
  BY DEF Streams, CopiesBounded, Has, FewCopies
<1> QED
  BY <1>1, StreamsInductive, PTL

\* Whoever holds the lock is at a step whose guard holds: the next sink is a file
\* or remote, a send is under way, or the fan-out is over. Each of these steps
\* assigns every variable, so that the holder waits for no destination.
HolderHasAStep ==
    \A e \in Events : mu = e =>
        \/ pc[e] = "emit" /\ at[e] \in FileSinks
        \/ pc[e] = "emit" /\ at[e] \in Remote
        \/ pc[e] = "send"
        \/ pc[e] = "emit" /\ at[e] = NumSinks + 1

\* The holder of l.mu is never stuck, whatever the queues and destinations do.
THEOREM HolderNeverWaits == Spec => []HolderHasAStep
<1>1. Invariant /\ Streams => HolderHasAStep
  <2> SUFFICES ASSUME Invariant, Streams, NEW e \in Events, mu = e
               PROVE  \/ pc[e] = "emit" /\ at[e] \in FileSinks
                      \/ pc[e] = "emit" /\ at[e] \in Remote
                      \/ pc[e] = "send"
                      \/ pc[e] = "emit" /\ at[e] = NumSinks + 1
    BY DEF HolderHasAStep
  <2>1. pc[e] \in {"emit", "send"} /\ at[e] \in 1 .. NumSinks + 1
    BY DEF Streams, LocalOnce, Invariant, TypeOK
  <2>2. at[e] \in Sinks \/ at[e] = NumSinks + 1
    BY <2>1, SinkNumbers
  <2> QED
    BY <2>1, <2>2 DEF Remote
<1> QED
  BY <1>1, Inductive, StreamsInductive, PTL
=============================================================================
