---------------------------- MODULE HTTPSensor -----------------------------
(***************************************************************************)
(* The life of a sensor process from main to its return, for every mode    *)
(* but TCP (which is TCPSensor): the dispatcher (server/server.go), the     *)
(* start-up of each mode with its error paths, the server that hands        *)
(* connections to handlers, the goroutine that shuts it down when the      *)
(* context is cancelled, and the deferred closes, while handlers go on.    *)
(*                                                                         *)
(* The AI sensor's handler is modelled step by step (session budget, work  *)
(* slot, decision, release, answer, event); the other handlers are an      *)
(* answer and an event. http.Server and echo's StartConfig are external:   *)
(* Shutdown closes the listener, waits until Serve has returned, then       *)
(* closes idle connections until none is busy or its time is up; Close     *)
(* closes what is left and waits for no handler; echo shuts down when the   *)
(* context ends or Serve returns, and waits for that.                       *)
(***************************************************************************)
EXTENDS Integers, Sequences, FiniteSets, AIGateway

CONSTANTS
    Kinds,          \* the modes a run looks at
    Conns,          \* connections clients may open
    WorkSlots,      \* capacity of the AI sensor's work channel
    MaxRequests,    \* requests of one AI session
    ArrivalBound,   \* bound of the model: requests on one connection
    Requests,       \* requests a client may send
    Token           \* whether a token is configured

AllKinds == {"ai", "docker", "k8s", "http", "kubelet", "udp"}
EchoKinds == {"k8s", "http", "kubelet"}

ASSUME SensorConstants ==
    /\ Kinds \subseteq AllKinds
    /\ WorkSlots \in Nat /\ MaxRequests \in Nat /\ ArrivalBound \in Nat
    /\ Requests \subseteq Request /\ Requests # {}
    /\ Token \in BOOLEAN
    /\ IsFiniteSet(Conns)

VARIABLES
    kind,       \* the configured mode
    ctx,        \* "live" or "cancelled"
    main,       \* what the main goroutine does next
    todo,       \* start-up steps that remain
    defers,     \* deferred closes, the latest first
    logger,     \* "none", "open" or "closed": the event logger
    listener,   \* the same for the listening socket
    shutting,   \* Shutdown has begun: Serve returns, keep-alive ends
    finished,   \* the channel that ends the shutdown goroutine
    watcher,    \* the shutdown goroutine
    timedOut,   \* Shutdown gave up waiting for busy connections
    aborted,    \* the AI sensor found Serve had failed and nobody had cancelled
    conn,       \* conn[c]: what the server knows of connection c
    hand,       \* hand[c]: the handler of c
    arrived,    \* arrived[c]: requests that came in on c
    slots       \* work slots: the connections whose handlers hold one

startVars == <<todo, defers, logger, listener>>
serverVars == <<shutting, finished, watcher, timedOut, aborted>>
connVars == <<conn, hand, arrived, slots>>
vars == <<kind, ctx, main, todo, defers, logger, listener, shutting, finished, watcher,
          timedOut, aborted, conn, hand, arrived, slots>>

\* No handler runs on the connection.
Quiet == [pc |-> "none", code |-> 0, rightly |-> TRUE]

Busy == {c \in Conns : hand[c].pc # "none"}

Codes == {0, 200, 400, 401, 404, 405, 408, 413, 414, 415, 429, 500, 501, 503}

TypeOK ==
    /\ kind \in Kinds /\ ctx \in {"live", "cancelled"}
    /\ main \in {"start", "config", "mode", "setup", "serve", "served", "loop", "read",
                 "unwind", "returned"}
    /\ todo \in Seq({"ctx", "api", "listen", "cap", "tls", "logger", "go"})
    /\ defers \in Seq({"logger", "listener", "finished"})
    /\ logger \in {"none", "open", "closed"} /\ listener \in {"none", "open", "closed"}
    /\ watcher \in {"none", "waiting", "draining", "closing", "stopped"}
    /\ {shutting, finished, timedOut, aborted} \subseteq BOOLEAN
    /\ conn \in [Conns -> {"none", "fresh", "busy", "idle", "closed"}]
    /\ hand \in [Conns -> [pc : {"none", "arrive", "work", "release", "answer", "event"},
                           code : Codes, rightly : BOOLEAN]]
    /\ arrived \in [Conns -> Nat] /\ slots \subseteq Conns

----------------------------------------------------------------------------
(* main, the dispatcher and the start-up of a mode.                        *)

\* The steps of a mode's Start function in its order; "go" is the step from
\* which the server runs. A deferred close is registered where the code does.
Startup(k) ==
    CASE k = "ai" -> <<"ctx", "logger", "listen", "cap", "go">>
      [] k \in {"docker", "http"} -> <<"logger", "listen", "cap", "go">>
      [] k = "kubelet" -> <<"logger", "listen", "cap", "tls", "go">>
      [] k = "k8s" -> <<"api", "listen", "cap", "tls", "logger", "go">>
      [] k = "udp" -> <<"listen", "logger", "go">>

\* The step after which the close of the listener is deferred.
ListenerDeferredAfter(k) ==
    CASE k \in {"k8s", "kubelet"} -> "tls" [] k = "udp" -> "listen" [] OTHER -> "cap"

Init ==
    /\ kind \in Kinds /\ ctx = "live" /\ main = "start"
    /\ todo = <<>> /\ defers = <<>>
    /\ logger = "none" /\ listener = "none"
    /\ shutting = FALSE /\ finished = FALSE /\ timedOut = FALSE /\ aborted = FALSE
    /\ watcher = "none"
    /\ conn = [c \in Conns |-> "none"]
    /\ hand = [c \in Conns |-> Quiet]
    /\ arrived = [c \in Conns |-> 0]
    /\ slots = {}

\* The signal that cancels the context may come at any moment.
Cancel ==
    /\ ctx = "live" /\ main # "returned"
    /\ ctx' = "cancelled"
    /\ UNCHANGED <<kind, main, startVars, serverVars, connVars>>

\* StartHoneypot: a cancelled context or a refused configuration returns
\* before anything is opened; otherwise exactly one mode is started.
Dispatch ==
    /\ \/ main = "start" /\ main' = (IF ctx = "cancelled" THEN "returned" ELSE "config")
          /\ UNCHANGED todo
       \/ main = "config" /\ main' \in {"mode", "returned"} /\ UNCHANGED todo
       \/ main = "mode" /\ ctx = "cancelled" /\ main' = "returned" /\ UNCHANGED todo
       \/ main = "mode" /\ ctx = "live" /\ main' = "setup" /\ todo' = Startup(kind)
    /\ UNCHANGED <<kind, ctx, defers, logger, listener, serverVars, connVars>>

\* One step of a Start function succeeds.
SetupStep ==
    /\ main = "setup" /\ todo # <<>> /\ Head(todo) # "go"
    /\ Head(todo) = "ctx" => ctx = "live"
    /\ todo' = Tail(todo)
    /\ logger' = IF Head(todo) = "logger" THEN "open" ELSE logger
    /\ listener' = IF Head(todo) = "listen" THEN "open" ELSE listener
    /\ defers' = (IF Head(todo) = ListenerDeferredAfter(kind) THEN <<"listener">> ELSE <<>>)
                 \o (IF Head(todo) = "logger" THEN <<"logger">> ELSE <<>>) \o defers
    /\ UNCHANGED <<kind, ctx, main, serverVars, connVars>>

\* Mutant: a TLS failure returns without closing the listener.
SetupFailsOpen ==
    /\ main = "setup" /\ todo # <<>> /\ Head(todo) # "go"
    /\ Head(todo) = "ctx" => ctx = "cancelled"
    /\ main' = "unwind"
    /\ listener' = IF Head(todo) = "cap" THEN "closed" ELSE listener
    /\ UNCHANGED <<kind, ctx, todo, defers, logger, serverVars, connVars>>

\* One step fails: capping and TLS close the listener themselves, and what is
\* deferred so far is closed on the way out.
SetupFails ==
    /\ main = "setup" /\ todo # <<>> /\ Head(todo) # "go"
    /\ Head(todo) = "ctx" => ctx = "cancelled"
    /\ main' = "unwind"
    /\ listener' = IF Head(todo) \in {"cap", "tls"} THEN "closed" ELSE listener
    /\ UNCHANGED <<kind, ctx, todo, defers, logger, serverVars, connVars>>

\* The server is started, with the goroutine that will shut it down; the AI
\* and Docker sensors end that goroutine through a deferred close.
Go ==
    /\ main = "setup" /\ todo = <<"go">>
    /\ todo' = <<>>
    /\ main' = IF kind = "udp" THEN "loop" ELSE "serve"
    /\ watcher' = IF kind = "udp" THEN "none" ELSE "waiting"
    /\ defers' = (IF kind \in {"ai", "docker"} THEN <<"finished">> ELSE <<>>) \o defers
    /\ UNCHANGED <<kind, ctx, logger, listener, shutting, finished, timedOut, aborted, connVars>>

----------------------------------------------------------------------------
(* Serve, and what the main goroutine does when it returns.                *)

\* Serve returns because Shutdown has begun.
ServeEnds ==
    /\ main = "serve" /\ shutting
    /\ main' = "served"
    /\ UNCHANGED <<kind, ctx, startVars, serverVars, connVars>>

\* Serve returns because Accept failed.
ServeFails ==
    /\ main = "serve" /\ ~shutting
    /\ main' = "served"
    /\ UNCHANGED <<kind, ctx, startVars, serverVars, connVars>>

\* Mutant: nobody waits for the shutdown goroutine.
AfterServeAtOnce ==
    /\ main = "served"
    /\ main' = "unwind" /\ aborted' = (ctx = "live")
    /\ UNCHANGED <<kind, ctx, startVars, shutting, finished, watcher, timedOut, connVars>>

\* The AI sensor waits for the shutdown goroutine if the context is over when
\* it looks, echo always waits, the Docker sensor never does.
AfterServe ==
    /\ main = "served"
    /\ \/ kind = "docker"
       \/ kind = "ai" /\ ctx = "live"
       \/ watcher = "stopped"
    /\ main' = "unwind"
    /\ aborted' = (kind = "ai" /\ ctx = "live")
    /\ UNCHANGED <<kind, ctx, startVars, shutting, finished, watcher, timedOut, connVars>>

\* The deferred closes run, the latest first, and the function returns.
Unwind ==
    /\ main = "unwind"
    /\ main' = IF defers = <<>> THEN "returned" ELSE "unwind"
    /\ LET next == IF defers = <<>> THEN "none" ELSE Head(defers)
       IN /\ finished' = (finished \/ next = "finished")
          /\ listener' = IF next = "listener" THEN "closed" ELSE listener
          /\ logger' = IF next = "logger" THEN "closed" ELSE logger
    /\ defers' = IF defers = <<>> THEN <<>> ELSE Tail(defers)
    /\ UNCHANGED <<kind, ctx, todo, shutting, watcher, timedOut, aborted, connVars>>

\* The UDP sensor: look at the context, then wait for a datagram for at most
\* the poll interval. A datagram is recorded before the next look.
UDPLoop ==
    /\ \/ main = "loop" /\ main' = (IF ctx = "cancelled" THEN "unwind" ELSE "read")
       \/ main = "loop" /\ ctx = "live" /\ main' = "unwind"
       \/ main = "read" /\ main' \in {"loop", "unwind"}
    /\ UNCHANGED <<kind, ctx, startVars, serverVars, connVars>>

----------------------------------------------------------------------------
(* The goroutine that shuts the server down.                               *)

\* It wakes when the context is cancelled (echo: also when Serve has returned)
\* and begins Shutdown, which closes the listener; or it is told to end.
WatcherWakes ==
    /\ watcher = "waiting"
    /\ \/ /\ ctx = "cancelled" \/ (kind \in EchoKinds /\ main = "served")
          /\ watcher' = "draining" /\ shutting' = TRUE /\ listener' = "closed"
       \/ /\ finished
          /\ watcher' = "stopped"
          /\ UNCHANGED <<shutting, listener>>
    /\ UNCHANGED <<kind, ctx, main, todo, defers, logger, finished, timedOut, aborted, connVars>>

\* Every connection is idle or closed: Shutdown closes the idle ones.
Drained ==
    /\ watcher = "draining" /\ main # "serve"
    /\ \A c \in Conns : conn[c] \notin {"fresh", "busy"}
    /\ conn' = [c \in Conns |-> IF conn[c] = "idle" THEN "closed" ELSE conn[c]]
    /\ watcher' = IF kind \in EchoKinds THEN "stopped" ELSE "closing"
    /\ UNCHANGED <<kind, ctx, main, startVars, shutting, finished, timedOut, aborted, hand, arrived, slots>>

\* Mutant: Shutdown has no time limit.
DrainNeverTimesOut == FALSE /\ UNCHANGED vars

\* The time for Shutdown is up while a connection is still busy.
DrainTimesOut ==
    /\ watcher = "draining" /\ main # "serve"
    /\ \E c \in Conns : conn[c] \in {"fresh", "busy"}
    /\ timedOut' = TRUE
    /\ conn' = [c \in Conns |-> IF conn[c] = "idle" THEN "closed" ELSE conn[c]]
    /\ watcher' = IF kind \in EchoKinds THEN "stopped" ELSE "closing"
    /\ UNCHANGED <<kind, ctx, main, startVars, shutting, finished, aborted, hand, arrived, slots>>

\* Close of the server: every remaining connection, no waiting for handlers.
CloseServer ==
    /\ watcher = "closing"
    /\ watcher' = "stopped"
    /\ conn' = [c \in Conns |-> IF conn[c] = "none" THEN "none" ELSE "closed"]
    /\ UNCHANGED <<kind, ctx, main, startVars, shutting, finished, timedOut, aborted, hand, arrived, slots>>

----------------------------------------------------------------------------
(* Connections and handlers.                                               *)

Accept(c) ==
    /\ main = "serve" /\ listener = "open" /\ conn[c] = "none"
    /\ conn' = [conn EXCEPT ![c] = "fresh"]
    /\ UNCHANGED <<kind, ctx, main, startVars, serverVars, hand, arrived, slots>>

\* A request comes in on a connection that has none, or the connection ends.
Arrive(c) ==
    /\ conn[c] \in {"fresh", "idle"} /\ arrived[c] < ArrivalBound
    /\ conn' = [conn EXCEPT ![c] = "busy"]
    /\ hand' = [hand EXCEPT ![c] = [Quiet EXCEPT !.pc = "arrive"]]
    /\ arrived' = [arrived EXCEPT ![c] = @ + 1]
    /\ UNCHANGED <<kind, ctx, main, startVars, serverVars, slots>>

HangUp(c) ==
    /\ conn[c] \in {"fresh", "idle"}
    /\ conn' = [conn EXCEPT ![c] = "closed"]
    /\ UNCHANGED <<kind, ctx, main, startVars, serverVars, hand, arrived, slots>>

Turn(c, pc, code) == hand' = [hand EXCEPT ![c].pc = pc, ![c].code = code]

\* The early returns of the AI sensor, in their order: the session has had
\* its requests or its time, the target is too long, the context is over or
\* the client gone, no work slot is free.
Admit(c) ==
    /\ kind = "ai" /\ hand[c].pc = "arrive"
    /\ \E expired, long, gone \in BOOLEAN :
         LET full == Cardinality(slots) >= WorkSlots
             code == FirstThat(<< <<arrived[c] > MaxRequests \/ expired, 429>>,
                                  <<long, 414>>,
                                  <<gone \/ ctx = "cancelled", 408>>,
                                  <<full, 503>>,
                                  <<TRUE, 0>> >>)
         IN /\ Turn(c, IF code = 0 THEN "work" ELSE "answer", code)
            /\ slots' = IF code = 0 THEN slots \cup {c} ELSE slots
    /\ UNCHANGED <<kind, ctx, main, startVars, serverVars, conn, arrived>>

\* The decision, made while the slot is held. rightly remembers whether a 200
\* is one that the request was entitled to.
Work(c) ==
    /\ hand[c].pc = "work"
    /\ \E r \in Requests :
         hand' = [hand EXCEPT ![c] =
                    [pc |-> "release", code |-> Decide(Token, r),
                     rightly |-> /\ Token => r.auth = IF r.path \in Anthropic THEN "x-api-key"
                                                                                ELSE "bearer"
                                 /\ r.path # "/other" /\ ~Manages(r.path)]]
    /\ UNCHANGED <<kind, ctx, main, startVars, serverVars, conn, arrived, slots>>

\* Mutant: the slot is kept when the request is refused.
ReleaseUnlessRefused(c) ==
    /\ hand[c].pc = "release"
    /\ slots' = IF hand[c].code = 200 THEN slots \ {c} ELSE slots
    /\ Turn(c, "answer", hand[c].code)
    /\ UNCHANGED <<kind, ctx, main, startVars, serverVars, conn, arrived>>

\* The deferred release runs before the deferred answer.
Release(c) ==
    /\ hand[c].pc = "release"
    /\ slots' = slots \ {c}
    /\ Turn(c, "answer", hand[c].code)
    /\ UNCHANGED <<kind, ctx, main, startVars, serverVars, conn, arrived>>

\* The handlers of the other modes: the request is handled (the Docker sensor
\* and the Kubernetes API have models of their own).
Handle(c) ==
    /\ kind # "ai" /\ hand[c].pc = "arrive"
    /\ \E code \in {200, 400, 404} : Turn(c, "answer", code)
    /\ UNCHANGED <<kind, ctx, main, startVars, serverVars, conn, arrived, slots>>

\* The AI sensor gives up an answer that has grown past maxOutput; a refusal is
\* one short message and never does.
Answer(c) ==
    /\ hand[c].pc = "answer"
    /\ \/ Turn(c, "event", hand[c].code)
       \/ kind = "ai" /\ hand[c].code = 200 /\ Turn(c, "event", 500)
    /\ UNCHANGED <<kind, ctx, main, startVars, serverVars, conn, arrived, slots>>

\* The event is written and the handler returns: the connection can be used
\* again, unless the server is being shut down or has closed it, or the
\* session's budget is spent (the answer 429 says Connection: close).
Record(c) ==
    /\ hand[c].pc = "event"
    /\ hand' = [hand EXCEPT ![c] = Quiet]
    /\ conn' = [conn EXCEPT ![c] = IF shutting \/ conn[c] = "closed" \/ hand[c].code = 429
                                     THEN "closed" ELSE "idle"]
    /\ UNCHANGED <<kind, ctx, main, startVars, serverVars, arrived, slots>>

----------------------------------------------------------------------------

Main == Dispatch \/ SetupStep \/ SetupFails \/ Go \/ ServeEnds \/ AfterServe \/ Unwind \/ UDPLoop
Watcher == WatcherWakes \/ Drained \/ DrainTimesOut \/ CloseServer
Client(c) == Accept(c) \/ Arrive(c) \/ HangUp(c)
Handler(c) == Admit(c) \/ Work(c) \/ Release(c) \/ Handle(c) \/ Answer(c) \/ Record(c)

Next == Cancel \/ Main \/ ServeFails \/ Watcher \/ \E c \in Conns : Client(c) \/ Handler(c)

\* The main goroutine and the shutdown goroutine run; no client, no handler
\* and no failing Accept is relied upon.
Fairness == WF_vars(Main) /\ WF_vars(Watcher)

Spec == Init /\ [][Next]_vars /\ Fairness

----------------------------------------------------------------------------

\* When a sensor that waits for its shutdown closes the event logger, no
\* handler is left that could still write an event, unless Shutdown ran out of
\* time. The Docker sensor does not wait, and the AI sensor does not when
\* Accept fails by itself (StartAIHoneypot, echo's StartConfig).
DrainKeepsEvents ==
    logger = "closed" /\ kind # "docker" /\ ~aborted /\ ~timedOut => Busy = {}

\* Work slots are held exactly by the handlers that are working, never more
\* than there are; and a handler that answers 200 had the right token for its
\* path, asked for something that is served, and was within the session's
\* budget (sensor.ServeHTTP).
AnswersWithinBudget ==
    kind = "ai" =>
        /\ slots = {c \in Conns : hand[c].pc \in {"work", "release"}}
        /\ Cardinality(slots) <= WorkSlots
        /\ \A c \in Conns : hand[c].code = 200 => hand[c].rightly /\ arrived[c] <= MaxRequests

\* However the start-up fails and however the sensor stops, the process leaves
\* neither its listener nor its event logger open (the Start functions).
NothingLeftOpen == main = "returned" => logger # "open" /\ listener # "open"

\* Once the context is cancelled the process returns, in every mode and even
\* if handlers and clients never do anything again (run, StartHoneypot).
CancelReturns == []<>(ctx = "cancelled" => main = "returned")
====
