-------------------------- MODULE FrontEndProofs ---------------------------
(***************************************************************************)
(* Theorems about what stands between the network and the state of a       *)
(* sensor. HTTPSensor: for every set of modes, connections and requests    *)
(* and every budget. APIRequests: for every set of handlers, paths, bodies *)
(* and selections, any seeded objects of the catalogue and any sizes of a  *)
(* page. Configuration and ClientAddress: for every file, environment and  *)
(* list of headers, and all limits. The parts share no variable;           *)
(* HTTPSensor and APIRequests have specifications, Spec and APISpec.       *)
(***************************************************************************)
EXTENDS HTTPSensor, APIRequests, Inputs, FiniteSetTheorems, WellFoundedInduction, TLAPS

(* The chains of checks of AIGateway.                                      *)

\* A set of numbers that is not empty has a least one, which is what Min gives.
LEMMA LeastNumber ==
  ASSUME NEW T, T \subseteq Nat, T # {}
  PROVE  Min(T) \in T /\ \A y \in T : Min(T) <= y
<1> DEFINE R == {ss \in Nat \X Nat : ss[1] < ss[2]}
<1>1. IsWellFoundedOn(R, Nat)
  BY NatLessThanWellFounded DEF OpToRel
<1>2. PICK x \in T : \A y \in T : <<y, x>> \notin R
  <2> HIDE DEF R
  <2> QED
    BY <1>1, WFMin
<1>3. ASSUME NEW y \in T PROVE x <= y
  <2>1. <<y, x>> \in Nat \X Nat /\ <<y, x>>[1] = y /\ <<y, x>>[2] = x
    OBVIOUS
  <2>2. ~ (y < x)
    BY <1>2, <2>1, Zenon
  <2> QED
    BY <2>2
<1> QED
  BY <1>3 DEF Min

\* A chain whose last check always applies is decided by the first that does.
LEMMA FirstDecides ==
  ASSUME NEW checks, NEW n \in Nat \ {0}, Len(checks) = n, checks[n][1]
  PROVE  \E i \in 1 .. n : /\ checks[i][1] /\ FirstThat(checks) = checks[i][2]
                           /\ \A j \in 1 .. n : j < i => ~ checks[j][1]
<1> DEFINE I == {i \in 1 .. n : checks[i][1]}
<1>1. I \subseteq Nat /\ I # {}
  OBVIOUS
<1>2. Min(I) \in I /\ \A y \in I : Min(I) <= y
  BY <1>1, LeastNumber
<1>3. FirstThat(checks) = checks[Min(I)][2]
  BY <1>1 DEF FirstThat, SelectInSeq
<1>4. Min(I) \in 1 .. n /\ checks[Min(I)][1]
  BY <1>2
<1>5. \A j \in 1 .. n : j < Min(I) => j \notin I
  BY <1>2, <1>4
<1>6. \A j \in 1 .. n : j < Min(I) => ~ checks[j][1]
  BY <1>5
<1> QED
  BY <1>3, <1>4, <1>6, Zenon

\* A 200 of respond follows from the last check or from /api/show; whatever it
\* answers is one of its codes.
LEMMA RespondCodes ==
  ASSUME NEW r
  PROVE  Respond(r) \in {200, 400, 404}
<1> DEFINE has(field, paths) == r.path \in paths /\ field \in r.wrong
           all == Paths
           checks == << <<r.model = "invalid", 400>>,
                    <<r.model = "other", 404>>,
                    <<r.path = "/api/show", 200>>,
                    <<has("stream", all), 400>>,
                    <<has("tools", all), 400>>,
                    <<has("messages", {"/api/chat", "/v1/chat/completions"} \cup Anthropic), 400>>,
                    <<has("prompt", {"/api/generate"}), 400>>,
                    <<has("input", {"/v1/responses"}), 400>>,
                    <<has("stored", {"/v1/responses"}), 400>>,
                    <<has("background", {"/v1/responses"}), 400>>,
                    <<has("max_tokens", {"/v1/messages"}), 400>>,
                    <<has("n", {"/v1/chat/completions"}), 400>>,
                    <<has("limit", all), 400>>,
                    <<TRUE, 200>> >>
<1>1. Len(checks) = 14 /\ checks[14][1]
  OBVIOUS
<1>2. \A i \in 1 .. 14 : checks[i][2] \in {200, 400, 404}
  OBVIOUS
<1>3. Respond(r) = FirstThat(checks)
  BY DEF Respond
<1> HIDE DEF checks
<1>4. PICK i \in 1 .. 14 : FirstThat(checks) = checks[i][2]
  <2>1. 14 \in Nat \ {0}
    OBVIOUS
  <2> QED
    BY <1>1, <2>1, FirstDecides, Zenon
<1> QED
  BY <1>2, <1>3, <1>4

\* What a request that gets a 200 was entitled to.
Entitled(r) ==
    /\ Token => r.auth = IF r.path \in Anthropic THEN "x-api-key" ELSE "bearer"
    /\ r.path # "/other" /\ ~Manages(r.path)

\* The decision is one of the codes, and a 200 only for what is served to whom may ask.
LEMMA Decision ==
  ASSUME NEW r \in Request
  PROVE  Decide(Token, r) \in Codes /\ (Decide(Token, r) = 200 => Entitled(r))
<1> DEFINE checks == << <<Token /\ ~Authorized(r), 401>>,
                 <<r.encoded, 415>>,
                 <<r.body = "large", 413>>,
                 <<r.body = "broken", 400>>,
                 <<Expected(r.path) = "", 404>>,
                 <<~MethodFits(r), 405>>,
                 <<Expected(r.path) = "GET", 200>>,
                 <<r.json # "object", 400>>,
                 <<Manages(r.path), 501>>,
                 <<TRUE, Respond(r)>> >>
<1>1. Len(checks) = 10 /\ checks[10][1]
  OBVIOUS
<1>2. Decide(Token, r) = FirstThat(checks)
  BY DEF Decide
<1>3. /\ checks[7][2] = 200 /\ checks[10][2] = Respond(r)
      /\ \A i \in 1 .. 10 : i # 7 /\ i # 10 => checks[i][2] \in Codes \ {200}
  BY DEF Codes
<1>9. /\ checks[1][1] = (Token /\ ~Authorized(r)) /\ checks[5][1] = (Expected(r.path) = "")
      /\ checks[9][1] = Manages(r.path) /\ checks[7][1] = (Expected(r.path) = "GET")
  OBVIOUS
<1>4. r.path \in Paths
  BY DEF Request
<1> HIDE DEF checks
<1>5. PICK i \in 1 .. 10 : /\ checks[i][1] /\ FirstThat(checks) = checks[i][2]
                           /\ \A j \in 1 .. 10 : j < i => ~ checks[j][1]
  <2>1. 10 \in Nat \ {0}
    OBVIOUS
  <2> QED
    BY <1>1, <2>1, FirstDecides, Zenon
<1>6. Decide(Token, r) \in Codes /\ (Decide(Token, r) = 200 => i = 7 \/ i = 10)
  <2>1. 200 \in Codes /\ {200, 400, 404} \subseteq Codes
    BY DEF Codes
  <2>2. CASE i = 7 \/ i = 10
    BY <1>2, <1>3, <1>5, <2>1, <2>2, RespondCodes
  <2>3. CASE ~ (i = 7 \/ i = 10)
    BY <1>2, <1>3, <1>5, <2>3
  <2> QED
    BY <2>2, <2>3
<1>7. ASSUME i = 7 \/ i = 10 PROVE Entitled(r)
  <2>0. 1 \in 1 .. 10 /\ 5 \in 1 .. 10 /\ 9 \in 1 .. 10 /\ 1 < i /\ 5 < i /\ (i = 10 => 9 < i)
    BY <1>7
  <2>1. ~ checks[1][1] /\ ~ checks[5][1] /\ (i = 10 => ~ checks[9][1]) /\ (i = 7 => checks[7][1])
    BY <1>5, <2>0, Zenon
  <2>2. /\ (Token => Authorized(r)) /\ Expected(r.path) # ""
        /\ (i = 10 => ~ Manages(r.path)) /\ (i = 7 => Expected(r.path) = "GET")
    BY <1>9, <2>1, Zenon
  <2>3. r.path # "/other" /\ (Token => r.auth = IF r.path \in Anthropic THEN "x-api-key" ELSE "bearer")
    BY <2>2, <1>4 DEF Authorized, Profile, Expected, Discovery, OpenAI, Anthropic
  <2>4. i = 7 => ~ Manages(r.path)
    BY <2>2 DEF Expected, Manages, Management, Discovery
  <2> QED
    BY <1>7, <2>2, <2>3, <2>4 DEF Entitled
<1> QED
  BY <1>6, <1>7

----------------------------------------------------------------------------
(* The inductive invariant.                                                *)

\* What may remain of a mode's start-up.
Remaining(k) ==
    CASE k = "ai" -> { <<"ctx", "logger", "listen", "cap", "go">>, <<"logger", "listen", "cap", "go">>,
                       <<"listen", "cap", "go">>, <<"cap", "go">>, <<"go">> }
      [] k \in {"docker", "http"} -> { <<"logger", "listen", "cap", "go">>, <<"listen", "cap", "go">>,
                                       <<"cap", "go">>, <<"go">> }
      [] k = "kubelet" -> { <<"logger", "listen", "cap", "tls", "go">>, <<"listen", "cap", "tls", "go">>,
                            <<"cap", "tls", "go">>, <<"tls", "go">>, <<"go">> }
      [] k = "k8s" -> { <<"api", "listen", "cap", "tls", "logger", "go">>,
                        <<"listen", "cap", "tls", "logger", "go">>, <<"cap", "tls", "logger", "go">>,
                        <<"tls", "logger", "go">>, <<"logger", "go">>, <<"go">> }
      [] k = "udp" -> { <<"listen", "logger", "go">>, <<"logger", "go">>, <<"go">> }

\* The stack d of deferred closes has this one.
Among(d, what) == \E i \in 1 .. Len(d) : d[i] = what

\* It is deferred by the main goroutine.
Deferred(what) == Among(defers, what)

\* Every connection that was opened is closed.
Settled == \A c \in Conns : conn[c] \in {"none", "closed"}

\* What is open is closed by a deferred call or, until that is registered, by
\* the failing step itself.
OpenIsDeferred ==
    /\ main = "setup" => todo \in Remaining(kind)
    /\ main \in {"start", "config", "mode"} => logger = "none" /\ listener = "none"
    /\ main \in {"start", "config", "mode", "returned"} => defers = <<>>
    /\ logger = "open" => Deferred("logger")
    /\ listener = "open" => Deferred("listener") \/ (main = "setup" /\ Head(todo) \in {"cap", "tls"})

\* Where the main goroutine is, and where the shutdown goroutine can be then.
WatcherFollowsMain ==
    /\ main \in {"start", "config", "mode", "setup", "loop", "read"} => watcher = "none"
    /\ main \in {"serve", "served"} => watcher # "none"
    /\ watcher \in {"closing", "stopped"} => main # "serve"
    /\ finished => main \in {"unwind", "returned"}
    /\ logger = "closed" => main \in {"unwind", "returned"}

\* Unless Shutdown gave up, connections are settled once it has ended, and
\* whoever waited for it finds them settled.
SettledAfterDrain ==
    /\ \A c \in Conns : hand[c].pc # "none" => conn[c] \in {"busy", "closed"}
    /\ watcher = "none" => Settled
    /\ ~timedOut =>
        /\ \A c \in Conns : hand[c].pc # "none" => conn[c] = "busy"
        /\ watcher = "closing" => Settled
        /\ watcher = "stopped" => finished \/ Settled
        /\ main \in {"unwind", "returned"} /\ kind # "docker" /\ ~aborted => Settled

\* Handlers of the AI sensor: a slot while working, the budget from admission on.
SlotsAndBudget ==
    kind = "ai" =>
        /\ slots = {c \in Conns : hand[c].pc \in {"work", "release"}}
        /\ Cardinality(slots) <= WorkSlots
        /\ \A c \in Conns :
             /\ hand[c].pc \in {"work", "release"} => arrived[c] <= MaxRequests
             /\ hand[c].pc \in {"none", "arrive", "work"} => hand[c].code = 0
             /\ hand[c].code = 200 => hand[c].rightly /\ arrived[c] <= MaxRequests

\* The inductive invariant.
Invariant == TypeOK /\ OpenIsDeferred /\ WatcherFollowsMain /\ SettledAfterDrain /\ SlotsAndBudget

----------------------------------------------------------------------------
(* Lemmas about the start-up sequences and the deferred calls.             *)

\* What is closed by a deferred call.
Closes == {"logger", "listener", "finished"}

\* The first step of what remains and what remains after it.
LEMMA Tails ==
  /\ Tail(<<"cap", "go">>) = <<"go">> /\ Head(<<"cap", "go">>) = "cap"
  /\ Tail(<<"logger", "go">>) = <<"go">> /\ Head(<<"logger", "go">>) = "logger"
  /\ Tail(<<"tls", "go">>) = <<"go">> /\ Head(<<"tls", "go">>) = "tls"
  /\ Tail(<<"cap", "tls", "go">>) = <<"tls", "go">> /\ Head(<<"cap", "tls", "go">>) = "cap"
  /\ Tail(<<"listen", "cap", "go">>) = <<"cap", "go">>
  /\ Head(<<"listen", "cap", "go">>) = "listen"
  /\ Tail(<<"listen", "logger", "go">>) = <<"logger", "go">>
  /\ Head(<<"listen", "logger", "go">>) = "listen"
  /\ Tail(<<"tls", "logger", "go">>) = <<"logger", "go">>
  /\ Head(<<"tls", "logger", "go">>) = "tls"
  /\ Tail(<<"cap", "tls", "logger", "go">>) = <<"tls", "logger", "go">>
  /\ Head(<<"cap", "tls", "logger", "go">>) = "cap"
  /\ Tail(<<"listen", "cap", "tls", "go">>) = <<"cap", "tls", "go">>
  /\ Head(<<"listen", "cap", "tls", "go">>) = "listen"
  /\ Tail(<<"logger", "listen", "cap", "go">>) = <<"listen", "cap", "go">>
  /\ Head(<<"logger", "listen", "cap", "go">>) = "logger"
  /\ Tail(<<"ctx", "logger", "listen", "cap", "go">>) = <<"logger", "listen", "cap", "go">>
  /\ Head(<<"ctx", "logger", "listen", "cap", "go">>) = "ctx"
  /\ Tail(<<"listen", "cap", "tls", "logger", "go">>) = <<"cap", "tls", "logger", "go">>
  /\ Head(<<"listen", "cap", "tls", "logger", "go">>) = "listen"
  /\ Tail(<<"logger", "listen", "cap", "tls", "go">>) = <<"listen", "cap", "tls", "go">>
  /\ Head(<<"logger", "listen", "cap", "tls", "go">>) = "logger"
  /\ Tail(<<"api", "listen", "cap", "tls", "logger", "go">>) = <<"listen", "cap", "tls", "logger", "go">>
  /\ Head(<<"api", "listen", "cap", "tls", "logger", "go">>) = "api"
  /\ Head(<<"go">>) = "go"
  OBVIOUS

\* Where a start-up stands after one more step, and what that means for the
\* listener: it is deferred at the last step that can fail with it open.
LEMMA NextPlace ==
  ASSUME NEW k \in AllKinds, NEW t \in Remaining(k), Head(t) # "go"
  PROVE  /\ Tail(t) \in Remaining(k)
         /\ Head(t) \in {"ctx", "api", "listen", "cap", "tls", "logger"}
         /\ Head(t) = "listen" => ListenerDeferredAfter(k) = "listen" \/ Head(Tail(t)) = "cap"
         /\ Head(t) = "cap" => ListenerDeferredAfter(k) = "cap" \/ Head(Tail(t)) = "tls"
         /\ Head(t) = "tls" => ListenerDeferredAfter(k) = "tls"
<1>1. CASE k = "ai"
  BY <1>1, Tails, Zenon DEF Remaining, ListenerDeferredAfter
<1>2. CASE k \in {"docker", "http"}
  BY <1>2, Tails, Zenon DEF Remaining, ListenerDeferredAfter
<1>3. CASE k = "kubelet"
  BY <1>3, Tails, Zenon DEF Remaining, ListenerDeferredAfter
<1>4. CASE k = "k8s"
  BY <1>4, Tails, Zenon DEF Remaining, ListenerDeferredAfter
<1>5. CASE k = "udp"
  BY <1>5, Tails, Zenon DEF Remaining, ListenerDeferredAfter
<1> QED
  BY <1>1, <1>2, <1>3, <1>4, <1>5 DEF AllKinds

\* The start-up steps of all modes.
Steps == {"ctx", "api", "listen", "cap", "tls", "logger", "go"}

\* A start-up begins at a place, which is a sequence of steps.
LEMMA FirstPlace ==
  ASSUME NEW k \in AllKinds
  PROVE  Startup(k) \in Remaining(k) /\ Startup(k) \in Seq(Steps) /\ Head(Startup(k)) \notin {"cap", "tls"}
<1>1. CASE k = "ai"
  BY <1>1 DEF Remaining, Startup, Steps
<1>2. CASE k \in {"docker", "http"}
  <2>1. <<"logger", "listen", "cap", "go">> \in Seq(Steps)
    BY DEF Steps
  <2> QED
    BY <1>2, <2>1, Tails, Zenon DEF Remaining, Startup
<1>3. CASE k = "kubelet"
  BY <1>3 DEF Remaining, Startup, Steps
<1>4. CASE k = "k8s"
  <2>1. <<"api", "listen", "cap", "tls", "logger", "go">> \in Seq(Steps)
    BY DEF Steps
  <2> QED
    BY <1>4, <2>1, Tails, Zenon DEF Remaining, Startup
<1>5. CASE k = "udp"
  BY <1>5 DEF Remaining, Startup, Steps
<1> QED
  BY <1>1, <1>2, <1>3, <1>4, <1>5 DEF AllKinds

\* A deferred call is added in front and takes none away.
LEMMA Pushed ==
  ASSUME NEW d \in Seq(Closes), NEW x \in Closes
  PROVE  /\ <<x>> \o d \in Seq(Closes) /\ <<>> \o d = d
         /\ Among(<<x>> \o d, x) /\ \A y : Among(d, y) => Among(<<x>> \o d, y)
<1>1. <<x>> \o d \in Seq(Closes) /\ Len(<<x>> \o d) = Len(d) + 1 /\ Len(d) \in Nat /\ <<>> \o d = d
  OBVIOUS
<1>2. (<<x>> \o d)[1] = x
  OBVIOUS
<1>3. \A i \in 1 .. Len(d) : (<<x>> \o d)[i + 1] = d[i] /\ i + 1 \in 1 .. Len(<<x>> \o d)
  BY <1>1
<1>4. 1 \in 1 .. Len(<<x>> \o d)
  BY <1>1
<1> QED
  BY <1>1, <1>2, <1>3, <1>4 DEF Among

\* Running the first deferred call leaves the others.
LEMMA Popped ==
  ASSUME NEW d \in Seq(Closes), d # <<>>
  PROVE  /\ Tail(d) \in Seq(Closes) /\ Head(d) \in Closes
         /\ \A y : Among(d, y) => y = Head(d) \/ Among(Tail(d), y)
<1>1. /\ Tail(d) \in Seq(Closes) /\ Head(d) \in Closes /\ Head(d) = d[1]
      /\ Len(d) \in Nat /\ Len(Tail(d)) = Len(d) - 1
  OBVIOUS
<1>2. \A i \in 1 .. Len(d) : i # 1 => Tail(d)[i - 1] = d[i] /\ i - 1 \in 1 .. Len(Tail(d))
  BY <1>1
<1> QED
  BY <1>1, <1>2 DEF Among

----------------------------------------------------------------------------
(* The initial state and the steps of the main goroutine.                  *)

\* A process that has opened nothing satisfies the invariant.
LEMMA InitInvariant == Init => Invariant
<1> SUFFICES ASSUME Init PROVE Invariant
  OBVIOUS
<1>1. TypeOK
  <2>1. /\ Quiet \in [pc : {"none", "arrive", "work", "release", "answer", "event"},
                      code : Codes, rightly : BOOLEAN]
    BY DEF Quiet, Codes
  <2>2. {shutting, finished, timedOut, aborted} \subseteq BOOLEAN
    BY DEF Init
  <2>3. /\ todo \in Seq({"ctx", "api", "listen", "cap", "tls", "logger", "go"})
        /\ defers \in Seq({"logger", "listener", "finished"})
    BY DEF Init
  <2> QED
    BY <2>1, <2>2, <2>3 DEF Init, TypeOK
<1>2. OpenIsDeferred
  BY DEF Init, OpenIsDeferred
<1>3. WatcherFollowsMain
  BY DEF Init, WatcherFollowsMain
<1>4. \A c \in Conns : hand[c].pc = "none" /\ hand[c].code = 0 /\ conn[c] = "none"
  BY DEF Init, Quiet
<1>5. SettledAfterDrain
  BY <1>4 DEF Init, SettledAfterDrain, Settled
<1>6. SlotsAndBudget
  <2>1. Cardinality({}) = 0
    BY FS_EmptySet
  <2>2. slots = {} /\ WorkSlots \in Nat
    BY SensorConstants DEF Init
  <2>3. slots = {c \in Conns : hand[c].pc \in {"work", "release"}}
    BY <1>4, <2>2
  <2> QED
    BY <1>4, <2>1, <2>2, <2>3 DEF SlotsAndBudget
<1> QED
  BY <1>1, <1>2, <1>3, <1>5, <1>6 DEF Invariant

\* What does not touch connections and handlers keeps slots and budget.
LEMMA SlotsKept ==
  ASSUME SlotsAndBudget, UNCHANGED <<kind, hand, arrived, slots>>
  PROVE  SlotsAndBudget'
  BY DEF SlotsAndBudget

\* The signal, the dispatcher and the start-up.
LEMMA StartStep ==
  ASSUME TypeOK, OpenIsDeferred, WatcherFollowsMain, SettledAfterDrain, SlotsAndBudget,
         (Cancel \/ Dispatch \/ SetupStep \/ SetupFails \/ Go)
  PROVE  Invariant'
<1>0. kind \in AllKinds /\ defers \in Seq(Closes) /\ todo \in Seq(Steps)
  BY SensorConstants DEF TypeOK, Closes, Steps
<1>1. CASE Cancel
  <2>1. UNCHANGED <<kind, main, startVars, serverVars, connVars>> /\ ctx' = "cancelled"
    BY <1>1 DEF Cancel
  <2>2. TypeOK'
    BY <2>1 DEF TypeOK, startVars, serverVars, connVars
  <2>3. OpenIsDeferred'
    BY <2>1 DEF OpenIsDeferred, Deferred, startVars
  <2>4. WatcherFollowsMain' /\ SettledAfterDrain'
    BY <2>1 DEF WatcherFollowsMain, SettledAfterDrain, Settled, startVars, serverVars, connVars
  <2> QED
    BY <2>1, <2>2, <2>3, <2>4, SlotsKept DEF Invariant, connVars
<1>2. CASE Dispatch
  <2>1. UNCHANGED <<kind, ctx, defers, logger, listener, serverVars, connVars>>
    BY <1>2 DEF Dispatch
  <2>2. /\ main \in {"start", "config", "mode"}
        /\ \/ main' \in {"config", "mode", "returned"} /\ todo' = todo
           \/ main' = "setup" /\ todo' = Startup(kind)
    BY <1>2 DEF Dispatch
  <2>3. TypeOK'
    <3>1. todo' \in Seq({"ctx", "api", "listen", "cap", "tls", "logger", "go"})
      BY <1>0, <2>2, FirstPlace DEF Steps
    <3> QED
      BY <2>1, <2>2, <3>1 DEF TypeOK, serverVars, connVars
  <2>4. OpenIsDeferred'
    <3>1. logger' = "none" /\ listener' = "none"
      BY <2>1, <2>2 DEF OpenIsDeferred
    <3>2. main' = "setup" => todo' \in Remaining(kind')
      BY <1>0, <2>1, <2>2, FirstPlace, Zenon
    <3>3. defers' = <<>>
      BY <2>1, <2>2 DEF OpenIsDeferred
    <3> QED
      BY <3>1, <3>2, <3>3 DEF OpenIsDeferred
  <2>5. WatcherFollowsMain' /\ SettledAfterDrain'
    BY <2>1, <2>2 DEF WatcherFollowsMain, SettledAfterDrain, Settled, serverVars, connVars
  <2> QED
    BY <2>1, <2>3, <2>4, <2>5, SlotsKept DEF Invariant, connVars
<1>3. CASE SetupStep
  <2>1. /\ main = "setup" /\ todo # <<>> /\ Head(todo) # "go" /\ todo' = Tail(todo)
        /\ UNCHANGED <<kind, ctx, main, serverVars, connVars>>
    BY <1>3 DEF SetupStep
  <2>2. todo \in Remaining(kind)
    BY <2>1 DEF OpenIsDeferred
  <2>3. /\ Tail(todo) \in Remaining(kind) /\ Tail(todo) \in Seq(Steps)
        /\ Head(todo) \in {"ctx", "api", "listen", "cap", "tls", "logger"}
        /\ Head(todo) = "listen" => ListenerDeferredAfter(kind) = "listen" \/ Head(Tail(todo)) = "cap"
        /\ Head(todo) = "cap" => ListenerDeferredAfter(kind) = "cap" \/ Head(Tail(todo)) = "tls"
        /\ Head(todo) = "tls" => ListenerDeferredAfter(kind) = "tls"
    <3>1. Tail(todo) \in Seq(Steps)
      BY <1>0, <2>1
    <3> QED
      BY <1>0, <2>1, <2>2, <3>1, NextPlace, Zenon
  <2>4. /\ logger' = IF Head(todo) = "logger" THEN "open" ELSE logger
        /\ listener' = IF Head(todo) = "listen" THEN "open" ELSE listener
    BY <1>3 DEF SetupStep
  <2>5. /\ defers' \in Seq(Closes)
        /\ \A what : Deferred(what) => Deferred(what)'
        /\ Head(todo) = "logger" => Deferred("logger")'
        /\ Head(todo) = ListenerDeferredAfter(kind) => Deferred("listener")'
    <3> DEFINE mid == (IF Head(todo) = "logger" THEN <<"logger">> ELSE <<>>) \o defers
    <3>1. /\ mid \in Seq(Closes)
          /\ \A what : Deferred(what) => Among(mid, what)
          /\ Head(todo) = "logger" => Among(mid, "logger")
      <4>1. "logger" \in Closes
        BY DEF Closes
      <4> QED
        BY <1>0, <4>1, Pushed, Zenon DEF Deferred
    <3>2. defers' = (IF Head(todo) = ListenerDeferredAfter(kind) THEN <<"listener">> ELSE <<>>) \o mid
      <4>1. \A a, b \in Seq(Closes) : (a \o b) \o defers = a \o (b \o defers)
        BY <1>0
      <4>2. <<"listener">> \in Seq(Closes) /\ <<"logger">> \in Seq(Closes) /\ <<>> \in Seq(Closes)
        BY DEF Closes
      <4> QED
        BY <1>3, <4>1, <4>2 DEF SetupStep
    <3> HIDE DEF mid
    <3>3. "listener" \in Closes
      BY DEF Closes
    <3> QED
      BY <3>1, <3>2, <3>3, Pushed, Zenon DEF Deferred
  <2>6. TypeOK'
    BY <2>1, <2>3, <2>4, <2>5 DEF TypeOK, serverVars, connVars, Steps, Closes
  <2>7. OpenIsDeferred'
    BY <2>1, <2>2, <2>3, <2>4, <2>5 DEF OpenIsDeferred
  <2>8. WatcherFollowsMain' /\ SettledAfterDrain'
    BY <2>1, <2>4 DEF WatcherFollowsMain, SettledAfterDrain, Settled, serverVars, connVars
  <2> QED
    BY <2>1, <2>6, <2>7, <2>8, SlotsKept DEF Invariant, connVars
<1>4. CASE SetupFails
  <2>1. /\ main = "setup" /\ main' = "unwind"
        /\ listener' = IF Head(todo) \in {"cap", "tls"} THEN "closed" ELSE listener
        /\ UNCHANGED <<kind, ctx, todo, defers, logger, serverVars, connVars>>
    BY <1>4 DEF SetupFails
  <2>2. TypeOK'
    BY <2>1 DEF TypeOK, serverVars, connVars
  <2>3. OpenIsDeferred'
    BY <2>1 DEF OpenIsDeferred, Deferred
  <2>4. WatcherFollowsMain' /\ SettledAfterDrain'
    BY <2>1 DEF WatcherFollowsMain, SettledAfterDrain, Settled, serverVars, connVars
  <2> QED
    BY <2>1, <2>2, <2>3, <2>4, SlotsKept DEF Invariant, connVars
<1>5. CASE Go
  <2>1. /\ main = "setup" /\ todo = <<"go">> /\ todo' = <<>>
        /\ main' = IF kind = "udp" THEN "loop" ELSE "serve"
        /\ watcher' = IF kind = "udp" THEN "none" ELSE "waiting"
        /\ UNCHANGED <<kind, ctx, logger, listener, shutting, finished, timedOut, aborted, connVars>>
    BY <1>5 DEF Go
  <2>2. defers' \in Seq(Closes) /\ \A what : Deferred(what) => Deferred(what)'
    <3>1. "finished" \in Closes
      BY DEF Closes
    <3> QED
      BY <1>0, <1>5, <3>1, Pushed, Zenon DEF Go, Deferred
  <2>3. TypeOK'
    BY <2>1, <2>2 DEF TypeOK, connVars, Closes
  <2>4. Head(todo) = "go"
    BY <2>1, Tails
  <2>5. OpenIsDeferred'
    BY <2>1, <2>2, <2>4 DEF OpenIsDeferred
  <2>6. watcher = "none"
    BY <2>1 DEF WatcherFollowsMain
  <2>7. WatcherFollowsMain' /\ SettledAfterDrain'
    BY <2>1, <2>6 DEF WatcherFollowsMain, SettledAfterDrain, Settled, connVars
  <2> QED
    BY <2>1, <2>3, <2>5, <2>7, SlotsKept DEF Invariant, connVars
<1> QED
  BY <1>1, <1>2, <1>3, <1>4, <1>5

\* Serve, the deferred calls and the UDP loop.
LEMMA MainStep ==
  ASSUME TypeOK, OpenIsDeferred, WatcherFollowsMain, SettledAfterDrain, SlotsAndBudget,
         (ServeEnds \/ ServeFails \/ AfterServe \/ Unwind \/ UDPLoop)
  PROVE  Invariant'
<1>0. defers \in Seq(Closes) /\ {shutting, finished, timedOut, aborted} \subseteq BOOLEAN
  BY DEF TypeOK, Closes
<1>1. CASE ServeEnds \/ ServeFails
  <2>1. /\ main = "serve" /\ main' = "served"
        /\ UNCHANGED <<kind, ctx, startVars, serverVars, connVars>>
    BY <1>1 DEF ServeEnds, ServeFails
  <2>2. TypeOK'
    BY <2>1 DEF TypeOK, startVars, serverVars, connVars
  <2>3. OpenIsDeferred'
    BY <2>1 DEF OpenIsDeferred, Deferred, startVars
  <2>4. WatcherFollowsMain' /\ SettledAfterDrain'
    BY <2>1 DEF WatcherFollowsMain, SettledAfterDrain, Settled, startVars, serverVars, connVars
  <2> QED
    BY <2>1, <2>2, <2>3, <2>4, SlotsKept DEF Invariant, connVars
<1>2. CASE AfterServe
  <2>1. /\ main = "served" /\ main' = "unwind"
        /\ kind = "docker" \/ (kind = "ai" /\ ctx = "live") \/ watcher = "stopped"
        /\ aborted' = (kind = "ai" /\ ctx = "live")
        /\ UNCHANGED <<kind, ctx, startVars, shutting, finished, watcher, timedOut, connVars>>
    BY <1>2 DEF AfterServe
  <2>2. TypeOK'
    <3>1. {shutting', finished', timedOut', aborted'} \subseteq BOOLEAN
      BY <1>0, <2>1
    <3> QED
      BY <2>1, <3>1 DEF TypeOK, startVars, connVars
  <2>3. OpenIsDeferred'
    BY <2>1 DEF OpenIsDeferred, Deferred, startVars
  <2>4. WatcherFollowsMain'
    BY <2>1 DEF WatcherFollowsMain, startVars
  <2>5. ~timedOut /\ kind # "docker" /\ ~aborted' => Settled
    BY <2>1 DEF SettledAfterDrain, WatcherFollowsMain
  <2>6. SettledAfterDrain'
    BY <2>1, <2>5 DEF SettledAfterDrain, Settled, connVars
  <2> QED
    BY <2>1, <2>2, <2>3, <2>4, <2>6, SlotsKept DEF Invariant, connVars
<1>3. CASE Unwind
  <2>1. /\ main = "unwind" /\ main' = IF defers = <<>> THEN "returned" ELSE "unwind"
        /\ defers' = IF defers = <<>> THEN <<>> ELSE Tail(defers)
        /\ UNCHANGED <<kind, ctx, todo, shutting, watcher, timedOut, aborted, connVars>>
    BY <1>3 DEF Unwind
  <2>2. CASE defers = <<>>
    <3>1. finished' = finished /\ listener' = listener /\ logger' = logger
      BY <1>0, <1>3, <2>2 DEF Unwind
    <3>2. main' = "returned" /\ defers' = defers
      BY <2>1, <2>2
    <3>3. TypeOK'
      BY <2>1, <3>1, <3>2 DEF TypeOK, connVars
    <3>4. OpenIsDeferred'
      BY <2>1, <2>2, <3>1, <3>2 DEF OpenIsDeferred, Deferred
    <3>5. WatcherFollowsMain' /\ SettledAfterDrain'
      BY <2>1, <3>1, <3>2 DEF WatcherFollowsMain, SettledAfterDrain, Settled, connVars
    <3> QED
      BY <2>1, <3>3, <3>4, <3>5, SlotsKept DEF Invariant, connVars
  <2>3. CASE defers # <<>>
    <3>1. /\ finished' = (finished \/ Head(defers) = "finished")
          /\ listener' = IF Head(defers) = "listener" THEN "closed" ELSE listener
          /\ logger' = IF Head(defers) = "logger" THEN "closed" ELSE logger
          /\ main' = "unwind" /\ defers' = Tail(defers)
      BY <1>3, <2>1, <2>3 DEF Unwind
    <3>2. /\ defers' \in Seq(Closes)
          /\ \A y : Deferred(y) => y = Head(defers) \/ Deferred(y)'
      BY <1>0, <2>3, <3>1, Popped, Zenon DEF Deferred
    <3>3. TypeOK'
      <4>1. {shutting', finished', timedOut', aborted'} \subseteq BOOLEAN
        BY <1>0, <2>1, <3>1
      <4> QED
        BY <2>1, <3>1, <3>2, <4>1 DEF TypeOK, connVars, Closes
    <3>4. OpenIsDeferred'
      BY <2>1, <3>1, <3>2 DEF OpenIsDeferred
    <3>5. WatcherFollowsMain'
      BY <2>1, <3>1 DEF WatcherFollowsMain
    <3>6. SettledAfterDrain'
      BY <2>1, <3>1 DEF SettledAfterDrain, Settled, connVars
    <3> QED
      BY <2>1, <3>3, <3>4, <3>5, <3>6, SlotsKept DEF Invariant, connVars
  <2> QED
    BY <2>2, <2>3
<1>4. CASE UDPLoop
  <2>1. /\ main \in {"loop", "read"} /\ main' \in {"loop", "read", "unwind"}
        /\ UNCHANGED <<kind, ctx, startVars, serverVars, connVars>>
    BY <1>4 DEF UDPLoop
  <2>2. TypeOK'
    BY <2>1 DEF TypeOK, startVars, serverVars, connVars
  <2>3. OpenIsDeferred'
    BY <2>1 DEF OpenIsDeferred, Deferred, startVars
  <2>4. WatcherFollowsMain' /\ SettledAfterDrain'
    BY <2>1 DEF WatcherFollowsMain, SettledAfterDrain, Settled, startVars, serverVars, connVars
  <2> QED
    BY <2>1, <2>2, <2>3, <2>4, SlotsKept DEF Invariant, connVars
<1> QED
  BY <1>1, <1>2, <1>3, <1>4

----------------------------------------------------------------------------
(* The steps of the shutdown goroutine.                                    *)

\* Shutdown and Close of the server.
LEMMA WatcherStep ==
  ASSUME TypeOK, OpenIsDeferred, WatcherFollowsMain, SettledAfterDrain, SlotsAndBudget, Watcher
  PROVE  Invariant'
<1>0. /\ {shutting, finished, timedOut, aborted} \subseteq BOOLEAN
      /\ conn \in [Conns -> {"none", "fresh", "busy", "idle", "closed"}]
  BY DEF TypeOK
<1>1. CASE WatcherWakes
  <2>1. UNCHANGED <<kind, ctx, main, todo, defers, logger, finished, timedOut, aborted, connVars>>
    BY <1>1 DEF WatcherWakes
  <2>2. /\ watcher = "waiting" /\ listener' \in {"closed", listener}
        /\ watcher' = "draining" \/ (watcher' = "stopped" /\ finished)
        /\ shutting' \in {TRUE, shutting}
    BY <1>1 DEF WatcherWakes
  <2>3. TypeOK'
    <3>1. {shutting', finished', timedOut', aborted'} \subseteq BOOLEAN
      BY <1>0, <2>1, <2>2, Zenon
    <3> QED
      BY <2>1, <2>2, <3>1 DEF TypeOK, connVars
  <2>4. OpenIsDeferred'
    BY <2>1, <2>2 DEF OpenIsDeferred, Deferred, WatcherFollowsMain
  <2>5. WatcherFollowsMain' /\ SettledAfterDrain'
    BY <2>1, <2>2 DEF WatcherFollowsMain, SettledAfterDrain, Settled, connVars
  <2> QED
    BY <2>1, <2>3, <2>4, <2>5, SlotsKept DEF Invariant, connVars
<1>2. CASE Drained \/ DrainTimesOut
  <2>1. /\ watcher = "draining" /\ main # "serve" /\ watcher' \in {"closing", "stopped"}
        /\ conn' = [c \in Conns |-> IF conn[c] = "idle" THEN "closed" ELSE conn[c]]
        /\ UNCHANGED <<kind, ctx, main, startVars, shutting, finished, aborted, hand, arrived, slots>>
    BY <1>2 DEF Drained, DrainTimesOut
  <2>2. timedOut' = TRUE \/ (timedOut' = timedOut /\ \A c \in Conns : conn[c] \notin {"fresh", "busy"})
    BY <1>2 DEF Drained, DrainTimesOut
  <2>3. \A c \in Conns : /\ conn'[c] \in {"none", "fresh", "busy", "closed"}
                          /\ conn'[c] \in {conn[c], "closed"} /\ (conn[c] # "idle" => conn'[c] = conn[c])
    BY <1>0, <2>1
  <2>4. TypeOK'
    <3>1. conn' \in [Conns -> {"none", "fresh", "busy", "idle", "closed"}]
      BY <1>0, <2>1
    <3>2. {shutting', finished', timedOut', aborted'} \subseteq BOOLEAN
      BY <1>0, <2>1, <2>2, Zenon
    <3> QED
      BY <2>1, <3>1, <3>2 DEF TypeOK, startVars
  <2>5. OpenIsDeferred'
    BY <2>1 DEF OpenIsDeferred, Deferred, startVars
  <2>6. WatcherFollowsMain'
    BY <2>1 DEF WatcherFollowsMain, startVars
  <2>7. \A c \in Conns : hand[c].pc # "none" => conn'[c] \in {"busy", "closed"}
    BY <2>3 DEF SettledAfterDrain
  <2>8. ~timedOut' => Settled' /\ (\A c \in Conns : hand[c].pc = "none")
    BY <2>2, <2>3 DEF SettledAfterDrain, Settled
  <2>9. SettledAfterDrain'
    BY <2>1, <2>7, <2>8 DEF SettledAfterDrain
  <2> QED
    BY <2>1, <2>4, <2>5, <2>6, <2>9, SlotsKept DEF Invariant
<1>3. CASE CloseServer
  <2>1. /\ watcher = "closing" /\ watcher' = "stopped"
        /\ conn' = [c \in Conns |-> IF conn[c] = "none" THEN "none" ELSE "closed"]
        /\ UNCHANGED <<kind, ctx, main, startVars, shutting, finished, timedOut, aborted, hand, arrived, slots>>
    BY <1>3 DEF CloseServer
  <2>2. conn' \in [Conns -> {"none", "fresh", "busy", "idle", "closed"}] /\ Settled'
    BY <2>1 DEF Settled
  <2>3. TypeOK'
    BY <2>1, <2>2 DEF TypeOK, startVars
  <2>4. OpenIsDeferred'
    BY <2>1 DEF OpenIsDeferred, Deferred, startVars
  <2>5. WatcherFollowsMain'
    BY <2>1 DEF WatcherFollowsMain, startVars
  <2>6. \A c \in Conns : hand[c].pc # "none" => conn'[c] = "closed"
    BY <2>1 DEF SettledAfterDrain
  <2>7. ~timedOut => \A c \in Conns : hand[c].pc = "none"
    BY <2>1 DEF SettledAfterDrain, Settled
  <2>8. SettledAfterDrain'
    BY <2>1, <2>2, <2>6, <2>7 DEF SettledAfterDrain
  <2> QED
    BY <2>1, <2>3, <2>4, <2>5, <2>8, SlotsKept DEF Invariant
<1> QED
  BY <1>1, <1>2, <1>3 DEF Watcher

----------------------------------------------------------------------------
(* The steps of connections and handlers.                                  *)

\* The states of a handler.
HandlerStates == [pc : {"none", "arrive", "work", "release", "answer", "event"},
            code : Codes, rightly : BOOLEAN]

\* A step of one connection that leaves the goroutines of the server alone
\* keeps what is said of them.
LEMMA ServerKept ==
  ASSUME TypeOK, OpenIsDeferred, WatcherFollowsMain,
         UNCHANGED <<kind, ctx, main, startVars, serverVars>>,
         conn' \in [Conns -> {"none", "fresh", "busy", "idle", "closed"}],
         hand' \in [Conns -> HandlerStates], arrived' \in [Conns -> Nat], slots' \subseteq Conns
  PROVE  TypeOK' /\ OpenIsDeferred' /\ WatcherFollowsMain'
<1>1. TypeOK'
  BY DEF TypeOK, startVars, serverVars, HandlerStates
<1>2. OpenIsDeferred' /\ WatcherFollowsMain'
  BY DEF OpenIsDeferred, Deferred, WatcherFollowsMain, startVars, serverVars
<1> QED
  BY <1>1, <1>2

\* A connection changes and the others do not: what Shutdown relies on is kept if
\* the connection is not opened again and its handler stays on a busy connection.
LEMMA DrainKept ==
  ASSUME SettledAfterDrain, UNCHANGED <<kind, main, serverVars>>, NEW c \in Conns,
         \A d \in Conns : d # c => conn'[d] = conn[d] /\ hand'[d] = hand[d],
         \/ conn[c] \in {"none", "closed"} => conn'[c] \in {"none", "closed"}
         \/ main = "serve" /\ watcher \notin {"none", "closing", "stopped"},
         hand'[c].pc # "none" => conn'[c] \in {"busy", "closed"},
         ~timedOut /\ hand'[c].pc # "none" => conn'[c] = "busy"
  PROVE  SettledAfterDrain'
<1>1. CASE conn[c] \in {"none", "closed"} => conn'[c] \in {"none", "closed"}
  <2>1. Settled => Settled'
    BY <1>1 DEF Settled
  <2> QED
    BY <2>1 DEF SettledAfterDrain, serverVars
<1>2. CASE main = "serve" /\ watcher \notin {"none", "closing", "stopped"}
  BY <1>2 DEF SettledAfterDrain, serverVars
<1> QED
  BY <1>1, <1>2

\* Clients open connections, send requests and hang up.
LEMMA ClientStep ==
  ASSUME TypeOK, OpenIsDeferred, WatcherFollowsMain, SettledAfterDrain, SlotsAndBudget,
         NEW c \in Conns, Client(c)
  PROVE  Invariant'
<1>0. /\ conn \in [Conns -> {"none", "fresh", "busy", "idle", "closed"}]
      /\ hand \in [Conns -> HandlerStates] /\ arrived \in [Conns -> Nat] /\ slots \subseteq Conns
  BY DEF TypeOK, HandlerStates
<1>1. CASE Accept(c)
  <2>1. /\ main = "serve" /\ conn[c] = "none" /\ conn' = [conn EXCEPT ![c] = "fresh"]
        /\ UNCHANGED <<kind, ctx, main, startVars, serverVars, hand, arrived, slots>>
    BY <1>1 DEF Accept
  <2>2. conn' \in [Conns -> {"none", "fresh", "busy", "idle", "closed"}]
    BY <1>0, <2>1
  <2>3. hand[c].pc = "none" /\ watcher \notin {"none", "closing", "stopped"}
    BY <2>1 DEF SettledAfterDrain, WatcherFollowsMain
  <2>4. TypeOK' /\ OpenIsDeferred' /\ WatcherFollowsMain'
    BY <1>0, <2>1, <2>2, ServerKept
  <2>5. SettledAfterDrain'
    BY <1>0, <2>1, <2>3, DrainKept
  <2> QED
    BY <2>1, <2>4, <2>5, SlotsKept DEF Invariant
<1>2. CASE Arrive(c)
  <2>1. /\ conn[c] \in {"fresh", "idle"} /\ conn' = [conn EXCEPT ![c] = "busy"]
        /\ hand' = [hand EXCEPT ![c] = [Quiet EXCEPT !.pc = "arrive"]]
        /\ arrived' = [arrived EXCEPT ![c] = arrived[c] + 1]
        /\ UNCHANGED <<kind, ctx, main, startVars, serverVars, slots>>
    BY <1>2 DEF Arrive
  <2>2. [Quiet EXCEPT !.pc = "arrive"] \in HandlerStates
    <3>1. 0 \in Codes
      BY DEF Codes
    <3> QED
      BY <3>1 DEF Quiet, HandlerStates
  <2>3. [Quiet EXCEPT !.pc = "arrive"].pc = "arrive" /\ [Quiet EXCEPT !.pc = "arrive"].code = 0
    BY DEF Quiet
  <2>4. /\ hand' \in [Conns -> HandlerStates] /\ arrived' \in [Conns -> Nat]
        /\ conn' \in [Conns -> {"none", "fresh", "busy", "idle", "closed"}]
        /\ hand'[c].pc = "arrive" /\ hand'[c].code = 0 /\ conn'[c] = "busy"
        /\ \A d \in Conns : d # c => conn'[d] = conn[d] /\ hand'[d] = hand[d] /\ arrived'[d] = arrived[d]
    BY <1>0, <2>1, <2>2, <2>3
  <2>5. TypeOK' /\ OpenIsDeferred' /\ WatcherFollowsMain'
    BY <1>0, <2>1, <2>4, ServerKept
  <2>6. SettledAfterDrain'
    BY <2>1, <2>4, DrainKept
  <2>7. hand[c].pc = "none"
    BY <2>1 DEF SettledAfterDrain
  <2>8. SlotsAndBudget'
    <3> SUFFICES ASSUME kind = "ai" PROVE SlotsAndBudget'
      BY <2>1 DEF SlotsAndBudget
    <3>1. slots' = {d \in Conns : hand'[d].pc \in {"work", "release"}}
      BY <2>1, <2>4, <2>7 DEF SlotsAndBudget
    <3> QED
      BY <2>1, <2>4, <3>1 DEF SlotsAndBudget
  <2> QED
    BY <2>5, <2>6, <2>8 DEF Invariant
<1>3. CASE HangUp(c)
  <2>1. /\ conn[c] \in {"fresh", "idle"} /\ conn' = [conn EXCEPT ![c] = "closed"]
        /\ UNCHANGED <<kind, ctx, main, startVars, serverVars, hand, arrived, slots>>
    BY <1>3 DEF HangUp
  <2>2. conn' \in [Conns -> {"none", "fresh", "busy", "idle", "closed"}]
    BY <1>0, <2>1
  <2>3. hand[c].pc = "none"
    BY <2>1 DEF SettledAfterDrain
  <2>4. TypeOK' /\ OpenIsDeferred' /\ WatcherFollowsMain'
    BY <1>0, <2>1, <2>2, ServerKept
  <2>5. SettledAfterDrain'
    BY <1>0, <2>1, <2>3, DrainKept
  <2> QED
    BY <2>1, <2>4, <2>5, SlotsKept DEF Invariant
<1> QED
  BY <1>1, <1>2, <1>3 DEF Client

\* A handler moves on: its code is set, whether a 200 is right stays as it was.
LEMMA Turned ==
  ASSUME hand \in [Conns -> HandlerStates], NEW c \in Conns,
         NEW p \in {"none", "arrive", "work", "release", "answer", "event"}, NEW n \in Codes, Turn(c, p, n)
  PROVE  /\ hand' \in [Conns -> HandlerStates]
         /\ hand'[c].pc = p /\ hand'[c].code = n /\ hand'[c].rightly = hand[c].rightly
         /\ \A d \in Conns : d # c => hand'[d] = hand[d]
<1>1. hand[c] \in HandlerStates
  OBVIOUS
<1>2. [[hand[c] EXCEPT !.pc = p] EXCEPT !.code = n] \in HandlerStates
  BY <1>1 DEF HandlerStates
<1>3. hand' = [hand EXCEPT ![c] = [[hand[c] EXCEPT !.pc = p] EXCEPT !.code = n]]
  BY DEF Turn
<1> QED
  BY <1>1, <1>2, <1>3 DEF HandlerStates

\* Admission to the AI sensor, as Admit decides it.
FirstRefusal(spent, long, gone, full) ==
    FirstThat(<< <<spent, 429>>, <<long, 414>>, <<gone, 408>>, <<full, 503>>, <<TRUE, 0>> >>)

\* The code with which the AI sensor refuses, and what holds if it does not.
LEMMA Refusal ==
  ASSUME NEW spent, NEW long, NEW gone, NEW full
  PROVE  /\ FirstRefusal(spent, long, gone, full) \in {429, 414, 408, 503, 0}
         /\ FirstRefusal(spent, long, gone, full) = 0 => ~spent /\ ~full
<1> DEFINE checks == << <<spent, 429>>, <<long, 414>>, <<gone, 408>>, <<full, 503>>, <<TRUE, 0>> >>
<1>1. Len(checks) = 5 /\ checks[5][1] /\ 5 \in Nat \ {0}
  OBVIOUS
<1>2. /\ \A i \in 1 .. 5 : checks[i][2] \in {429, 414, 408, 503, 0} /\ (checks[i][2] = 0 => i = 5)
  OBVIOUS
<1>3. checks[1][1] = spent /\ checks[4][1] = full
  OBVIOUS
<1> HIDE DEF checks
<1>4. PICK i \in 1 .. 5 : /\ checks[i][1] /\ FirstThat(checks) = checks[i][2]
                          /\ \A j \in 1 .. 5 : j < i => ~ checks[j][1]
  BY <1>1, FirstDecides, Zenon
<1>5. ASSUME FirstThat(checks) = 0 PROVE ~spent /\ ~full
  <2>0. checks[i][2] = 0
    BY <1>4, <1>5, Zenon
  <2>1. 1 \in 1 .. 5 /\ 4 \in 1 .. 5 /\ 1 < i /\ 4 < i
    BY <1>2, <2>0
  <2> QED
    BY <1>3, <1>4, <2>1, Zenon
<1>6. FirstThat(checks) \in {429, 414, 408, 503, 0}
  BY <1>2, <1>4
<1>7. FirstRefusal(spent, long, gone, full) = FirstThat(checks)
  BY Zenon DEF checks, FirstRefusal
<1>8. FirstRefusal(spent, long, gone, full) \in {429, 414, 408, 503, 0}
  BY <1>6, <1>7
<1>9. FirstRefusal(spent, long, gone, full) = 0 => ~spent /\ ~full
  BY <1>5, <1>7, Zenon
<1> QED
  BY <1>8, <1>9

\* What a handler does, from admission to the recorded event.
LEMMA HandlerStep ==
  ASSUME TypeOK, OpenIsDeferred, WatcherFollowsMain, SettledAfterDrain, SlotsAndBudget,
         NEW c \in Conns, Handler(c)
  PROVE  Invariant'
<1>0. /\ conn \in [Conns -> {"none", "fresh", "busy", "idle", "closed"}]
      /\ hand \in [Conns -> HandlerStates] /\ arrived \in [Conns -> Nat] /\ slots \subseteq Conns
      /\ WorkSlots \in Nat /\ MaxRequests \in Nat /\ IsFiniteSet(Conns)
      /\ IsFiniteSet(slots) /\ Cardinality(slots) \in Nat
  <2>1. IsFiniteSet(slots)
    BY SensorConstants, FS_Subset DEF TypeOK
  <2>2. Cardinality(slots) \in Nat
    BY <2>1, FS_CardinalityType
  <2> QED
    BY <2>1, <2>2, SensorConstants DEF TypeOK, HandlerStates
<1>1. CASE Admit(c)
  <2>1. /\ kind = "ai" /\ hand[c].pc = "arrive"
        /\ UNCHANGED <<kind, ctx, main, startVars, serverVars, conn, arrived>>
    BY <1>1 DEF Admit
  <2>2. PICK code \in {429, 414, 408, 503, 0} :
          /\ Turn(c, IF code = 0 THEN "work" ELSE "answer", code)
          /\ slots' = IF code = 0 THEN slots \cup {c} ELSE slots
          /\ code = 0 => ~ (arrived[c] > MaxRequests) /\ ~ (Cardinality(slots) >= WorkSlots)
    <3>1. PICK expired, long, gone \in BOOLEAN :
            LET code == FirstRefusal(arrived[c] > MaxRequests \/ expired, long,
                               gone \/ ctx = "cancelled", Cardinality(slots) >= WorkSlots)
            IN /\ Turn(c, IF code = 0 THEN "work" ELSE "answer", code)
               /\ slots' = IF code = 0 THEN slots \cup {c} ELSE slots
      BY <1>1, Zenon DEF Admit, FirstRefusal
    <3> DEFINE spent == arrived[c] > MaxRequests \/ expired
               over == gone \/ ctx = "cancelled"
               full == Cardinality(slots) >= WorkSlots
               code == FirstRefusal(spent, long, over, full)
    <3>2. /\ Turn(c, IF code = 0 THEN "work" ELSE "answer", code)
          /\ slots' = IF code = 0 THEN slots \cup {c} ELSE slots
      BY <3>1, Zenon
    <3>3. code \in {429, 414, 408, 503, 0} /\ (code = 0 => ~ spent /\ ~ full)
      <4> HIDE DEF spent, over, full
      <4> QED
        BY Refusal
    <3> HIDE DEF code
    <3>4. code = 0 => ~ (arrived[c] > MaxRequests) /\ ~ (Cardinality(slots) >= WorkSlots)
      BY <3>3, Zenon
    <3>5. code \in {429, 414, 408, 503, 0}
      BY <3>3, Zenon
    <3> WITNESS code \in {429, 414, 408, 503, 0}
    <3> QED
      BY <3>2, <3>4, Zenon
  <2>3. /\ hand' \in [Conns -> HandlerStates]
        /\ hand'[c].pc = (IF code = 0 THEN "work" ELSE "answer") /\ hand'[c].code = code
        /\ \A d \in Conns : d # c => hand'[d] = hand[d]
    <3> DEFINE p == IF code = 0 THEN "work" ELSE "answer"
    <3>1. code \in Codes /\ p \in {"none", "arrive", "work", "release", "answer", "event"} /\ Turn(c, p, code)
      BY <2>2 DEF Codes
    <3> HIDE DEF p
    <3>2. /\ hand' \in [Conns -> HandlerStates] /\ hand'[c].pc = p /\ hand'[c].code = code
          /\ \A d \in Conns : d # c => hand'[d] = hand[d]
      BY <1>0, <3>1, Turned
    <3> QED
      BY <3>2 DEF p
  <2>4. conn[c] \in {"busy", "closed"} /\ (~timedOut => conn[c] = "busy")
    BY <2>1 DEF SettledAfterDrain
  <2>5. TypeOK' /\ OpenIsDeferred' /\ WatcherFollowsMain'
    BY <1>0, <2>1, <2>2, <2>3, ServerKept
  <2>6. SettledAfterDrain'
    BY <2>1, <2>3, <2>4, DrainKept
  <2>7. SlotsAndBudget'
    <3>1. slots' = {d \in Conns : hand'[d].pc \in {"work", "release"}}
      BY <2>1, <2>2, <2>3 DEF SlotsAndBudget
    <3>2. Cardinality(slots') <= WorkSlots
      <4>1. CASE code = 0
        <5>1. Cardinality(slots \cup {c}) = IF c \in slots THEN Cardinality(slots) ELSE Cardinality(slots) + 1
          <6>1. IsFiniteSet(slots)
            BY <1>0
          <6> QED
            BY <6>1, FS_AddElement
        <5> QED
          BY <1>0, <2>2, <4>1, <5>1
      <4>2. CASE code # 0
        BY <2>1, <2>2, <4>2 DEF SlotsAndBudget
      <4> QED
        BY <4>1, <4>2
    <3> QED
      BY <1>0, <2>1, <2>2, <2>3, <3>1, <3>2 DEF SlotsAndBudget
  <2> QED
    BY <2>5, <2>6, <2>7 DEF Invariant
<1>2. CASE Work(c)
  <2>1. /\ hand[c].pc = "work"
        /\ UNCHANGED <<kind, ctx, main, startVars, serverVars, conn, arrived, slots>>
    BY <1>2 DEF Work
  <2>2. PICK r \in Requests :
          hand' = [hand EXCEPT ![c] = [pc |-> "release", code |-> Decide(Token, r), rightly |-> Entitled(r)]]
    BY <1>2 DEF Work, Entitled
  <2>3. Decide(Token, r) \in Codes /\ (Decide(Token, r) = 200 => Entitled(r)) /\ Entitled(r) \in BOOLEAN
    BY SensorConstants, Decision DEF Entitled
  <2>4. /\ hand' \in [Conns -> HandlerStates]
        /\ hand'[c].pc = "release" /\ (hand'[c].code = 200 => hand'[c].rightly)
        /\ \A d \in Conns : d # c => hand'[d] = hand[d]
    BY <1>0, <2>2, <2>3 DEF HandlerStates
  <2>5. conn[c] \in {"busy", "closed"} /\ (~timedOut => conn[c] = "busy")
    BY <2>1 DEF SettledAfterDrain
  <2>6. TypeOK' /\ OpenIsDeferred' /\ WatcherFollowsMain'
    BY <1>0, <2>1, <2>4, ServerKept
  <2>7. SettledAfterDrain'
    BY <2>1, <2>4, <2>5, DrainKept
  <2>8. SlotsAndBudget'
    BY <1>0, <2>1, <2>4 DEF SlotsAndBudget
  <2> QED
    BY <2>6, <2>7, <2>8 DEF Invariant
<1>3. CASE Release(c)
  <2>1. /\ hand[c].pc = "release" /\ slots' = slots \ {c} /\ Turn(c, "answer", hand[c].code)
        /\ UNCHANGED <<kind, ctx, main, startVars, serverVars, conn, arrived>>
    BY <1>3 DEF Release
  <2>2. /\ hand' \in [Conns -> HandlerStates]
        /\ hand'[c].pc = "answer" /\ hand'[c].code = hand[c].code /\ hand'[c].rightly = hand[c].rightly
        /\ \A d \in Conns : d # c => hand'[d] = hand[d]
    <3>1. hand[c].code \in Codes
      BY <1>0 DEF HandlerStates
    <3> QED
      BY <1>0, <2>1, <3>1, Turned
  <2>3. conn[c] \in {"busy", "closed"} /\ (~timedOut => conn[c] = "busy")
    BY <2>1 DEF SettledAfterDrain
  <2>4. TypeOK' /\ OpenIsDeferred' /\ WatcherFollowsMain'
    BY <1>0, <2>1, <2>2, ServerKept
  <2>5. SettledAfterDrain'
    BY <2>1, <2>2, <2>3, DrainKept
  <2>6. SlotsAndBudget'
    <3> SUFFICES ASSUME kind = "ai" PROVE SlotsAndBudget'
      BY <2>1 DEF SlotsAndBudget
    <3>1. slots' = {d \in Conns : hand'[d].pc \in {"work", "release"}}
      BY <2>1, <2>2 DEF SlotsAndBudget
    <3>2. Cardinality(slots') <= WorkSlots
      <4>1. Cardinality(slots') <= Cardinality(slots) /\ Cardinality(slots') \in Nat
        <5>1. slots' \subseteq slots
          BY <2>1
        <5> QED
          BY <1>0, <5>1, FS_Subset, FS_CardinalityType
      <4> QED
        BY <1>0, <4>1 DEF SlotsAndBudget
    <3> QED
      BY <2>1, <2>2, <3>1, <3>2 DEF SlotsAndBudget
  <2> QED
    BY <2>4, <2>5, <2>6 DEF Invariant
<1>4. CASE Handle(c)
  <2>1. /\ kind # "ai" /\ hand[c].pc = "arrive"
        /\ UNCHANGED <<kind, ctx, main, startVars, serverVars, conn, arrived, slots>>
    BY <1>4 DEF Handle
  <2>2. PICK code \in {200, 400, 404} : Turn(c, "answer", code)
    BY <1>4 DEF Handle
  <2>3. hand' \in [Conns -> HandlerStates] /\ \A d \in Conns : d # c => hand'[d] = hand[d]
    <3>1. code \in Codes
      BY DEF Codes
    <3> QED
      BY <1>0, <2>2, <3>1, Turned
  <2>4. conn[c] \in {"busy", "closed"} /\ (~timedOut => conn[c] = "busy")
    BY <2>1 DEF SettledAfterDrain
  <2>5. TypeOK' /\ OpenIsDeferred' /\ WatcherFollowsMain'
    BY <1>0, <2>1, <2>3, ServerKept
  <2>6. SettledAfterDrain'
    BY <2>1, <2>3, <2>4, DrainKept
  <2>7. SlotsAndBudget'
    BY <2>1 DEF SlotsAndBudget
  <2> QED
    BY <2>5, <2>6, <2>7 DEF Invariant
<1>5. CASE Answer(c)
  <2>1. PICK code \in {hand[c].code, 500} :
          /\ hand[c].pc = "answer" /\ Turn(c, "event", code)
          /\ UNCHANGED <<kind, ctx, main, startVars, serverVars, conn, arrived, slots>>
    BY <1>5 DEF Answer
  <2>2. /\ hand' \in [Conns -> HandlerStates]
        /\ hand'[c].pc = "event" /\ hand'[c].code = code /\ hand'[c].rightly = hand[c].rightly
        /\ \A d \in Conns : d # c => hand'[d] = hand[d]
    <3>1. code \in Codes
      BY <1>0, <2>1 DEF HandlerStates, Codes
    <3> QED
      BY <1>0, <2>1, <3>1, Turned
  <2>3. conn[c] \in {"busy", "closed"} /\ (~timedOut => conn[c] = "busy")
    BY <2>1 DEF SettledAfterDrain
  <2>4. TypeOK' /\ OpenIsDeferred' /\ WatcherFollowsMain'
    BY <1>0, <2>1, <2>2, ServerKept
  <2>5. SettledAfterDrain'
    BY <2>1, <2>2, <2>3, DrainKept
  <2>6. SlotsAndBudget'
    BY <2>1, <2>2 DEF SlotsAndBudget
  <2> QED
    BY <2>4, <2>5, <2>6 DEF Invariant
<1>6. CASE Record(c)
  <2>1. /\ hand[c].pc = "event" /\ hand' = [hand EXCEPT ![c] = Quiet]
        /\ conn' = [conn EXCEPT ![c] = IF shutting \/ conn[c] = "closed" \/ hand[c].code = 429
                                         THEN "closed" ELSE "idle"]
        /\ UNCHANGED <<kind, ctx, main, startVars, serverVars, arrived, slots>>
    BY <1>6 DEF Record
  <2>2. Quiet \in HandlerStates /\ Quiet.pc = "none" /\ Quiet.code = 0
    BY DEF Quiet, HandlerStates, Codes
  <2>3. /\ hand' \in [Conns -> HandlerStates] /\ hand'[c].pc = "none" /\ hand'[c].code = 0
        /\ conn' \in [Conns -> {"none", "fresh", "busy", "idle", "closed"}]
        /\ conn[c] = "closed" => conn'[c] = "closed"
        /\ \A d \in Conns : d # c => hand'[d] = hand[d] /\ conn'[d] = conn[d]
    BY <1>0, <2>1, <2>2
  <2>4. conn[c] \in {"busy", "closed"}
    BY <2>1 DEF SettledAfterDrain
  <2>5. TypeOK' /\ OpenIsDeferred' /\ WatcherFollowsMain'
    BY <1>0, <2>1, <2>3, ServerKept
  <2>6. SettledAfterDrain'
    BY <2>1, <2>3, <2>4, DrainKept
  <2>7. SlotsAndBudget'
    BY <2>1, <2>3 DEF SlotsAndBudget
  <2> QED
    BY <2>5, <2>6, <2>7 DEF Invariant
<1> QED
  BY <1>1, <1>2, <1>3, <1>4, <1>5, <1>6 DEF Handler

----------------------------------------------------------------------------

\* Invariant is inductive.
THEOREM Inductive == Spec => []Invariant
<1>1. Invariant /\ [Next]_vars => Invariant'
  <2> SUFFICES ASSUME Invariant, [Next]_vars PROVE Invariant'
    OBVIOUS
  <2>0. TypeOK /\ OpenIsDeferred /\ WatcherFollowsMain /\ SettledAfterDrain /\ SlotsAndBudget
    BY DEF Invariant
  <2>1. CASE Cancel \/ Dispatch \/ SetupStep \/ SetupFails \/ Go
    BY <2>0, <2>1, StartStep
  <2>2. CASE ServeEnds \/ ServeFails \/ AfterServe \/ Unwind \/ UDPLoop
    BY <2>0, <2>2, MainStep
  <2>3. CASE Watcher
    BY <2>0, <2>3, WatcherStep
  <2>4. ASSUME NEW c \in Conns, Client(c) PROVE Invariant'
    BY <2>0, <2>4, ClientStep
  <2>5. ASSUME NEW c \in Conns, Handler(c) PROVE Invariant'
    BY <2>0, <2>5, HandlerStep
  <2>6. CASE UNCHANGED vars
    <3>1. TypeOK' /\ OpenIsDeferred'
      BY <2>0, <2>6 DEF vars, TypeOK, OpenIsDeferred, Deferred
    <3>2. WatcherFollowsMain' /\ SettledAfterDrain' /\ SlotsAndBudget'
      BY <2>0, <2>6 DEF vars, WatcherFollowsMain, SettledAfterDrain, Settled, SlotsAndBudget
    <3> QED
      BY <3>1, <3>2 DEF Invariant
  <2> QED
    BY <2>1, <2>2, <2>3, <2>4, <2>5, <2>6 DEF Next, Main
<1> QED
  BY <1>1, InitInvariant, PTL DEF Spec

\* The shape of the state, for every set of modes and connections.
THEOREM TypeCorrect == Spec => []TypeOK
<1>1. Invariant => TypeOK
  BY DEF Invariant
<1> QED
  BY <1>1, Inductive, PTL

\* However a start-up fails and however a sensor stops, its listener and its
\* event logger are not left open.
THEOREM AllClosed == Spec => []NothingLeftOpen
<1>1. Invariant => NothingLeftOpen
  <2>1. ~ Among(<<>>, "logger") /\ ~ Among(<<>>, "listener")
    BY DEF Among
  <2> QED
    BY <2>1 DEF Invariant, OpenIsDeferred, Deferred, NothingLeftOpen
<1> QED
  BY <1>1, Inductive, PTL

\* A sensor that waited for its shutdown closes the event logger when no
\* handler is left, for any number of connections.
THEOREM EventsKept == Spec => []DrainKeepsEvents
<1>1. Invariant => DrainKeepsEvents
  BY DEF Invariant, WatcherFollowsMain, SettledAfterDrain, Settled, DrainKeepsEvents, Busy
<1> QED
  BY <1>1, Inductive, PTL

\* No more handlers of the AI sensor work than there are slots, and a 200 goes
\* only to who may ask, for what is served and within the session's budget.
THEOREM WithinBudget == Spec => []AnswersWithinBudget
<1>1. Invariant => AnswersWithinBudget
  BY DEF Invariant, SlotsAndBudget, AnswersWithinBudget
<1> QED
  BY <1>1, Inductive, PTL

----------------------------------------------------------------------------
(* Lists that are read page by page (APIRequests).                         *)

\* The record of a list has its fields.
WalkShape ==
    walk = [at |-> walk.at, q |-> walk.q, rev |-> walk.rev, token |-> walk.token,
            got |-> walk.got, promised |-> walk.promised, torn |-> walk.torn]

\* The revision a list remembers is one the store has had.
RevisionsKnown ==
    /\ rev \in Nat /\ rev >= FirstRevision
    /\ walk.at = "checked" => walk.rev \in FirstRevision .. rev
    /\ walk.at = "between" => walk.token.rev \in FirstRevision .. rev

\* What was read is the beginning of what was promised.
PrefixRead ==
    walk.at \in {"checked", "between"} /\ ~walk.torn =>
        /\ walk.promised \in Seq(Range(walk.promised))
        /\ walk.token.offset \in 0 .. Len(walk.promised)
        /\ walk.got = SubSeq(walk.promised, 1, walk.token.offset)

\* While the store has the revision of the list, it holds what was promised.
PromiseStands ==
    /\ walk.at = "checked" => walk.q \in Queries /\ ValidLimit(walk.q.limit)
    /\ walk.at = "checked" /\ ~walk.torn /\ walk.rev = rev => Matching(walk.q) = walk.promised
    /\ walk.at = "between" /\ ~walk.torn /\ walk.token.rev = rev =>
         \A q \in Queries : Identity(q) = walk.token.identity => Matching(q) = walk.promised

\* The inductive invariant of a list.
ListInvariant ==
    /\ IsFiniteSet(DOMAIN objects)
    /\ walk.at = "idle" => walk = Idle
    /\ WalkShape /\ RevisionsKnown /\ PrefixRead /\ PromiseStands /\ PagesAgree

\* A bounded set of numbers that is not empty has a greatest one, which is
\* what Max gives.
LEMMA GreatestNumber ==
  ASSUME NEW b \in Nat, NEW T, T \subseteq 0 .. b, T # {}
  PROVE  Max(T) \in T /\ \A y \in T : Max(T) >= y
<1> DEFINE D == {b - x : x \in T}
<1>0. \A x \in T : x \in Nat /\ b - x \in Nat
  OBVIOUS
<1>1. D \subseteq Nat /\ D # {}
  BY <1>0
<1>2. Min(D) \in D /\ \A y \in D : Min(D) <= y
  BY <1>1, LeastNumber
<1>3. PICK x \in T : Min(D) = b - x
  BY <1>2
<1>4. ASSUME NEW y \in T PROVE x >= y
  <2>1. b - y \in D
    OBVIOUS
  <2>2. b - x <= b - y
    BY <1>2, <1>3, <2>1
  <2> QED
    BY <1>0, <2>2
<1> QED
  BY <1>4 DEF Max

\* A function on 1 .. n is a sequence of its values.
LEMMA IsSequence ==
  ASSUME NEW s, NEW n \in Nat, s = [i \in 1 .. n |-> s[i]]
  PROVE  s \in Seq(Range(s)) /\ Len(s) = n
<1>1. \A i \in 1 .. n : s[i] \in Range(s)
  BY DEF Range
<1> QED
  BY <1>1

\* The matching keys of a finite store are a sequence.
LEMMA MatchingIsSequence ==
  ASSUME NEW q, IsFiniteSet(DOMAIN objects)
  PROVE  Matching(q) \in Seq(Range(Matching(q)))
<1> DEFINE S == {k \in DOMAIN objects :
                   /\ k.gv = q.gv /\ k.res = q.res /\ (q.ns = "" \/ k.ns = q.ns)
                   /\ ObjectMatches(objects[k], ParseSelector(q.labels).reqs, ParseSelector(q.fields).reqs)}
<1>1. Cardinality(S) \in Nat
  BY FS_Subset, FS_CardinalityType
<1>2. \E e : Matching(q) = [i \in 1 .. Cardinality(S) |-> e[i]]
  <2> DEFINE before(j, k) == \/ Rank(j.ns) < Rank(k.ns)
                             \/ Rank(j.ns) = Rank(k.ns) /\ Rank(j.name) < Rank(k.name)
             c(i) == CHOOSE k \in S : Cardinality({j \in S : before(j, k)}) = i - 1
             e == [i \in 1 .. Cardinality(S) |-> c(i)]
  <2>1. Matching(q) = e
    BY DEF Matching, Candidates
  <2> HIDE DEF c, S
  <2>2. e = [i \in 1 .. Cardinality(S) |-> e[i]]
    OBVIOUS
  <2> HIDE DEF e
  <2> QED
    BY <2>1, <2>2
<1> QED
  BY <1>1, <1>2, IsSequence

\* As long as the store does not change, neither does a selection of it.
LEMMA MatchingStable ==
  ASSUME NEW q, objects' = objects
  PROVE  Matching(q)' = Matching(q)
  BY DEF Matching, Candidates, ObjectMatches

\* The end of a page lies between its offset and the last candidate.
LEMMA PageEndBetween ==
  ASSUME NEW s, Len(s) \in Nat, NEW offset \in 0 .. Len(s), NEW limit \in Nat
  PROVE  PageEnd(s, offset, limit) \in offset .. Len(s)
<1> DEFINE size(n) == FoldLeft(LAMBDA sum, k : sum + Bytes[objects[k].label], 0,
                               SubSeq(s, offset + 1, n))
           most == IF offset + limit > Len(s) THEN Len(s) ELSE offset + limit
           fits == {n \in offset .. most : n <= offset + 1 \/ size(n) <= MaxListPageBytes}
<1>1. PageEnd(s, offset, limit) = Max(fits)
  BY DEF PageEnd
<1> HIDE DEF size
<1>2. most \in offset .. Len(s)
  OBVIOUS
<1>3. offset \in fits /\ fits \subseteq 0 .. Len(s) /\ fits \subseteq offset .. Len(s)
  BY <1>2
<1> HIDE DEF fits
<1>4. Max(fits) \in fits
  BY <1>3, GreatestNumber
<1> QED
  BY <1>1, <1>3, <1>4

\* A limit that parseListLimit accepts makes a page of some length.
LEMMA PageLimitType ==
  ASSUME NEW limit, ValidLimit(limit)
  PROVE  PageLimit(limit) \in Nat
  BY PageConstants DEF ValidLimit, PageLimit, NoLimit

\* A prefix and the piece after it make a longer prefix.
LEMMA PrefixGrows ==
  ASSUME NEW S, NEW s \in Seq(S), NEW m \in 0 .. Len(s), NEW n \in m .. Len(s)
  PROVE  SubSeq(s, 1, m) \o SubSeq(s, m + 1, n) = SubSeq(s, 1, n)
  OBVIOUS

\* The whole of a sequence is a prefix of it.
LEMMA WholePrefix ==
  ASSUME NEW S, NEW s \in Seq(S)
  PROVE  SubSeq(s, 1, Len(s)) = s /\ SubSeq(s, 1, 0) = <<>>
  OBVIOUS

\* A list begins with nothing read.
LEMMA InitListInvariant == APIInit => ListInvariant
<1> SUFFICES ASSUME APIInit PROVE ListInvariant
  OBVIOUS
<1>1. walk = Idle /\ walk.at = "idle" /\ rev = 1000
  BY DEF APIInit, Idle, FirstRevision
<1>2. WalkShape
  BY <1>1 DEF WalkShape, Idle
<1> QED
  BY <1>1, <1>2, SeedsFinite DEF APIInit, ListInvariant, RevisionsKnown, PrefixRead, PromiseStands,
     PagesAgree, FirstRevision

\* list up to parseContinue: a token is accepted only for the revision and the
\* selection it was made for, so the promise carries over.
LEMMA StepListCheck ==
  ASSUME ListInvariant, ListCheck
  PROVE  ListInvariant'
<1>1. PICK q \in Queries :
        /\ ValidFieldSelector(q.fields) /\ ValidLimit(q.limit)
        /\ walk' = IF ParseContinue(walk.token, rev, q)
                   THEN [walk EXCEPT !.at = "checked", !.q = q, !.rev = rev,
                                     !.promised = IF walk.at = "idle" THEN Matching(q) ELSE @]
                   ELSE [walk EXCEPT !.at = "expired"]
  BY DEF ListCheck
<1>2. /\ walk.at \in {"idle", "between"} /\ objects' = objects /\ rev' = rev
      /\ WalkShape /\ RevisionsKnown /\ PrefixRead /\ PromiseStands /\ PagesAgree
      /\ IsFiniteSet(DOMAIN objects) /\ (walk.at = "idle" => walk = Idle)
  BY DEF ListCheck, ListInvariant
<1>3. CASE ~ ParseContinue(walk.token, rev, q)
  <2>1. walk' = [walk EXCEPT !.at = "expired"]
    BY <1>1, <1>3
  <2>2. WalkShape' /\ walk'.at = "expired"
    BY <1>2, <2>1 DEF WalkShape
  <2> QED
    BY <1>2, <2>2 DEF ListInvariant, RevisionsKnown, PrefixRead, PromiseStands, PagesAgree
<1>4. CASE ParseContinue(walk.token, rev, q)
  <2> DEFINE p == IF walk.at = "idle" THEN Matching(q) ELSE walk.promised
  <2>1. walk' = [walk EXCEPT !.at = "checked", !.q = q, !.rev = rev, !.promised = p]
    BY <1>1, <1>4 DEF WalkShape
  <2>2. /\ WalkShape' /\ walk'.at = "checked" /\ walk'.q = q /\ walk'.rev = rev
        /\ walk'.promised = p /\ walk'.token = walk.token /\ walk'.got = walk.got
        /\ walk'.torn = walk.torn
    <3> HIDE DEF p
    <3> QED
      BY <1>2, <2>1 DEF WalkShape
  <2>3. Matching(q)' = Matching(q)
    BY <1>2, MatchingStable
  <2>4. CASE walk.at = "idle"
    <3>1. walk.token = NoToken /\ walk.got = <<>> /\ p = Matching(q)
      BY <1>2, <2>4 DEF Idle
    <3>2. p \in Seq(Range(p))
      BY <1>2, <3>1, MatchingIsSequence
    <3>3. SubSeq(p, 1, 0) = <<>> /\ Len(p) \in Nat
      BY <3>2
    <3>4. PrefixRead'
      BY <2>2, <3>1, <3>2, <3>3 DEF PrefixRead, NoToken
    <3>5. PromiseStands'
      BY <1>1, <2>2, <2>3, <3>1 DEF PromiseStands
    <3> QED
      BY <1>2, <2>2, <3>4, <3>5 DEF ListInvariant, RevisionsKnown, PagesAgree
  <2>5. CASE walk.at = "between"
    <3>1. p = walk.promised
      BY <2>5
    <3>2. walk.token # NoToken
      BY <1>2, <2>5 DEF RevisionsKnown, NoToken, FirstRevision
    <3>3. walk.token.rev = rev /\ walk.token.identity = Identity(q)
      BY <1>4, <3>2 DEF ParseContinue
    <3>4. PrefixRead'
      BY <1>2, <2>2, <2>5, <3>1 DEF PrefixRead
    <3>5. ~walk.torn => Matching(q) = walk.promised
      BY <1>2, <2>5, <3>3 DEF PromiseStands
    <3>6. PromiseStands'
      BY <1>1, <2>2, <2>3, <3>1, <3>5 DEF PromiseStands
    <3> QED
      BY <1>2, <2>2, <3>4, <3>6 DEF ListInvariant, RevisionsKnown, PagesAgree
  <2> QED
    BY <1>2, <2>4, <2>5
<1> QED
  BY <1>3, <1>4

\* list from listPage on: unless the store changed since the check, the page
\* continues what was read.
LEMMA StepListPage ==
  ASSUME ListInvariant, ListPage
  PROVE  ListInvariant'
<1> DEFINE c == Matching(walk.q)
           offset == walk.token.offset
           end == PageEnd(c, offset, PageLimit(walk.q.limit))
           torn == walk.torn \/ rev # walk.rev
           page == [walk EXCEPT !.got = @ \o SubSeq(c, offset + 1, end), !.torn = torn]
           next == [rev |-> walk.rev, identity |-> Identity(walk.q), offset |-> end]
<1>1. /\ walk.at = "checked" /\ objects' = objects /\ rev' = rev
      /\ WalkShape /\ RevisionsKnown /\ PrefixRead /\ PromiseStands /\ PagesAgree
      /\ IsFiniteSet(DOMAIN objects)
  BY DEF ListPage, ListInvariant
<1>2. \/ walk' = [walk EXCEPT !.at = "expired"]
      \/ end < Len(c) /\ walk' = [page EXCEPT !.at = "between", !.token = next]
      \/ ~(end < Len(c)) /\ walk' = [page EXCEPT !.at = "done"]
  BY DEF ListPage
<1>3. ~torn => /\ c = walk.promised /\ c \in Seq(Range(c)) /\ Len(c) \in Nat
               /\ offset \in 0 .. Len(c) /\ end \in offset .. Len(c)
               /\ walk.got \o SubSeq(c, offset + 1, end) = SubSeq(c, 1, end)
  <2> SUFFICES ASSUME ~torn
               PROVE  /\ c = walk.promised /\ c \in Seq(Range(c)) /\ Len(c) \in Nat
                      /\ offset \in 0 .. Len(c) /\ end \in offset .. Len(c)
                      /\ walk.got \o SubSeq(c, offset + 1, end) = SubSeq(c, 1, end)
    OBVIOUS
  <2>1. c = walk.promised
    BY <1>1 DEF PromiseStands
  <2>2. c \in Seq(Range(c)) /\ offset \in 0 .. Len(c) /\ walk.got = SubSeq(c, 1, offset)
    BY <1>1, <2>1 DEF PrefixRead
  <2>3. Len(c) \in Nat
    BY <2>2
  <2>4. PageLimit(walk.q.limit) \in Nat
    BY <1>1, PageLimitType DEF PromiseStands
  <2> HIDE DEF c, offset
  <2>5. end \in offset .. Len(c)
    BY <2>2, <2>3, <2>4, PageEndBetween
  <2> HIDE DEF end
  <2> QED
    BY <2>1, <2>2, <2>3, <2>5, PrefixGrows
<1>4. \A q \in Queries : Matching(q)' = Matching(q)
  BY <1>1, MatchingStable
<1>5. CASE walk' = [walk EXCEPT !.at = "expired"]
  <2>1. WalkShape' /\ walk'.at = "expired"
    BY <1>1, <1>5 DEF WalkShape
  <2> QED
    BY <1>1, <2>1 DEF ListInvariant, RevisionsKnown, PrefixRead, PromiseStands, PagesAgree
<1>6. CASE end < Len(c) /\ walk' = [page EXCEPT !.at = "between", !.token = next]
  <2>1. /\ WalkShape' /\ walk'.at = "between" /\ walk'.token = next /\ walk'.torn = torn
        /\ walk'.promised = walk.promised
        /\ walk'.got = walk.got \o SubSeq(c, offset + 1, end)
    <3> HIDE DEF torn, c, offset, end, next
    <3> QED
      BY <1>1, <1>6 DEF WalkShape
  <2>2. next.rev = walk.rev /\ next.identity = Identity(walk.q) /\ next.offset = end
    OBVIOUS
  <2>3. RevisionsKnown'
    BY <1>1, <2>1, <2>2 DEF RevisionsKnown
  <2>4. PrefixRead'
    <3> HIDE DEF torn, c, offset, end, next
    <3> SUFFICES ASSUME ~torn
                 PROVE  /\ walk.promised \in Seq(Range(walk.promised))
                        /\ end \in 0 .. Len(walk.promised)
                        /\ walk.got \o SubSeq(c, offset + 1, end) = SubSeq(walk.promised, 1, end)
      BY <2>1, <2>2 DEF PrefixRead
    <3>1. end \in 0 .. Len(c)
      BY <1>3
    <3> QED
      BY <1>3, <3>1
  <2>5. PromiseStands'
    <3> SUFFICES ASSUME ~torn, NEW q \in Queries, Identity(q) = Identity(walk.q)
                 PROVE  Matching(q)' = walk.promised
      BY <2>1, <2>2 DEF PromiseStands
    <3>1. Matching(q) = Matching(walk.q)
      BY DEF Identity, Matching
    <3> QED
      BY <1>3, <1>4, <3>1
  <2> QED
    BY <1>1, <2>1, <2>3, <2>4, <2>5 DEF ListInvariant, PagesAgree
<1>7. CASE ~(end < Len(c)) /\ walk' = [page EXCEPT !.at = "done"]
  <2>1. /\ WalkShape' /\ walk'.at = "done" /\ walk'.torn = torn
        /\ walk'.promised = walk.promised
        /\ walk'.got = walk.got \o SubSeq(c, offset + 1, end)
    <3> HIDE DEF torn, c, offset, end
    <3> QED
      BY <1>1, <1>7 DEF WalkShape
  <2>2. PagesAgree'
    <3> HIDE DEF torn, c, offset, end
    <3> SUFFICES ASSUME ~torn PROVE walk.got \o SubSeq(c, offset + 1, end) = walk.promised
      BY <2>1 DEF PagesAgree
    <3>1. end = Len(c)
      BY <1>3, <1>7
    <3>2. SubSeq(c, 1, Len(c)) = c
      BY <1>3, WholePrefix
    <3> QED
      BY <1>3, <3>1, <3>2
  <2> QED
    BY <1>1, <2>1, <2>2 DEF ListInvariant, RevisionsKnown, PrefixRead, PromiseStands
<1> QED
  BY <1>2, <1>5, <1>6, <1>7

\* A write moves the revision whenever it changes the store.
LEMMA WritingMovesRevision ==
  ASSUME NEW h \in Handlers, Writing(h), IsFiniteSet(DOMAIN objects), rev \in Nat
  PROVE  /\ walk' = walk /\ IsFiniteSet(DOMAIN objects')
         /\ (objects' = objects /\ rev' = rev) \/ rev' = rev + 1
<1>1. CASE Create(h)
  BY <1>1 DEF Create, Start
<1>2. CASE Update(h)
  BY <1>2 DEF Update, Start
<1>3. CASE Patch(h)
  BY <1>3 DEF Patch, Start
<1>4. CASE Delete(h)
  BY <1>4 DEF Delete, Start
<1>5. CASE DeleteCollection(h)
  BY <1>5 DEF DeleteCollection, Start
<1>6. CASE StoreCall(h)
  <2> DEFINE there(call) == call.key \in DOMAIN objects
             taken(call) == there(call) /\ call.act \in {"ADDED", "SEED"}
             effect(call) == IF call.act = "DELETED" THEN there(call) ELSE ~taken(call)
             stored(call) == [k \in DOMAIN objects \cup {call.key} |->
                                IF k = call.key THEN call.object ELSE objects[k]]
  <2>0. PICK i \in DOMAIN job[h] :
          LET call == job[h][i] IN
          /\ objects' = IF ~effect(call) THEN objects
                        ELSE IF call.act = "DELETED" THEN Restrict(objects, DOMAIN objects \ {call.key})
                        ELSE stored(call)
          /\ rev' = IF effect(call) THEN rev + 1 ELSE rev
    BY <1>6 DEF StoreCall
  <2> DEFINE call == job[h][i]
             key == call.key
  <2>1. \/ objects' = objects /\ rev' = rev
        \/ rev' = rev + 1 /\ objects' = Restrict(objects, DOMAIN objects \ {key})
        \/ rev' = rev + 1 /\ objects' = stored(call)
    <3> HIDE DEF effect, stored
    <3> QED
      BY <2>0
  <2>2. /\ walk' = walk
        /\ \/ objects' = objects
           \/ DOMAIN objects' = DOMAIN objects \ {key}
           \/ DOMAIN objects' = DOMAIN objects \cup {key}
    <3> HIDE DEF call
    <3> QED
      BY <1>6, <2>1 DEF StoreCall, Restrict
  <2>3. IsFiniteSet(DOMAIN objects \ {key}) /\ IsFiniteSet(DOMAIN objects \cup {key})
    BY FS_Subset, FS_AddElement
  <2> QED
    BY <2>1, <2>2, <2>3
<1>7. CASE Refuse(h)
  BY <1>7 DEF Refuse
<1> QED
  BY <1>1, <1>2, <1>3, <1>4, <1>5, <1>6, <1>7 DEF Writing

\* A write leaves what was read, and ends the promise when it changes the store.
LEMMA StepWriting ==
  ASSUME ListInvariant, NEW h \in Handlers, Writing(h)
  PROVE  ListInvariant'
<1>1. /\ WalkShape /\ RevisionsKnown /\ PrefixRead /\ PromiseStands /\ PagesAgree
      /\ IsFiniteSet(DOMAIN objects) /\ rev \in Nat /\ (walk.at = "idle" => walk = Idle)
  BY DEF ListInvariant, RevisionsKnown
<1>2. /\ walk' = walk /\ IsFiniteSet(DOMAIN objects')
      /\ (objects' = objects /\ rev' = rev) \/ rev' = rev + 1
  BY <1>1, WritingMovesRevision
<1>3. WalkShape' /\ PrefixRead' /\ PagesAgree'
  BY <1>1, <1>2 DEF WalkShape, PrefixRead, PagesAgree
<1>4. RevisionsKnown'
  BY <1>1, <1>2 DEF RevisionsKnown, FirstRevision
<1>5. PromiseStands'
  <2>1. CASE objects' = objects /\ rev' = rev
    <3>1. \A q : Matching(q)' = Matching(q)
      BY <2>1, MatchingStable
    <3> QED
      BY <1>1, <1>2, <2>1, <3>1 DEF PromiseStands
  <2>2. CASE rev' = rev + 1
    BY <1>1, <1>2, <2>2 DEF PromiseStands, RevisionsKnown, FirstRevision
  <2> QED
    BY <1>2, <2>1, <2>2
<1> QED
  BY <1>1, <1>2, <1>3, <1>4, <1>5 DEF ListInvariant, Idle

\* Whatever is written between two pages, a list that comes to its end has read
\* what matched when it began, for any objects, selections, limits and handlers.
THEOREM PagesOfOneRevision == APISpec => []PagesAgree
<1>1. ListInvariant /\ [APINext]_apiVars => ListInvariant'
  <2> SUFFICES ASSUME ListInvariant, [APINext]_apiVars PROVE ListInvariant'
    OBVIOUS
  <2>1. CASE \E h \in Handlers : Writing(h)
    BY <2>1, StepWriting
  <2>2. CASE ListCheck
    BY <2>2, StepListCheck
  <2>3. CASE ListPage
    BY <2>3, StepListPage
  <2>4. CASE UNCHANGED apiVars
    <3>1. \A q : Matching(q)' = Matching(q)
      BY <2>4, MatchingStable DEF apiVars
    <3> QED
      BY <2>4, <3>1 DEF apiVars, ListInvariant, WalkShape, RevisionsKnown, PrefixRead, PromiseStands,
         PagesAgree, Idle
  <2> QED
    BY <2>1, <2>2, <2>3, <2>4 DEF APINext, List
<1>2. ListInvariant => PagesAgree
  BY DEF ListInvariant
<1> QED
  BY <1>1, <1>2, InitListInvariant, PTL DEF APISpec

----------------------------------------------------------------------------
(* Folds over sequences: induction by a least counterexample, and a fold as *)
(* the last of its intermediate results.                                    *)

\* Induction up to n, for a set of numbers.
LEMMA UpTo ==
  ASSUME NEW n \in Nat, NEW T, 0 \in T, \A k \in 1 .. n : k - 1 \in T => k \in T
  PROVE  \A k \in 0 .. n : k \in T
<1> DEFINE D == {k \in 0 .. n : k \notin T}
<1>1. SUFFICES ASSUME D # {} PROVE FALSE
  OBVIOUS
<1>2. D \subseteq Nat
  OBVIOUS
<1> DEFINE m == Min(D)
<1>3. m \in D /\ \A y \in D : m <= y
  BY <1>1, <1>2, LeastNumber
<1> HIDE DEF m
<1>4. m \in 1 .. n /\ m - 1 \in 0 .. n
  BY <1>3
<1>5. m - 1 \notin D
  BY <1>3, <1>4
<1> QED
  BY <1>3, <1>4, <1>5

\* n steps from one value to the next, and the values they lead through.
IsSteps(n, V, step) == step \in [1 .. n -> [V -> V]]
IsRun(n, V, base, step, acc) ==
    acc \in [0 .. n -> V] /\ acc[0] = base /\ \A k \in 1 .. n : acc[k] = step[k][acc[k - 1]]

\* Steps from one value to the next can be taken one after another.
LEMMA StepsExist ==
  ASSUME NEW n \in Nat, NEW V, NEW base \in V, NEW step, IsSteps(n, V, step)
  PROVE  \E acc : IsRun(n, V, base, step, acc)
<1> USE DEF IsSteps
<1> DEFINE Runs(m, acc) == acc[0] = base /\ \A k \in 1 .. m : acc[k] = step[k][acc[k - 1]]
           T == {m \in 0 .. n : \E acc \in [0 .. m -> V] : Runs(m, acc)}
<1>1. 0 \in T
  <2> DEFINE acc == [k \in 0 .. 0 |-> base]
  <2>1. acc \in [0 .. 0 -> V] /\ Runs(0, acc)
    OBVIOUS
  <2> HIDE DEF acc
  <2> QED
    BY <2>1
<1>2. ASSUME NEW m \in 1 .. n, m - 1 \in T PROVE m \in T
  <2>1. PICK acc \in [0 .. (m - 1) -> V] : Runs(m - 1, acc)
    BY <1>2
  <2> DEFINE last == step[m][acc[m - 1]]
             new == [k \in 0 .. m |-> IF k = m THEN last ELSE acc[k]]
  <2>2. last \in V
    OBVIOUS
  <2>3. new \in [0 .. m -> V]
    BY <2>2
  <2>4. \A k \in 0 .. m : new[k] = IF k = m THEN last ELSE acc[k]
    OBVIOUS
  <2>5. Runs(m, new)
    <3> HIDE DEF new
    <3>1. new[0] = base
      BY <2>1, <2>4
    <3>2. ASSUME NEW k \in 1 .. m PROVE new[k] = step[k][new[k - 1]]
      <4>1. CASE k = m
        BY <2>4, <4>1
      <4>2. CASE k # m
        BY <2>1, <2>4, <4>2
      <4> QED
        BY <4>1, <4>2
    <3> QED
      BY <3>1, <3>2
  <2> HIDE DEF new
  <2>6. m \in 0 .. n /\ \E a \in [0 .. m -> V] : Runs(m, a)
    <3> HIDE DEF Runs
    <3> QED
      BY <2>3, <2>5
  <2> QED
    BY <2>6
<1> HIDE DEF T
<1>3. \A k \in 1 .. n : k - 1 \in T => k \in T
  BY <1>2
<1>4. \A k \in 0 .. n : k \in T
  BY <1>1, <1>3, UpTo
<1>5. n \in T
  BY <1>4
<1> QED
  BY <1>5 DEF T, IsRun

\* The same with the steps of some positions only.
SomeSteps(n, V, step, t) == [k \in 1 .. n |-> [a \in V |-> IF k \in t THEN step[k][a] ELSE a]]

\* They are steps, and a run of them skips the other positions.
LEMMA SomeStepsExist ==
  ASSUME NEW n \in Nat, NEW V, NEW base \in V, NEW step, IsSteps(n, V, step), NEW t \in SUBSET (1 .. n)
  PROVE  \E acc \in [0 .. n -> V] :
           acc[0] = base /\ \A k \in 1 .. n : acc[k] = IF k \in t THEN step[k][acc[k - 1]] ELSE acc[k - 1]
<1> DEFINE part == SomeSteps(n, V, step, t)
<1>1. IsSteps(n, V, part)
  BY DEF IsSteps, SomeSteps
<1>2. \A k \in 1 .. n, a \in V : part[k][a] = IF k \in t THEN step[k][a] ELSE a
  BY DEF SomeSteps
<1> HIDE DEF part
<1>3. PICK acc : IsRun(n, V, base, part, acc)
  BY <1>1, StepsExist
<1>4. \A k \in 1 .. n : acc[k - 1] \in V
  BY <1>3 DEF IsRun
<1> QED
  BY <1>2, <1>3, <1>4 DEF IsRun

\* The function that a fold over a sequence of length n is defined by: for each
\* set of positions the steps of these positions are taken.
IsFold(n, V, base, step, g) ==
    /\ g \in [SUBSET (1 .. n) -> V]
    /\ \A t \in SUBSET (1 .. n) : g[t] = IF t = {} THEN base ELSE step[Max(t)][g[t \ {Max(t)}]]

\* There is such a function.
LEMMA FoldExists ==
  ASSUME NEW n \in Nat, NEW V, NEW base \in V, NEW step, IsSteps(n, V, step)
  PROVE  \E g : IsFold(n, V, base, step, g)
<1> DEFINE RunOf(t, acc) == /\ acc \in [0 .. n -> V] /\ acc[0] = base
                            /\ \A k \in 1 .. n : acc[k] = IF k \in t THEN step[k][acc[k - 1]] ELSE acc[k - 1]
           run(t) == CHOOSE acc : RunOf(t, acc)
           g == [t \in SUBSET (1 .. n) |-> run(t)[n]]
<1>1. ASSUME NEW t \in SUBSET (1 .. n) PROVE RunOf(t, run(t))
  <2>1. \E acc : RunOf(t, acc)
    BY SomeStepsExist
  <2> HIDE DEF RunOf
  <2> QED
    BY <2>1
<1> HIDE DEF run
<1>2. g \in [SUBSET (1 .. n) -> V]
  BY <1>1
<1>3. ASSUME NEW t \in SUBSET (1 .. n), t = {} PROVE g[t] = base
  <2> DEFINE T == {k \in 0 .. n : run(t)[k] = base}
  <2>1. 0 \in T /\ \A k \in 1 .. n : k - 1 \in T => k \in T
    BY <1>1, <1>3
  <2> HIDE DEF T
  <2>2. \A k \in 0 .. n : k \in T
    BY <2>1, UpTo
  <2>3. n \in T
    BY <2>2
  <2> QED
    BY <2>3 DEF T
<1>4. ASSUME NEW t \in SUBSET (1 .. n), t # {} PROVE g[t] = step[Max(t)][g[t \ {Max(t)}]]
  <2> DEFINE x == Max(t)
             u == t \ {x}
             p == run(t)
             q == run(u)
  <2>1. x \in t /\ \A y \in t : x >= y
    <3>1. t \subseteq 0 .. n
      OBVIOUS
    <3> QED
      BY <1>4, <3>1, GreatestNumber
  <2> HIDE DEF x
  <2>2. u \in SUBSET (1 .. n) /\ x \in 1 .. n
    BY <2>1
  <2>3. \A k \in 1 .. n : (k < x => (k \in t <=> k \in u)) /\ (k > x => k \notin t) /\ (k >= x => k \notin u)
    BY <2>1
  <2>4. RunOf(t, p) /\ RunOf(u, q)
    BY <1>1, <2>2
  <2> HIDE DEF u, p, q
  <2>5. p[x - 1] = q[x - 1]
    <3> DEFINE T == {k \in 0 .. n : k < x => p[k] = q[k]}
    <3>1. 0 \in T
      BY <2>4
    <3>2. ASSUME NEW k \in 1 .. n, k - 1 \in T PROVE k \in T
      BY <2>2, <2>3, <2>4, <3>2
    <3> HIDE DEF T
    <3>3. \A k \in 1 .. n : k - 1 \in T => k \in T
      BY <3>2
    <3>4. \A k \in 0 .. n : k \in T
      BY <3>1, <3>3, UpTo
    <3>5. x - 1 \in T
      BY <2>2, <3>4
    <3> QED
      BY <2>2, <3>5 DEF T
  <2>6. p[n] = p[x]
    <3> DEFINE T == {k \in 0 .. n : k >= x => p[k] = p[x]}
    <3>1. 0 \in T
      BY <2>2
    <3>2. ASSUME NEW k \in 1 .. n, k - 1 \in T PROVE k \in T
      <4>1. CASE k > x
        BY <2>2, <2>3, <2>4, <3>2, <4>1
      <4>2. CASE k <= x
        BY <2>2, <4>2
      <4> QED
        BY <2>2, <4>1, <4>2
    <3> HIDE DEF T
    <3>3. \A k \in 1 .. n : k - 1 \in T => k \in T
      BY <3>2
    <3>4. \A k \in 0 .. n : k \in T
      BY <3>1, <3>3, UpTo
    <3>5. n \in T
      BY <2>2, <3>4
    <3> QED
      BY <2>2, <3>5 DEF T
  <2>7. q[n] = q[x - 1]
    <3> DEFINE T == {k \in 0 .. n : k >= x - 1 => q[k] = q[x - 1]}
    <3>1. 0 \in T
      BY <2>2
    <3>2. ASSUME NEW k \in 1 .. n, k - 1 \in T PROVE k \in T
      <4>1. CASE k >= x
        BY <2>2, <2>3, <2>4, <3>2, <4>1
      <4>2. CASE k < x
        BY <2>2, <4>2
      <4> QED
        BY <2>2, <4>1, <4>2
    <3> HIDE DEF T
    <3>3. \A k \in 1 .. n : k - 1 \in T => k \in T
      BY <3>2
    <3>4. \A k \in 0 .. n : k \in T
      BY <3>1, <3>3, UpTo
    <3>5. n \in T
      BY <2>2, <3>4
    <3> QED
      BY <2>2, <3>5 DEF T
  <2>8. p[x] = step[x][p[x - 1]]
    BY <2>1, <2>2, <2>4
  <2>9. g[t] = p[n] /\ g[u] = q[n]
    BY <2>2 DEF p, q
  <2> QED
    BY <2>5, <2>6, <2>7, <2>8, <2>9 DEF x, u
<1> HIDE DEF g
<1>5. IsFold(n, V, base, step, g)
  BY <1>2, <1>3, <1>4 DEF IsFold
<1> QED
  BY <1>5

\* The positions up to k without the last.
LEMMA LastPosition ==
  ASSUME NEW k \in Nat \ {0}
  PROVE  /\ Max(1 .. k) = k /\ (1 .. k) \ {k} = 1 .. (k - 1) /\ 1 .. k # {}
<1>1. k \in 1 .. k
  OBVIOUS
<1>2. Max(1 .. k) \in 1 .. k /\ \A y \in 1 .. k : Max(1 .. k) >= y
  <2>1. 1 .. k \subseteq 0 .. k
    OBVIOUS
  <2> QED
    BY <1>1, <2>1, GreatestNumber
<1>3. Max(1 .. k) = k
  BY <1>1, <1>2
<1> QED
  BY <1>1, <1>3

\* The greatest of some positions is a position, and so are the others.
LEMMA PositionType ==
  ASSUME NEW n \in Nat
  PROVE  \A t \in SUBSET (1 .. n) : t # {} => Max(t) \in 1 .. n /\ t \ {Max(t)} \in SUBSET (1 .. n)
<1> SUFFICES ASSUME NEW t \in SUBSET (1 .. n), t # {} PROVE Max(t) \in 1 .. n
  OBVIOUS
<1>1. t \subseteq 0 .. n
  OBVIOUS
<1> QED
  BY <1>1, GreatestNumber

\* What the function that a fold chooses is known to satisfy: its equation, as
\* long as the values are of the kind that the steps are for.
IsIter(n, V, base, step, it) ==
    /\ it[{}] = base
    /\ \A t \in SUBSET (1 .. n) :
         t # {} /\ it[t \ {Max(t)}] \in V => it[t] = step[Max(t)][it[t \ {Max(t)}]]

\* Its values at the first positions are those of a run.
LEMMA IterRuns ==
  ASSUME NEW n \in Nat, NEW V, NEW base \in V, NEW step, IsSteps(n, V, step), NEW it, IsIter(n, V, base, step, it)
  PROVE  \E acc : IsRun(n, V, base, step, acc) /\ acc[n] = it[1 .. n]
<1> DEFINE T == {k \in 0 .. n : it[1 .. k] \in V}
           acc == [k \in 0 .. n |-> it[1 .. k]]
<1>1. ASSUME NEW k \in 1 .. n, it[1 .. (k - 1)] \in V PROVE it[1 .. k] \in V /\ it[1 .. k] = step[k][it[1 .. (k - 1)]]
  <2>0. k \in Nat \ {0}
    OBVIOUS
  <2>1. Max(1 .. k) = k /\ (1 .. k) \ {k} = 1 .. (k - 1) /\ 1 .. k # {}
    BY <2>0, LastPosition
  <2>2. 1 .. k \in SUBSET (1 .. n)
    OBVIOUS
  <2>3. it[1 .. k] = step[k][it[1 .. (k - 1)]]
    BY <1>1, <2>1, <2>2 DEF IsIter
  <2>4. \A a \in V : step[k][a] \in V
    BY DEF IsSteps
  <2> QED
    BY <1>1, <2>3, <2>4
<1>2. 1 .. 0 = {}
  OBVIOUS
<1>3. 0 \in T
  BY <1>2 DEF IsIter
<1>4. \A k \in 1 .. n : k - 1 \in T => k \in T
  BY <1>1
<1>5. \A k \in 0 .. n : k \in T
  <2> HIDE DEF T
  <2> QED
    BY <1>3, <1>4, UpTo
<1>6. \A k \in 0 .. n : it[1 .. k] \in V
  BY <1>5
<1>7. IsRun(n, V, base, step, acc)
  <2>1. \A k \in 1 .. n : it[1 .. (k - 1)] \in V
    BY <1>6
  <2> QED
    BY <1>1, <1>2, <1>6, <2>1 DEF IsRun, IsIter
<1> QED
  BY <1>7

----------------------------------------------------------------------------
(* Requests: every stored object has a path of its own.                    *)

\* A sequence without its last element.
LEMMA FrontTyped ==
  ASSUME NEW S, NEW s \in Seq(S), s # <<>>
  PROVE  Front(s) \in Seq(S) /\ \A i \in 1 .. Len(Front(s)) : i \in 1 .. Len(s) /\ Front(s)[i] = s[i]
<1> DEFINE n == Len(s) - 1
<1>1. n \in 0 .. Len(s) /\ Len(s) \in Nat
  OBVIOUS
<1>2. Front(s) = SubSeq(s, 1, n)
  BY DEF Front
<1> HIDE DEF n
<1>3. SubSeq(s, 1, n) \in Seq(S) /\ Len(SubSeq(s, 1, n)) = n /\ \A i \in 1 .. n : SubSeq(s, 1, n)[i] = s[i]
  BY <1>1
<1> QED
  BY <1>1, <1>2, <1>3

\* acc holds the clean path of the first segments.
Cleaning(s, S, acc) ==
    /\ acc \in [0 .. Len(s) -> Seq(S)] /\ acc[0] = <<>>
    /\ \A k \in 1 .. Len(s) : acc[k] = Cleaned(acc[k - 1], s[k])

\* splitPath takes the segments one after another.
LEMMA SplitPathRuns ==
  ASSUME NEW S, NEW s \in Seq(S)
  PROVE  \E acc : Cleaning(s, S, acc) /\ SplitPath(s) = acc[Len(s)]
<1> DEFINE n == Len(s)
           V == Seq(S)
           step == [k \in 1 .. n |-> [a \in V |-> Cleaned(a, s[k])]]
           eq(it) == it = [t \in SUBSET (DOMAIN s) |->
                            IF t = {} THEN <<>> ELSE LET x == Max(t) IN Cleaned(it[t \ {x}], s[x])]
           it == CHOOSE p : eq(p)
<1>0. n \in Nat /\ DOMAIN s = 1 .. n /\ \A k \in 1 .. n : s[k] \in S
  OBVIOUS
<1>0a. ASSUME NEW a \in V, NEW t \in S PROVE Cleaned(a, t) \in V
  <2>1. Cleaned(a, t) = a \/ (a # <<>> /\ Cleaned(a, t) = Front(a)) \/ Cleaned(a, t) = Append(a, t)
    BY DEF Cleaned
  <2>2. Append(a, t) \in V
    OBVIOUS
  <2>3. a # <<>> => Front(a) \in V
    BY FrontTyped
  <2> QED
    BY <2>1, <2>2, <2>3
<1>1. IsSteps(n, V, step)
  BY <1>0, <1>0a DEF IsSteps
<1>2. \A k \in 1 .. n, a \in V : step[k][a] = Cleaned(a, s[k])
  OBVIOUS
<1>3. <<>> \in V
  OBVIOUS
<1>4. SplitPath(s) = it[1 .. n]
  BY <1>0 DEF FoldLeft, MapThenFoldSet, SplitPath
<1> HIDE DEF n, V, step
<1>5. \A t \in SUBSET (1 .. n) : t # {} => Max(t) \in 1 .. n /\ t \ {Max(t)} \in SUBSET (1 .. n)
  BY <1>0, PositionType
<1>6. eq(it)
  <2>1. PICK g : IsFold(n, V, <<>>, step, g)
    BY <1>0, <1>1, <1>3, FoldExists
  <2>2. eq(g)
    <3>1. ASSUME NEW t \in SUBSET (1 .. n)
          PROVE  g[t] = IF t = {} THEN <<>> ELSE LET x == Max(t) IN Cleaned(g[t \ {x}], s[x])
      BY <1>2, <1>5, <2>1 DEF IsFold
    <3>2. g = [t \in SUBSET (1 .. n) |-> g[t]]
      BY <2>1 DEF IsFold
    <3> QED
      BY <1>0, <3>1, <3>2
  <2> HIDE DEF eq
  <2> QED
    BY <2>2
<1> HIDE DEF it
<1>7. IsIter(n, V, <<>>, step, it)
  BY <1>0, <1>2, <1>5, <1>6 DEF IsIter
<1>8. PICK acc : IsRun(n, V, <<>>, step, acc) /\ acc[n] = it[1 .. n]
  BY <1>0, <1>1, <1>3, <1>7, IterRuns
<1>9. ASSUME NEW k \in 1 .. n PROVE acc[k] = Cleaned(acc[k - 1], s[k])
  <2>1. k - 1 \in 0 .. n
    BY <1>0
  <2>2. acc[k - 1] \in V
    BY <1>8, <2>1 DEF IsRun
  <2> QED
    BY <1>2, <1>8, <2>2 DEF IsRun
<1>10. acc \in [0 .. n -> V] /\ acc[0] = <<>> /\ SplitPath(s) = acc[n]
  BY <1>4, <1>8 DEF IsRun
<1> QED
  BY <1>9, <1>10 DEF Cleaning, n, V

\* The segments that path.Clean drops or resolves.
Dots == {"", ".", ".."}

\* No segment of a clean path is empty or made of dots.
LEMMA SegmentsClean ==
  ASSUME NEW S, NEW p \in Seq(S)
  PROVE  SplitPath(p) \in Seq(S) /\ \A i \in 1 .. Len(SplitPath(p)) : SplitPath(p)[i] \notin Dots
<1> DEFINE n == Len(p)
<1>1. PICK acc : Cleaning(p, S, acc) /\ SplitPath(p) = acc[n]
  BY SplitPathRuns
<1>2. acc[0] = <<>> /\ \A k \in 0 .. n : acc[k] \in Seq(S)
  BY <1>1 DEF Cleaning
<1>3. \A k \in 1 .. n : acc[k] = Cleaned(acc[k - 1], p[k]) /\ p[k] \in S
  BY <1>1 DEF Cleaning
<1>4. n \in Nat
  OBVIOUS
<1> HIDE DEF n
<1> DEFINE Good(s) == \A i \in 1 .. Len(s) : s[i] \notin Dots
           T == {k \in 0 .. n : Good(acc[k])}
<1>5. 0 \in T
  <2>1. Good(<<>>)
    OBVIOUS
  <2> HIDE DEF Good
  <2> QED
    BY <1>2, <1>4, <2>1
<1>6. ASSUME NEW k \in 1 .. n, Good(acc[k - 1]) PROVE Good(acc[k])
  <2> DEFINE a == acc[k - 1]
             t == p[k]
  <2>1. a \in Seq(S) /\ t \in S
    <3>1. k - 1 \in 0 .. n
      BY <1>4
    <3> QED
      BY <1>2, <1>3, <3>1
  <2>2. acc[k] = Cleaned(a, t)
    BY <1>3
  <2>3. Good(a)
    BY <1>6
  <2> HIDE DEF a, t
  <2>4. acc[k] = a \/ (a # <<>> /\ acc[k] = Front(a)) \/ (t \notin Dots /\ acc[k] = Append(a, t))
    BY <2>2 DEF Cleaned, Dots
  <2>5. CASE a # <<>> /\ acc[k] = Front(a)
    <3>1. \A i \in 1 .. Len(Front(a)) : i \in 1 .. Len(a) /\ Front(a)[i] = a[i]
      BY <2>1, <2>5, FrontTyped
    <3> QED
      BY <2>3, <2>5, <3>1
  <2>6. CASE t \notin Dots /\ acc[k] = Append(a, t)
    <3>1. Len(Append(a, t)) = Len(a) + 1 /\ Len(a) \in Nat /\ Append(a, t)[Len(a) + 1] = t
      BY <2>1
    <3>2. \A i \in 1 .. Len(a) : Append(a, t)[i] = a[i]
      BY <2>1
    <3>3. ASSUME NEW i \in 1 .. Len(acc[k]) PROVE acc[k][i] \notin Dots
      <4>1. i \in 1 .. Len(a) \/ i = Len(a) + 1
        BY <2>6, <3>1
      <4> QED
        BY <2>3, <2>6, <3>1, <3>2, <4>1
    <3> QED
      BY <3>3
  <2>7. CASE acc[k] = a
    BY <2>3, <2>7
  <2> QED
    BY <2>4, <2>5, <2>6, <2>7
<1> HIDE DEF Good
<1>7. \A k \in 1 .. n : k - 1 \in T => k \in T
  BY <1>4, <1>6
<1>8. \A k \in 0 .. n : k \in T
  <2> HIDE DEF T
  <2> QED
    BY <1>4, <1>5, <1>7, UpTo
<1>9. Good(acc[n]) /\ acc[n] \in Seq(S)
  BY <1>2, <1>4, <1>8
<1> QED
  BY <1>1, <1>9 DEF Good

\* A path without such segments is clean.
LEMMA CleanPath ==
  ASSUME NEW S, NEW p \in Seq(S), \A i \in 1 .. Len(p) : p[i] \notin Dots
  PROVE  SplitPath(p) = p
<1> DEFINE n == Len(p)
<1>1. PICK acc : Cleaning(p, S, acc) /\ SplitPath(p) = acc[n]
  BY SplitPathRuns
<1>2. acc[0] = <<>> /\ \A k \in 0 .. n : acc[k] \in Seq(S)
  BY <1>1 DEF Cleaning
<1>3. \A k \in 1 .. n : acc[k] = Cleaned(acc[k - 1], p[k]) /\ p[k] \in S /\ p[k] \notin Dots
  BY <1>1 DEF Cleaning
<1>4. n \in Nat /\ p = [i \in 1 .. n |-> p[i]]
  OBVIOUS
<1> HIDE DEF n
<1> DEFINE Good(s, k) == Len(s) = k /\ \A i \in 1 .. k : s[i] = p[i]
           T == {k \in 0 .. n : Good(acc[k], k)}
<1>5. 0 \in T
  <2>1. Good(<<>>, 0)
    OBVIOUS
  <2> HIDE DEF Good
  <2> QED
    BY <1>2, <1>4, <2>1
<1>6. ASSUME NEW k \in 1 .. n, Good(acc[k - 1], k - 1) PROVE Good(acc[k], k)
  <2> DEFINE a == acc[k - 1]
             t == p[k]
  <2>1. a \in Seq(S) /\ t \in S
    <3>1. k - 1 \in 0 .. n
      BY <1>4
    <3> QED
      BY <1>2, <1>3, <3>1
  <2>2. acc[k] = Cleaned(a, t) /\ t \notin Dots
    BY <1>3
  <2>3. Good(a, k - 1)
    BY <1>6
  <2>4. \A i \in 1 .. k : i \in 1 .. (k - 1) \/ i = k
    BY <1>4
  <2> HIDE DEF a
  <2>5. acc[k] = Append(a, t)
    BY <2>2 DEF Cleaned, Dots
  <2>6. Len(Append(a, t)) = Len(a) + 1 /\ Append(a, t)[Len(a) + 1] = t
    BY <2>1
  <2>7. \A i \in 1 .. Len(a) : Append(a, t)[i] = a[i]
    BY <2>1
  <2>8. Len(a) = k - 1 /\ (k - 1) + 1 = k
    BY <1>4, <2>3
  <2> QED
    BY <2>3, <2>4, <2>5, <2>6, <2>7, <2>8
<1> HIDE DEF Good
<1>7. \A k \in 1 .. n : k - 1 \in T => k \in T
  BY <1>4, <1>6
<1>8. \A k \in 0 .. n : k \in T
  <2> HIDE DEF T
  <2> QED
    BY <1>4, <1>5, <1>7, UpTo
<1>9. Good(acc[n], n) /\ acc[n] \in Seq(S)
  BY <1>2, <1>4, <1>8
<1>10. acc[n] = p
  BY <1>4, <1>9 DEF Good
<1> QED
  BY <1>1, <1>10

\* What follows of numbers that are known.
LEMMA SmallNumbers ==
  /\ \A n \in Nat : (n > 0 => n # 0) /\ (n > 1 => n # 1)
  /\ \A n \in Nat : (n >= 2 /\ n # 2 => 3 <= n) /\ (~ (n <= 3) => 4 <= n)
  /\ 3 \in Nat /\ 1 <= 3 /\ 4 \in Nat /\ 1 <= 4
  /\ \A n : n = 2 => n > 0 /\ n > 1 /\ ~ (n > 2) /\ ~ (n >= 3)
  /\ \A n : n = 4 => n > 0 /\ n > 1 /\ n >= 2 /\ n >= 3 /\ n # 2
  /\ \A n : n = 6 => n > 0 /\ n > 1 /\ n >= 2 /\ n # 2
  /\ \A n : n = 7 => n > 0 /\ n > 1 /\ ~ (n <= 3)
  OBVIOUS

\* A sequence of some length is not empty, and not of another length.
LEMMA LongerThan ==
  ASSUME NEW S, NEW s \in Seq(S), NEW a
  PROVE  /\ Len(s) > 0 => s # <<>>
         /\ Len(s) > 1 => s # <<a>>
<1>0. Len(s) \in Nat
  OBVIOUS
<1>1. Len(<<>>) = 0 /\ Len(<<a>>) = 1
  OBVIOUS
<1>2. (Len(s) > 0 => Len(s) # 0) /\ (Len(s) > 1 => Len(s) # 1)
  BY <1>0, SmallNumbers, Zenon
<1> QED
  BY <1>1, <1>2, Zenon

\* What is left of a sequence from a position on.
LEMMA Suffix ==
  ASSUME NEW S, NEW s \in Seq(S), NEW i \in Nat, NEW n \in Nat, 1 <= i, i <= n, Len(s) = n
  PROVE  /\ SubSeq(s, i, n) \in Seq(S) /\ Len(SubSeq(s, i, n)) = n - i + 1
         /\ \A j \in 1 .. (n - i + 1) : SubSeq(s, i, n)[j] = s[i + j - 1]
<1> DEFINE m == n - i + 1
<1>1. m \in Nat /\ \A j \in 1 .. m : i + j - 1 \in 1 .. n
  OBVIOUS
<1>2. SubSeq(s, i, n) = [j \in 1 .. m |-> s[i + j - 1]]
  OBVIOUS
<1>3. \A j \in 1 .. n : s[j] \in S
  OBVIOUS
<1> HIDE DEF m
<1>4. [j \in 1 .. m |-> s[i + j - 1]] \in Seq(S)
  BY <1>1, <1>3
<1>5. Len([j \in 1 .. m |-> s[i + j - 1]]) = m
  BY <1>1
<1> QED
  BY <1>2, <1>4, <1>5 DEF m

\* The last two elements of four.
LEMMA LastTwo ==
  ASSUME NEW S, NEW s \in Seq(S), Len(s) = 4
  PROVE  /\ SubSeq(s, 3, Len(s)) \in Seq(S) /\ Len(SubSeq(s, 3, Len(s))) = 2
         /\ SubSeq(s, 3, Len(s))[1] = s[3] /\ SubSeq(s, 3, Len(s))[2] = s[4]
<1> DEFINE u == SubSeq(s, 3, 4)
<1>1. 1 <= 3 /\ 3 <= 4 /\ 3 \in Nat /\ 4 \in Nat
  OBVIOUS
<1>2. u \in Seq(S) /\ Len(u) = 4 - 3 + 1 /\ \A j \in 1 .. (4 - 3 + 1) : u[j] = s[3 + j - 1]
  BY <1>1, Suffix, Zenon
<1> HIDE DEF u
<1>3. /\ 4 - 3 + 1 = 2 /\ 3 + 1 - 1 = 3 /\ 3 + 2 - 1 = 4
      /\ 1 \in 1 .. 2 /\ 2 \in 1 .. 2
  OBVIOUS
<1>4. u[1] = s[3] /\ u[2] = s[4] /\ Len(u) = 2
  BY <1>2, <1>3, Zenon
<1> QED
  BY <1>2, <1>4, Zenon DEF u

\* The last four of six.
LEMMA LastFourOfSix ==
  ASSUME NEW S, NEW s \in Seq(S), Len(s) = 6
  PROVE  /\ SubSeq(s, 3, Len(s)) \in Seq(S) /\ Len(SubSeq(s, 3, Len(s))) = 4
         /\ SubSeq(s, 3, Len(s))[1] = s[3] /\ SubSeq(s, 3, Len(s))[2] = s[4]
         /\ SubSeq(s, 3, Len(s))[3] = s[5] /\ SubSeq(s, 3, Len(s))[4] = s[6]
<1> DEFINE u == SubSeq(s, 3, 6)
<1>1. 1 <= 3 /\ 3 <= 6 /\ 3 \in Nat /\ 6 \in Nat
  OBVIOUS
<1>2. u \in Seq(S) /\ Len(u) = 6 - 3 + 1 /\ \A j \in 1 .. (6 - 3 + 1) : u[j] = s[3 + j - 1]
  BY <1>1, Suffix, Zenon
<1> HIDE DEF u
<1>3. /\ 6 - 3 + 1 = 4 /\ 3 + 1 - 1 = 3 /\ 3 + 2 - 1 = 4 /\ 3 + 3 - 1 = 5 /\ 3 + 4 - 1 = 6
      /\ 1 \in 1 .. 4 /\ 2 \in 1 .. 4 /\ 3 \in 1 .. 4 /\ 4 \in 1 .. 4
  OBVIOUS
<1>4. u[1] = s[3] /\ u[2] = s[4] /\ u[3] = s[5] /\ u[4] = s[6] /\ Len(u) = 4
  BY <1>2, <1>3, Zenon
<1> QED
  BY <1>2, <1>4, Zenon DEF u

\* The last four of seven.
LEMMA LastFourOfSeven ==
  ASSUME NEW S, NEW s \in Seq(S), Len(s) = 7
  PROVE  /\ SubSeq(s, 4, Len(s)) \in Seq(S) /\ Len(SubSeq(s, 4, Len(s))) = 4
         /\ SubSeq(s, 4, Len(s))[1] = s[4] /\ SubSeq(s, 4, Len(s))[2] = s[5]
         /\ SubSeq(s, 4, Len(s))[3] = s[6] /\ SubSeq(s, 4, Len(s))[4] = s[7]
<1> DEFINE u == SubSeq(s, 4, 7)
<1>1. 1 <= 4 /\ 4 <= 7 /\ 4 \in Nat /\ 7 \in Nat
  OBVIOUS
<1>2. u \in Seq(S) /\ Len(u) = 7 - 4 + 1 /\ \A j \in 1 .. (7 - 4 + 1) : u[j] = s[4 + j - 1]
  BY <1>1, Suffix, Zenon
<1> HIDE DEF u
<1>3. /\ 7 - 4 + 1 = 4 /\ 4 + 1 - 1 = 4 /\ 4 + 2 - 1 = 5 /\ 4 + 3 - 1 = 6 /\ 4 + 4 - 1 = 7
      /\ 1 \in 1 .. 4 /\ 2 \in 1 .. 4 /\ 3 \in 1 .. 4 /\ 4 \in 1 .. 4
  OBVIOUS
<1>4. u[1] = s[4] /\ u[2] = s[5] /\ u[3] = s[6] /\ u[4] = s[7] /\ Len(u) = 4
  BY <1>2, <1>3, Zenon
<1> QED
  BY <1>2, <1>4, Zenon DEF u

\* The catalogue, group by group.
LEMMA Catalogue ==
  /\ Core # Apps /\ Core # Metrics /\ Core # Authorization
  /\ Apps # Metrics /\ Apps # Authorization /\ Metrics # Authorization
  /\ Namespaced(Core) = {"pods", "serviceaccounts", "configmaps"} /\ ClusterWide(Core) = {"nodes", "namespaces"}
  /\ Namespaced(Apps) = {"deployments"} /\ ClusterWide(Apps) = {}
  /\ \A gv : gv \notin {Core, Apps, Metrics, Authorization} => Resources(gv) = {}
<1>1. /\ Core # Apps /\ Core # Metrics /\ Core # Authorization
      /\ Apps # Metrics /\ Apps # Authorization /\ Metrics # Authorization
  BY DEF Core, Apps, Metrics, Authorization
<1>2. Namespaced(Core) = {"pods", "serviceaccounts", "configmaps"} /\ ClusterWide(Core) = {"nodes", "namespaces"}
  BY <1>1 DEF Namespaced, ClusterWide
<1>3. Namespaced(Apps) = {"deployments"} /\ ClusterWide(Apps) = {}
  BY <1>1 DEF Namespaced, ClusterWide
<1>4. ASSUME NEW gv, gv \notin {Core, Apps, Metrics, Authorization} PROVE Resources(gv) = {}
  BY <1>4 DEF Resources, Namespaced, ClusterWide
<1> QED
  BY <1>1, <1>2, <1>3, <1>4

\* A resource and a name without a namespace are found.
LEMMA ClusterWideRoute ==
  ASSUME NEW gv, gv \in {Core, Apps}, NEW S, NEW parts \in Seq(S), Len(parts) = 2, NEW method,
         parts[1] \in Resources(gv), parts[1] \notin Namespaced(gv), parts[2] # ""
  PROVE  ResourcePath(gv, parts, method, FALSE) = Route(OnObject(method), gv, parts[1], "", parts[2])
<1>1. gv # Metrics /\ gv # Authorization
  BY Catalogue
<1>2. parts # <<>>
  <2>1. Len(parts) > 0
    BY SmallNumbers, Zenon
  <2> QED
    BY <2>1, LongerThan
<1>3. InScope(gv, parts[1], "", parts[2])
  BY DEF InScope
<1>4. ~ (Len(parts) >= 3) /\ Len(parts) > 1 /\ ~ (Len(parts) > 2)
  BY SmallNumbers, Zenon
<1> QED
  BY <1>1, <1>2, <1>3, <1>4, Zenon DEF ResourcePath

\* So are a resource and a name in a namespace.
LEMMA NamespacedRoute ==
  ASSUME NEW gv, gv \in {Core, Apps}, NEW S, NEW parts \in Seq(S), Len(parts) = 4, NEW method,
         parts[1] = "namespaces", parts[2] # "", parts[3] \in Namespaced(gv), parts[4] # ""
  PROVE  ResourcePath(gv, parts, method, FALSE) = Route(OnObject(method), gv, parts[3], parts[2], parts[4])
<1> DEFINE rest == SubSeq(parts, 3, Len(parts))
<1>1. gv # Metrics /\ gv # Authorization
  BY Catalogue
<1>2. parts # <<>> /\ Len(parts) >= 3
  <2>1. Len(parts) > 0 /\ Len(parts) >= 3
    BY SmallNumbers, Zenon
  <2> QED
    BY <2>1, LongerThan
<1>3. Len(rest) = 2 /\ rest[1] = parts[3] /\ rest[2] = parts[4]
  BY LastTwo
<1>4. InScope(gv, parts[3], parts[2], parts[4]) /\ parts[3] \in Resources(gv)
  BY DEF InScope, Resources
<1> HIDE DEF rest
<1>5. Len(rest) > 1 /\ ~ (Len(rest) > 2)
  BY <1>3, SmallNumbers, Zenon
<1> QED
  BY <1>1, <1>2, <1>3, <1>4, <1>5, Zenon DEF ResourcePath, rest

\* A path of clean segments is clean.
LEMMA CleanSegments ==
  ASSUME NEW S, S \cap Dots = {}, NEW p \in Seq(S)
  PROVE  SplitPath(p) = p
<1>1. \A i \in 1 .. Len(p) : p[i] \in S
  OBVIOUS
<1>2. \A i \in 1 .. Len(p) : p[i] \notin Dots
  BY <1>1, Zenon
<1> QED
  BY <1>2, CleanPath

\* w is u, of n elements, followed by v, of m.
Juxtaposed(S, w, u, v, n, m) ==
    /\ w \in Seq(S) /\ Len(w) = n + m
    /\ \A i \in 1 .. n : w[i] = u[i]
    /\ \A i \in 1 .. m : w[n + i] = v[i]

\* Two sequences put together, element by element.
LEMMA Joined ==
  ASSUME NEW S, NEW u \in Seq(S), NEW v \in Seq(S)
  PROVE  Juxtaposed(S, u \o v, u, v, Len(u), Len(v))
  BY DEF Juxtaposed

\* p has these segments.
Four(S, p, a, b, c, d) ==
    /\ p \in Seq(S) /\ Len(p) = 4 /\ p[1] = a /\ p[2] = b /\ p[3] = c
    /\ p[4] = d

\* The path of a cluster-wide object of the core group, put together.
LEMMA FourJoined ==
  ASSUME NEW S, NEW a \in S, NEW b \in S, NEW c \in S, NEW d \in S
  PROVE  Four(S, <<a, b>> \o <<>> \o <<c>> \o <<d>>, a, b, c, d)
<1> DEFINE u1 == <<a, b>>
           v2 == <<>>
           v3 == <<c>>
           v4 == <<d>>
<1>1. /\ u1 \in Seq(S) /\ Len(u1) = 2 /\ u1[1] = a /\ u1[2] = b
  OBVIOUS
<1>2. /\ v2 \in Seq(S) /\ Len(v2) = 0
  OBVIOUS
<1>3. /\ v3 \in Seq(S) /\ Len(v3) = 1 /\ v3[1] = c
  OBVIOUS
<1>4. /\ v4 \in Seq(S) /\ Len(v4) = 1 /\ v4[1] = d
  OBVIOUS
<1> HIDE DEF u1, v2, v3, v4
<1> DEFINE u2 == u1 \o v2
<1>5. /\ u2 \in Seq(S) /\ Len(u2) = 2 /\ u2[1] = a /\ u2[2] = b
  <2>1. /\ 2 \in Nat /\ 0 \in Nat /\ 2 + 0 = 2 /\ 1 \in 1 .. 2 /\ 2 \in 1 .. 2
    OBVIOUS
  <2>2. /\ u2 \in Seq(S) /\ Len(u2) = 2 + 0
        /\ \A i \in 1 .. 2 : u2[i] = u1[i]
        /\ \A i \in 1 .. 0 : u2[2 + i] = v2[i]
    <3>1. Juxtaposed(S, u1 \o v2, u1, v2, Len(u1), Len(v2))
      BY <1>1, <1>2, Joined, Zenon
    <3> QED
      BY <1>1, <1>2, <3>1, Zenon DEF Juxtaposed
  <2> HIDE DEF u2
  <2> QED
    BY <1>1, <1>2, <2>1, <2>2, Zenon
<1> HIDE DEF u2
<1> DEFINE u3 == u2 \o v3
<1>6. /\ u3 \in Seq(S) /\ Len(u3) = 3 /\ u3[1] = a /\ u3[2] = b /\ u3[3] = c
  <2>1. /\ 2 \in Nat /\ 1 \in Nat /\ 2 + 1 = 3 /\ 1 \in 1 .. 2 /\ 2 \in 1 .. 2
        /\ 1 \in 1 .. 1
    OBVIOUS
  <2>2. /\ u3 \in Seq(S) /\ Len(u3) = 2 + 1
        /\ \A i \in 1 .. 2 : u3[i] = u2[i]
        /\ \A i \in 1 .. 1 : u3[2 + i] = v3[i]
    <3>1. Juxtaposed(S, u2 \o v3, u2, v3, Len(u2), Len(v3))
      BY <1>5, <1>3, Joined, Zenon
    <3> QED
      BY <1>5, <1>3, <3>1, Zenon DEF Juxtaposed
  <2> HIDE DEF u3
  <2> QED
    BY <1>5, <1>3, <2>1, <2>2, Zenon
<1> HIDE DEF u3
<1> DEFINE u4 == u3 \o v4
<1>7. /\ u4 \in Seq(S) /\ Len(u4) = 4 /\ u4[1] = a /\ u4[2] = b /\ u4[3] = c
      /\ u4[4] = d
  <2>1. /\ 3 \in Nat /\ 1 \in Nat /\ 3 + 1 = 4 /\ 1 \in 1 .. 3 /\ 2 \in 1 .. 3
        /\ 3 \in 1 .. 3 /\ 1 \in 1 .. 1
    OBVIOUS
  <2>2. /\ u4 \in Seq(S) /\ Len(u4) = 3 + 1
        /\ \A i \in 1 .. 3 : u4[i] = u3[i]
        /\ \A i \in 1 .. 1 : u4[3 + i] = v4[i]
    <3>1. Juxtaposed(S, u3 \o v4, u3, v4, Len(u3), Len(v4))
      BY <1>6, <1>4, Joined, Zenon
    <3> QED
      BY <1>6, <1>4, <3>1, Zenon DEF Juxtaposed
  <2> HIDE DEF u4
  <2> QED
    BY <1>6, <1>4, <2>1, <2>2, Zenon
<1> HIDE DEF u4
<1> QED
  BY <1>7, Zenon DEF Four, u1, v2, u2, v3, u3, v4, u4

\* p has these segments.
Six(S, p, a, b, c, d, e, f) ==
    /\ p \in Seq(S) /\ Len(p) = 6 /\ p[1] = a /\ p[2] = b /\ p[3] = c
    /\ p[4] = d /\ p[5] = e /\ p[6] = f

\* The path of a namespaced one.
LEMMA SixJoined ==
  ASSUME NEW S, NEW a \in S, NEW b \in S, NEW c \in S, NEW d \in S, NEW e \in S, NEW f \in S
  PROVE  Six(S, <<a, b>> \o <<c, d>> \o <<e>> \o <<f>>, a, b, c, d, e, f)
<1> DEFINE u1 == <<a, b>>
           v2 == <<c, d>>
           v3 == <<e>>
           v4 == <<f>>
<1>1. /\ u1 \in Seq(S) /\ Len(u1) = 2 /\ u1[1] = a /\ u1[2] = b
  OBVIOUS
<1>2. /\ v2 \in Seq(S) /\ Len(v2) = 2 /\ v2[1] = c /\ v2[2] = d
  OBVIOUS
<1>3. /\ v3 \in Seq(S) /\ Len(v3) = 1 /\ v3[1] = e
  OBVIOUS
<1>4. /\ v4 \in Seq(S) /\ Len(v4) = 1 /\ v4[1] = f
  OBVIOUS
<1> HIDE DEF u1, v2, v3, v4
<1> DEFINE u2 == u1 \o v2
<1>5. /\ u2 \in Seq(S) /\ Len(u2) = 4 /\ u2[1] = a /\ u2[2] = b /\ u2[3] = c
      /\ u2[4] = d
  <2>1. /\ 2 \in Nat /\ 2 + 2 = 4 /\ 1 \in 1 .. 2 /\ 2 \in 1 .. 2 /\ 2 + 1 = 3
    OBVIOUS
  <2>2. /\ u2 \in Seq(S) /\ Len(u2) = 2 + 2
        /\ \A i \in 1 .. 2 : u2[i] = u1[i]
        /\ \A i \in 1 .. 2 : u2[2 + i] = v2[i]
    <3>1. Juxtaposed(S, u1 \o v2, u1, v2, Len(u1), Len(v2))
      BY <1>1, <1>2, Joined, Zenon
    <3> QED
      BY <1>1, <1>2, <3>1, Zenon DEF Juxtaposed
  <2> HIDE DEF u2
  <2> QED
    BY <1>1, <1>2, <2>1, <2>2, Zenon
<1> HIDE DEF u2
<1> DEFINE u3 == u2 \o v3
<1>6. /\ u3 \in Seq(S) /\ Len(u3) = 5 /\ u3[1] = a /\ u3[2] = b /\ u3[3] = c
      /\ u3[4] = d /\ u3[5] = e
  <2>1. /\ 4 \in Nat /\ 1 \in Nat /\ 4 + 1 = 5 /\ 1 \in 1 .. 4 /\ 2 \in 1 .. 4
        /\ 3 \in 1 .. 4 /\ 4 \in 1 .. 4 /\ 1 \in 1 .. 1
    OBVIOUS
  <2>2. /\ u3 \in Seq(S) /\ Len(u3) = 4 + 1
        /\ \A i \in 1 .. 4 : u3[i] = u2[i]
        /\ \A i \in 1 .. 1 : u3[4 + i] = v3[i]
    <3>1. Juxtaposed(S, u2 \o v3, u2, v3, Len(u2), Len(v3))
      BY <1>5, <1>3, Joined, Zenon
    <3> QED
      BY <1>5, <1>3, <3>1, Zenon DEF Juxtaposed
  <2> HIDE DEF u3
  <2> QED
    BY <1>5, <1>3, <2>1, <2>2, Zenon
<1> HIDE DEF u3
<1> DEFINE u4 == u3 \o v4
<1>7. /\ u4 \in Seq(S) /\ Len(u4) = 6 /\ u4[1] = a /\ u4[2] = b /\ u4[3] = c
      /\ u4[4] = d /\ u4[5] = e /\ u4[6] = f
  <2>1. /\ 5 \in Nat /\ 1 \in Nat /\ 5 + 1 = 6 /\ 1 \in 1 .. 5 /\ 2 \in 1 .. 5
        /\ 3 \in 1 .. 5 /\ 4 \in 1 .. 5 /\ 5 \in 1 .. 5 /\ 1 \in 1 .. 1
    OBVIOUS
  <2>2. /\ u4 \in Seq(S) /\ Len(u4) = 5 + 1
        /\ \A i \in 1 .. 5 : u4[i] = u3[i]
        /\ \A i \in 1 .. 1 : u4[5 + i] = v4[i]
    <3>1. Juxtaposed(S, u3 \o v4, u3, v4, Len(u3), Len(v4))
      BY <1>6, <1>4, Joined, Zenon
    <3> QED
      BY <1>6, <1>4, <3>1, Zenon DEF Juxtaposed
  <2> HIDE DEF u4
  <2> QED
    BY <1>6, <1>4, <2>1, <2>2, Zenon
<1> HIDE DEF u4
<1> QED
  BY <1>7, Zenon DEF Six, u1, v2, u2, v3, u3, v4, u4

\* p has these segments.
Seven(S, p, a, b, c, d, e, f, g) ==
    /\ p \in Seq(S) /\ Len(p) = 7 /\ p[1] = a /\ p[2] = b /\ p[3] = c
    /\ p[4] = d /\ p[5] = e /\ p[6] = f /\ p[7] = g

\* The path of a namespaced object of a named group.
LEMMA SevenJoined ==
  ASSUME NEW S, NEW a \in S, NEW b \in S, NEW c \in S, NEW d \in S, NEW e \in S, NEW f \in S, NEW g \in S
  PROVE  Seven(S, <<a>> \o <<b, c>> \o <<d, e>> \o <<f>> \o <<g>>, a, b, c, d, e, f, g)
<1> DEFINE u1 == <<a>>
           v2 == <<b, c>>
           v3 == <<d, e>>
           v4 == <<f>>
           v5 == <<g>>
<1>1. /\ u1 \in Seq(S) /\ Len(u1) = 1 /\ u1[1] = a
  OBVIOUS
<1>2. /\ v2 \in Seq(S) /\ Len(v2) = 2 /\ v2[1] = b /\ v2[2] = c
  OBVIOUS
<1>3. /\ v3 \in Seq(S) /\ Len(v3) = 2 /\ v3[1] = d /\ v3[2] = e
  OBVIOUS
<1>4. /\ v4 \in Seq(S) /\ Len(v4) = 1 /\ v4[1] = f
  OBVIOUS
<1>5. /\ v5 \in Seq(S) /\ Len(v5) = 1 /\ v5[1] = g
  OBVIOUS
<1> HIDE DEF u1, v2, v3, v4, v5
<1> DEFINE u2 == u1 \o v2
<1>6. /\ u2 \in Seq(S) /\ Len(u2) = 3 /\ u2[1] = a /\ u2[2] = b /\ u2[3] = c
  <2>1. /\ 1 \in Nat /\ 2 \in Nat /\ 1 + 2 = 3 /\ 1 \in 1 .. 1 /\ 1 \in 1 .. 2
        /\ 2 \in 1 .. 2 /\ 1 + 1 = 2
    OBVIOUS
  <2>2. /\ u2 \in Seq(S) /\ Len(u2) = 1 + 2
        /\ \A i \in 1 .. 1 : u2[i] = u1[i]
        /\ \A i \in 1 .. 2 : u2[1 + i] = v2[i]
    <3>1. Juxtaposed(S, u1 \o v2, u1, v2, Len(u1), Len(v2))
      BY <1>1, <1>2, Joined, Zenon
    <3> QED
      BY <1>1, <1>2, <3>1, Zenon DEF Juxtaposed
  <2> HIDE DEF u2
  <2> QED
    BY <1>1, <1>2, <2>1, <2>2, Zenon
<1> HIDE DEF u2
<1> DEFINE u3 == u2 \o v3
<1>7. /\ u3 \in Seq(S) /\ Len(u3) = 5 /\ u3[1] = a /\ u3[2] = b /\ u3[3] = c
      /\ u3[4] = d /\ u3[5] = e
  <2>1. /\ 3 \in Nat /\ 2 \in Nat /\ 3 + 2 = 5 /\ 1 \in 1 .. 3 /\ 2 \in 1 .. 3
        /\ 3 \in 1 .. 3 /\ 1 \in 1 .. 2 /\ 2 \in 1 .. 2 /\ 3 + 1 = 4
    OBVIOUS
  <2>2. /\ u3 \in Seq(S) /\ Len(u3) = 3 + 2
        /\ \A i \in 1 .. 3 : u3[i] = u2[i]
        /\ \A i \in 1 .. 2 : u3[3 + i] = v3[i]
    <3>1. Juxtaposed(S, u2 \o v3, u2, v3, Len(u2), Len(v3))
      BY <1>6, <1>3, Joined, Zenon
    <3> QED
      BY <1>6, <1>3, <3>1, Zenon DEF Juxtaposed
  <2> HIDE DEF u3
  <2> QED
    BY <1>6, <1>3, <2>1, <2>2, Zenon
<1> HIDE DEF u3
<1> DEFINE u4 == u3 \o v4
<1>8. /\ u4 \in Seq(S) /\ Len(u4) = 6 /\ u4[1] = a /\ u4[2] = b /\ u4[3] = c
      /\ u4[4] = d /\ u4[5] = e /\ u4[6] = f
  <2>1. /\ 5 \in Nat /\ 1 \in Nat /\ 5 + 1 = 6 /\ 1 \in 1 .. 5 /\ 2 \in 1 .. 5
        /\ 3 \in 1 .. 5 /\ 4 \in 1 .. 5 /\ 5 \in 1 .. 5 /\ 1 \in 1 .. 1
    OBVIOUS
  <2>2. /\ u4 \in Seq(S) /\ Len(u4) = 5 + 1
        /\ \A i \in 1 .. 5 : u4[i] = u3[i]
        /\ \A i \in 1 .. 1 : u4[5 + i] = v4[i]
    <3>1. Juxtaposed(S, u3 \o v4, u3, v4, Len(u3), Len(v4))
      BY <1>7, <1>4, Joined, Zenon
    <3> QED
      BY <1>7, <1>4, <3>1, Zenon DEF Juxtaposed
  <2> HIDE DEF u4
  <2> QED
    BY <1>7, <1>4, <2>1, <2>2, Zenon
<1> HIDE DEF u4
<1> DEFINE u5 == u4 \o v5
<1>9. /\ u5 \in Seq(S) /\ Len(u5) = 7 /\ u5[1] = a /\ u5[2] = b /\ u5[3] = c
      /\ u5[4] = d /\ u5[5] = e /\ u5[6] = f /\ u5[7] = g
  <2>1. /\ 6 \in Nat /\ 1 \in Nat /\ 6 + 1 = 7 /\ 1 \in 1 .. 6 /\ 2 \in 1 .. 6
        /\ 3 \in 1 .. 6 /\ 4 \in 1 .. 6 /\ 5 \in 1 .. 6 /\ 6 \in 1 .. 6 /\ 1 \in 1 .. 1
    OBVIOUS
  <2>2. /\ u5 \in Seq(S) /\ Len(u5) = 6 + 1
        /\ \A i \in 1 .. 6 : u5[i] = u4[i]
        /\ \A i \in 1 .. 1 : u5[6 + i] = v5[i]
    <3>1. Juxtaposed(S, u4 \o v5, u4, v5, Len(u4), Len(v5))
      BY <1>8, <1>5, Joined, Zenon
    <3> QED
      BY <1>8, <1>5, <3>1, Zenon DEF Juxtaposed
  <2> HIDE DEF u5
  <2> QED
    BY <1>8, <1>5, <2>1, <2>2, Zenon
<1> HIDE DEF u5
<1> QED
  BY <1>9, Zenon DEF Seven, u1, v2, u2, v3, u3, v4, u4, v5, u5

\* The resources whose objects are stored.
StoredResources == {"pods", "serviceaccounts", "configmaps", "nodes", "namespaces", "deployments"}

\* What an addressable key is made of.
LEMMA KeyParts ==
  ASSUME NEW k, Addressable(k)
  PROVE  /\ k.gv \in {Core, Apps} /\ k.res \in Resources(k.gv) /\ k.res \in StoredResources
         /\ k.name \notin Dots /\ k.name # "x/y"
         /\ k.res \in Namespaced(k.gv) => k.ns \notin Dots
         /\ k.res \notin Namespaced(k.gv) => k.ns = ""
<1>1. /\ k.gv \in {Core, Apps} /\ k.res \in Resources(k.gv)
      /\ IF k.res \in Namespaced(k.gv) THEN k.ns \notin Dots ELSE k.ns = ""
      /\ k.name \notin Dots /\ k.name # "x/y"
  BY DEF Addressable, Dots
<1>2. k.res \in StoredResources
  BY <1>1, Catalogue DEF Resources, StoredResources
<1> QED
  BY <1>1, <1>2

\* The segments that every path and every resource has are clean.
LEMMA FixedSegments ==
  /\ "api" \notin Dots /\ "apis" \notin Dots /\ "v1" \notin Dots /\ "apps" \notin Dots /\ "namespaces" \notin Dots
  /\ \A r \in StoredResources : r \notin Dots
  BY DEF Dots, StoredResources

\* The path of an addressable key.
LEMMA PathOfKey ==
  ASSUME NEW k, Addressable(k)
  PROVE  /\ k.gv = Core /\ k.res \notin Namespaced(k.gv) =>
              CanonicalPath(k) = <<"api", "v1">> \o <<>> \o <<k.res>> \o <<k.name>>
         /\ k.gv = Core /\ k.res \in Namespaced(k.gv) =>
              CanonicalPath(k) = <<"api", "v1">> \o <<"namespaces", k.ns>> \o <<k.res>> \o <<k.name>>
         /\ k.gv = Apps =>
              CanonicalPath(k) = <<"apis">> \o <<"apps", "v1">> \o <<"namespaces", k.ns>> \o <<k.res>> \o <<k.name>>
<1>1. k.name # "x/y" /\ (k.res \in Namespaced(k.gv) => k.ns # "") /\ (k.res \notin Namespaced(k.gv) => k.ns = "")
  BY KeyParts DEF Dots
<1>2. k.gv = Apps => k.gv # Core /\ k.res \in Namespaced(k.gv)
  BY KeyParts, Catalogue DEF Resources
<1>3. CASE k.gv = Core
  BY <1>1, <1>2, <1>3, Zenon DEF CanonicalPath
<1>4. CASE k.gv = Apps
  BY <1>1, <1>2, <1>4, Zenon DEF CanonicalPath, Apps
<1> QED
  BY <1>2, <1>3, <1>4

\* A core object without a namespace is found under its own path.
LEMMA CoreRoute ==
  ASSUME NEW k, Addressable(k), k.gv = Core, k.res \notin Namespaced(k.gv), NEW method
  PROVE  Serve(CanonicalPath(k), method, FALSE) = Route(OnObject(method), k.gv, k.res, k.ns, k.name)
<1> DEFINE S == {"api", "v1", k.res, k.name}
           path == CanonicalPath(k)
           parts == SubSeq(path, 3, Len(path))
<1>1. /\ path \in Seq(S) /\ Len(path) = 4 /\ path[1] = "api" /\ path[2] = "v1"
      /\ path[3] = k.res /\ path[4] = k.name
  <2>1. "api" \in S /\ "v1" \in S /\ k.res \in S /\ k.name \in S
    OBVIOUS
  <2> HIDE DEF S
  <2>2. Four(S, <<"api", "v1">> \o <<>> \o <<k.res>> \o <<k.name>>,
             "api", "v1", k.res, k.name)
    BY <2>1, FourJoined, Zenon
  <2>3. path = <<"api", "v1">> \o <<>> \o <<k.res>> \o <<k.name>>
    BY PathOfKey, Zenon
  <2> HIDE DEF path
  <2> QED
    BY <2>2, <2>3, Zenon DEF Four
<1>2. S \cap Dots = {}
  BY KeyParts, FixedSegments, Zenon
<1> HIDE DEF S, path
<1>3. SplitPath(path) = path
  BY <1>1, <1>2, CleanSegments
<1>4. parts \in Seq(S) /\ Len(parts) = 2 /\ parts[1] = k.res /\ parts[2] = k.name
  BY <1>1, LastTwo, Zenon
<1>5. path # <<>> /\ path # <<"api">> /\ Len(path) >= 2 /\ Len(path) # 2
  BY <1>1, LongerThan, SmallNumbers, Zenon
<1>6. path[1] # "apis"
  BY <1>1
<1> HIDE DEF parts
<1>7. Serve(path, method, FALSE) = ResourcePath(Core, parts, method, FALSE)
  BY <1>1, <1>3, <1>5, <1>6, Zenon DEF Serve, parts
<1>8. parts[1] \in Resources(Core) /\ parts[1] \notin Namespaced(Core) /\ parts[2] # "" /\ k.ns = ""
  BY <1>4, KeyParts DEF Dots
<1>9. ResourcePath(Core, parts, method, FALSE) = Route(OnObject(method), Core, parts[1], "", parts[2])
  BY <1>4, <1>8, ClusterWideRoute, Zenon
<1> QED
  BY <1>4, <1>7, <1>8, <1>9, Zenon DEF path

\* So is one in a namespace.
LEMMA CoreNamespacedRoute ==
  ASSUME NEW k, Addressable(k), k.gv = Core, k.res \in Namespaced(k.gv), NEW method
  PROVE  Serve(CanonicalPath(k), method, FALSE) = Route(OnObject(method), k.gv, k.res, k.ns, k.name)
<1> DEFINE S == {"api", "v1", "namespaces", k.ns, k.res, k.name}
           path == CanonicalPath(k)
           parts == SubSeq(path, 3, Len(path))
<1>1. /\ path \in Seq(S) /\ Len(path) = 6 /\ path[1] = "api" /\ path[2] = "v1" /\ path[3] = "namespaces"
      /\ path[4] = k.ns /\ path[5] = k.res /\ path[6] = k.name
  <2>1. "api" \in S /\ "v1" \in S /\ "namespaces" \in S /\ k.ns \in S /\ k.res \in S /\ k.name \in S
    OBVIOUS
  <2> HIDE DEF S
  <2>2. Six(S, <<"api", "v1">> \o <<"namespaces", k.ns>> \o <<k.res>> \o <<k.name>>,
             "api", "v1", "namespaces", k.ns, k.res, k.name)
    BY <2>1, SixJoined, Zenon
  <2>3. path = <<"api", "v1">> \o <<"namespaces", k.ns>> \o <<k.res>> \o <<k.name>>
    BY PathOfKey, Zenon
  <2> HIDE DEF path
  <2> QED
    BY <2>2, <2>3, Zenon DEF Six
<1>2. S \cap Dots = {}
  BY KeyParts, FixedSegments, Zenon
<1> HIDE DEF S, path
<1>3. SplitPath(path) = path
  BY <1>1, <1>2, CleanSegments
<1>4. /\ parts \in Seq(S) /\ Len(parts) = 4 /\ parts[1] = "namespaces" /\ parts[2] = k.ns
      /\ parts[3] = k.res /\ parts[4] = k.name
  BY <1>1, LastFourOfSix, Zenon
<1>5. path # <<>> /\ path # <<"api">> /\ Len(path) >= 2 /\ Len(path) # 2
  BY <1>1, LongerThan, SmallNumbers, Zenon
<1>6. path[1] # "apis"
  BY <1>1
<1> HIDE DEF parts
<1>7. Serve(path, method, FALSE) = ResourcePath(Core, parts, method, FALSE)
  BY <1>1, <1>3, <1>5, <1>6, Zenon DEF Serve, parts
<1>8. parts[2] # "" /\ parts[3] \in Namespaced(Core) /\ parts[4] # ""
  BY <1>4, KeyParts DEF Dots
<1>9. ResourcePath(Core, parts, method, FALSE) = Route(OnObject(method), Core, parts[3], parts[2], parts[4])
  BY <1>4, <1>8, NamespacedRoute, Zenon
<1> QED
  BY <1>4, <1>7, <1>9, Zenon DEF path

\* So is an object of a named group.
LEMMA AppsRoute ==
  ASSUME NEW k, Addressable(k), k.gv = Apps, NEW method
  PROVE  Serve(CanonicalPath(k), method, FALSE) = Route(OnObject(method), k.gv, k.res, k.ns, k.name)
<1> DEFINE S == {"apis", "apps", "v1", "namespaces", k.ns, k.res, k.name}
           path == CanonicalPath(k)
           parts == SubSeq(path, 4, Len(path))
<1>0. k.res \in Namespaced(k.gv)
  BY KeyParts, Catalogue DEF Resources
<1>1. /\ path \in Seq(S) /\ Len(path) = 7 /\ path[1] = "apis" /\ path[2] = "apps" /\ path[3] = "v1"
      /\ path[4] = "namespaces" /\ path[5] = k.ns /\ path[6] = k.res /\ path[7] = k.name
  <2>1. "apis" \in S /\ "apps" \in S /\ "v1" \in S /\ "namespaces" \in S /\ k.ns \in S /\ k.res \in S /\ k.name \in S
    OBVIOUS
  <2> HIDE DEF S
  <2>2. Seven(S, <<"apis">> \o <<"apps", "v1">> \o <<"namespaces", k.ns>> \o <<k.res>> \o <<k.name>>,
             "apis", "apps", "v1", "namespaces", k.ns, k.res, k.name)
    BY <2>1, SevenJoined, Zenon
  <2>3. path = <<"apis">> \o <<"apps", "v1">> \o <<"namespaces", k.ns>> \o <<k.res>> \o <<k.name>>
    BY PathOfKey, Zenon
  <2> HIDE DEF path
  <2> QED
    BY <2>2, <2>3, Zenon DEF Seven
<1>2. S \cap Dots = {}
  BY <1>0, KeyParts, FixedSegments, Zenon
<1> HIDE DEF S, path
<1>3. SplitPath(path) = path
  BY <1>1, <1>2, CleanSegments
<1>4. /\ parts \in Seq(S) /\ Len(parts) = 4 /\ parts[1] = "namespaces" /\ parts[2] = k.ns
      /\ parts[3] = k.res /\ parts[4] = k.name
  BY <1>1, LastFourOfSeven, Zenon
<1>5. path # <<>> /\ path # <<"api">> /\ ~ (Len(path) <= 3)
  BY <1>1, LongerThan, SmallNumbers, Zenon
<1>6. path[1] # "api"
  BY <1>1
<1> HIDE DEF parts
<1>7. Serve(path, method, FALSE) = ResourcePath(<<path[2], path[3]>>, parts, method, FALSE)
  BY <1>1, <1>3, <1>5, <1>6, Zenon DEF Serve, parts
<1>8. parts[2] # "" /\ parts[3] \in Namespaced(Apps) /\ parts[4] # "" /\ <<path[2], path[3]>> = Apps
  BY <1>0, <1>1, <1>4, KeyParts DEF Dots, Apps
<1>9. ResourcePath(Apps, parts, method, FALSE) = Route(OnObject(method), Apps, parts[3], parts[2], parts[4])
  BY <1>4, <1>8, NamespacedRoute, Zenon
<1> QED
  BY <1>4, <1>7, <1>8, <1>9, Zenon DEF path

\* An addressable key is found under its own path.
LEMMA CanonicalRoute ==
  ASSUME NEW k, Addressable(k), NEW method
  PROVE  Serve(CanonicalPath(k), method, FALSE) = Route(OnObject(method), k.gv, k.res, k.ns, k.name)
<1>1. k.gv \in {Core, Apps}
  BY KeyParts
<1> QED
  BY <1>1, CoreRoute, CoreNamespacedRoute, AppsRoute

\* No subresource creates an object.
LEMMA SubresourcesCreateNothing ==
  ASSUME NEW gv, NEW ns, NEW res, NEW name, NEW sub, NEW method
  PROVE  Subresource(gv, ns, res, name, sub, method).op # "create"
<1> DEFINE to(op) == Route(op, gv, res, ns, name)
           r == Subresource(gv, ns, res, name, sub, method)
<1>1. r \in {NoRoute, to("evict"), to("scale"), to("get"), to("token"), to("patch"), to("log"), to("update")}
  BY Zenon DEF Subresource
<1>2. \A op : to(op).op = op
  BY DEF Route
<1>3. NoRoute.op = "refused"
  BY DEF NoRoute, Route
<1> HIDE DEF to, r
<1>4. r.op \in {"refused", "evict", "scale", "get", "token", "patch", "log", "update"}
  BY <1>1, <1>2, <1>3
<1>5. r.op # "create"
  BY <1>4
<1> QED
  BY <1>5 DEF r

\* r creates an object of a resource of the catalogue, in its scope and in the
\* namespace the path names.
CreateInScope(r, gv, parts) ==
    /\ r = Route("create", r.gv, r.res, r.ns, r.name) /\ r.gv = gv
    /\ gv \notin {Metrics, Authorization} /\ r.res \in Resources(gv) /\ InScope(gv, r.res, r.ns, r.name)
    /\ r.ns = "" \/ (Len(parts) >= 3 /\ r.ns = parts[2])

\* A create comes from a resource of the catalogue that is in scope.
LEMMA CreateIsInScope ==
  ASSUME NEW gv, NEW parts, NEW method, NEW watch, ResourcePath(gv, parts, method, watch).op = "create"
  PROVE  CreateInScope(ResourcePath(gv, parts, method, watch), gv, parts)
<1> DEFINE scoped == Len(parts) >= 3 /\ parts[1] = "namespaces"
           rest == IF scoped THEN SubSeq(parts, 3, Len(parts)) ELSE parts
           ns == IF scoped THEN parts[2] ELSE ""
           name == IF Len(rest) > 1 THEN rest[2] ELSE ""
           res == rest[1]
           to(op) == Route(op, gv, res, ns, name)
           sub == Subresource(gv, ns, res, name, rest[3], method)
           r == ResourcePath(gv, parts, method, watch)
           foreign == res \notin Resources(gv) \/ ~InScope(gv, res, ns, name)
           last == to(IF name = "" THEN OnCollection(method) ELSE OnObject(method))
<1>1. r = CASE parts = <<>> -> NoRoute
            [] Len(rest) > 2 -> sub
            [] foreign -> NoRoute
            [] gv = Metrics -> to("metrics")
            [] gv = Authorization -> to("review")
            [] watch -> IF name = "" /\ method = "GET" THEN to("watch") ELSE NoRoute
            [] OTHER -> last
  BY Zenon DEF ResourcePath
<1>2. ns = "" \/ (Len(parts) >= 3 /\ ns = parts[2])
  BY Zenon
<1>3. sub.op # "create"
  BY SubresourcesCreateNothing
<1>4. \A op : to(op) = [op |-> op, gv |-> gv, res |-> res, ns |-> ns, name |-> name]
  BY DEF Route
<1>5. NoRoute.op = "refused"
  BY DEF NoRoute, Route
<1>6. r.op = "create"
  OBVIOUS
<1> HIDE DEF r, sub, rest, ns, name, res, scoped
<1>7. r \in {NoRoute, sub, to("metrics"), to("review"), to("watch")} \/
      (r = last /\ ~foreign /\ gv # Metrics /\ gv # Authorization)
  <2> HIDE DEF to, foreign, last
  <2> QED
    BY <1>1, Zenon
<1>8. r \notin {NoRoute, sub, to("metrics"), to("review"), to("watch")}
  BY <1>3, <1>4, <1>5, <1>6
<1>9. r = last /\ ~foreign /\ gv # Metrics /\ gv # Authorization
  BY <1>7, <1>8
<1>10. PICK op : last = to(op)
  OBVIOUS
<1> HIDE DEF last
<1>11. r = to(op) /\ op = "create"
  BY <1>4, <1>6, <1>9, <1>10
<1>12. r.gv = gv /\ r.res = res /\ r.ns = ns /\ r.name = name /\ r = Route("create", gv, res, ns, name)
  BY <1>4, <1>11
<1> HIDE DEF to
<1>13. CreateInScope(r, gv, parts)
  BY <1>2, <1>9, <1>12, Zenon DEF CreateInScope
<1> QED
  BY <1>13, Zenon DEF r

\* What a route to create can say.
CreateRoute(r) ==
    /\ r = Route("create", r.gv, r.res, r.ns, r.name) /\ r.gv \in {Core, Apps} /\ r.res \in Resources(r.gv)
    /\ r.res \notin Namespaced(r.gv) => r.ns = ""
    /\ r.ns = "" \/ r.ns \notin Dots

\* A clean part of a path leads to such routes only.
LEMMA PartsCreate ==
  ASSUME NEW S, NEW path \in Seq(S), \A i \in 1 .. Len(path) : path[i] \notin Dots,
         NEW from \in Nat, 1 <= from, from <= Len(path), NEW gv, NEW method, NEW watch,
         ResourcePath(gv, SubSeq(path, from, Len(path)), method, watch).op = "create"
  PROVE  CreateRoute(ResourcePath(gv, SubSeq(path, from, Len(path)), method, watch))
<1> DEFINE n == Len(path)
           parts == SubSeq(path, from, n)
           m == n - from + 1
           r == ResourcePath(gv, parts, method, watch)
<1>0. n \in Nat /\ from <= n
  OBVIOUS
<1>1. /\ parts \in Seq(S) /\ Len(parts) = m
      /\ \A j \in 1 .. m : parts[j] = path[from + j - 1]
  <2> HIDE DEF n
  <2> QED
    BY <1>0, Suffix DEF n
<1>2. r.op = "create"
  OBVIOUS
<1> HIDE DEF parts
<1>3. /\ r = Route("create", r.gv, r.res, r.ns, r.name) /\ r.gv = gv
      /\ gv \notin {Metrics, Authorization} /\ r.res \in Resources(gv) /\ InScope(gv, r.res, r.ns, r.name)
      /\ r.ns = "" \/ (Len(parts) >= 3 /\ r.ns = parts[2])
  <2>1. CreateInScope(r, gv, parts)
    BY <1>2, CreateIsInScope
  <2> QED
    BY <2>1, Zenon DEF CreateInScope
<1>4. gv \in {Core, Apps}
  BY <1>3, Catalogue
<1>5. r.res \notin Namespaced(gv) => r.ns = ""
  BY <1>3 DEF InScope
<1>6. r.ns = "" \/ r.ns \notin Dots
  <2>1. ASSUME Len(parts) >= 3, r.ns = parts[2] PROVE r.ns \notin Dots
    <3> HIDE DEF n, r
    <3>1. m \in Int /\ m >= 3
      BY <1>0, <1>1, <2>1
    <3>2. 2 \in 1 .. m /\ from + 2 - 1 \in 1 .. n
      BY <1>0, <3>1
    <3>3. parts[2] = path[from + 2 - 1]
      BY <1>1, <3>2, Zenon
    <3> QED
      BY <2>1, <3>2, <3>3, Zenon DEF n
  <2> QED
    BY <1>3, <2>1
<1> HIDE DEF r
<1>7. CreateRoute(r)
  BY <1>3, <1>4, <1>5, <1>6, Zenon DEF CreateRoute
<1> QED
  BY <1>7 DEF r, parts

\* Whatever path is asked for, it does.
LEMMA RoutesThatCreate ==
  ASSUME NEW r \in Routes["create"]
  PROVE  CreateRoute(r)
<1>1. PICK p \in RequestPaths, method \in Methods, watch \in BOOLEAN : r = Serve(p, method, watch) /\ r.op = "create"
  BY DEF Routes
<1> DEFINE S == Range(p)
           parts == SplitPath(p)
           discovery == Route("discovery", Core, "", "", "")
           rest(i) == SubSeq(parts, i, Len(parts))
<1>2. parts \in Seq(S) /\ \A i \in 1 .. Len(parts) : parts[i] \notin Dots
  <2>1. p \in Seq(S)
    BY PathsAreSequences
  <2> HIDE DEF S
  <2> QED
    BY <2>1, SegmentsClean
<1>3. discovery.op # "create" /\ NoRoute.op # "create"
  BY DEF NoRoute, Route
<1>4. \/ r \in {discovery, NoRoute}
      \/ ~ (Len(parts) <= 3) /\ r = ResourcePath(<<parts[2], parts[3]>>, rest(4), method, watch)
      \/ Len(parts) >= 2 /\ Len(parts) # 2 /\ r = ResourcePath(Core, rest(3), method, watch)
  <2> DEFINE none == parts = <<>>
             apis == parts[1] = "apis"
             short == Len(parts) <= 3
             api == parts[1] = "api" /\ Len(parts) >= 2 /\ parts[2] = "v1"
             bare == parts = <<"api">>
             two == Len(parts) = 2
             named == ResourcePath(<<parts[2], parts[3]>>, rest(4), method, watch)
             core == ResourcePath(Core, rest(3), method, watch)
             first == IF short THEN discovery ELSE named
             second == IF two THEN discovery ELSE core
  <2>1. r = CASE none -> discovery [] apis -> first [] api -> second [] bare -> discovery [] OTHER -> NoRoute
    BY <1>1, Zenon DEF Serve
  <2>2. api => Len(parts) >= 2
    OBVIOUS
  <2> HIDE DEF none, apis, short, api, bare, two, named, core, discovery, parts
  <2>3. first = discovery \/ (~short /\ first = named)
    BY Zenon
  <2>4. second = discovery \/ (~two /\ second = core)
    BY Zenon
  <2> HIDE DEF first, second
  <2>5. r \in {discovery, NoRoute, first} \/ (api /\ r = second)
    BY <2>1
  <2> QED
    BY <2>2, <2>3, <2>4, <2>5, Zenon DEF short, two, named, core
<1> HIDE DEF parts, discovery, S
<1>5. Len(parts) \in Nat
  BY <1>2
<1>6. CASE ~ (Len(parts) <= 3) /\ r = ResourcePath(<<parts[2], parts[3]>>, rest(4), method, watch)
  <2>1. 4 \in Nat /\ 1 <= 4 /\ 4 <= Len(parts)
    BY <1>5, <1>6, SmallNumbers, Zenon
  <2> QED
    BY <1>1, <1>2, <1>6, <2>1, PartsCreate, Zenon
<1>7. CASE Len(parts) >= 2 /\ Len(parts) # 2 /\ r = ResourcePath(Core, rest(3), method, watch)
  <2>1. 3 \in Nat /\ 1 <= 3 /\ 3 <= Len(parts)
    BY <1>5, <1>7, SmallNumbers, Zenon
  <2> QED
    BY <1>1, <1>2, <1>7, <2>1, PartsCreate, Zenon
<1> QED
  BY <1>1, <1>3, <1>4, <1>6, <1>7

\* An object stored under a key of the catalogue and with the key's name.
Sound(k, object) == Addressable(k) /\ object.name = k.name

\* A store call that leaves no other object, and a request's calls.
SoundCall(call) == call.act # "DELETED" => Sound(call.key, call.object)
SoundCalls(calls) == \E S : calls \in Seq(S) /\ \A call \in S : SoundCall(call)

\* The inductive invariant: what is stored is sound, and so is every call a
\* request still has to make, whatever happens before it is made.
StoreSound ==
    /\ IsFiniteSet(DOMAIN objects) /\ rev \in Nat /\ generated \in Nat
    /\ \A k \in DOMAIN objects : Sound(k, objects[k])
    /\ job = [h \in Handlers |-> job[h]]
    /\ \A h \in Handlers : SoundCalls(job[h])

\* A request without calls, with one, with those of two, with a part of them.
LEMMA CallsCompose ==
  /\ SoundCalls(<<>>)
  /\ \A call : SoundCall(call) => SoundCalls(<<call>>)
  /\ \A a, b : SoundCalls(a) /\ SoundCalls(b) => SoundCalls(a \o b)
<1>1. SoundCalls(<<>>)
  <2> DEFINE S == {}
             e == <<>>
  <2>1. e \in Seq(S) /\ \A call \in S : SoundCall(call)
    OBVIOUS
  <2> HIDE DEF S, e
  <2>2. SoundCalls(e)
    BY <2>1 DEF SoundCalls
  <2> QED
    BY <2>2 DEF e
<1>2. ASSUME NEW call, SoundCall(call) PROVE SoundCalls(<<call>>)
  <2> DEFINE S == {call}
             e == <<call>>
  <2>1. e \in Seq(S) /\ \A c \in S : SoundCall(c)
    BY <1>2
  <2> HIDE DEF S, e
  <2>2. SoundCalls(e)
    BY <2>1 DEF SoundCalls
  <2> QED
    BY <2>2 DEF e
<1>3. ASSUME NEW a, NEW b, SoundCalls(a), SoundCalls(b) PROVE SoundCalls(a \o b)
  <2>1. PICK A : a \in Seq(A) /\ \A call \in A : SoundCall(call)
    BY <1>3 DEF SoundCalls
  <2>2. PICK B : b \in Seq(B) /\ \A call \in B : SoundCall(call)
    BY <1>3 DEF SoundCalls
  <2> DEFINE C == A \cup B
  <2>3. a \in Seq(C) /\ b \in Seq(C) /\ \A call \in C : SoundCall(call)
    BY <2>1, <2>2
  <2> HIDE DEF C
  <2>4. a \o b \in Seq(C)
    BY <2>3
  <2> QED
    BY <2>3, <2>4 DEF SoundCalls
<1> QED
  BY <1>1, <1>2, <1>3

\* What is left of the calls when one has been made.
LEMMA CallsLeft ==
  ASSUME NEW calls, SoundCalls(calls)
  PROVE  /\ \A i \in DOMAIN calls : SoundCall(calls[i]) /\ SoundCalls(RemoveAt(calls, i))
         /\ calls # <<>> => SoundCalls(Tail(calls))
<1>1. PICK S : calls \in Seq(S) /\ \A call \in S : SoundCall(call)
  BY DEF SoundCalls
<1> DEFINE n == Len(calls)
<1>2. n \in Nat /\ DOMAIN calls = 1 .. n /\ \A i \in 1 .. n : calls[i] \in S
  BY <1>1
<1>3. ASSUME NEW i \in DOMAIN calls PROVE SoundCalls(RemoveAt(calls, i))
  <2> DEFINE a == SubSeq(calls, 1, i - 1)
             b == SubSeq(calls, i + 1, n)
  <2>0. i \in 1 .. n
    BY <1>2
  <2> HIDE DEF n
  <2>1. a \in Seq(S)
    <3>1. i - 1 \in 0 .. n /\ i - 1 \in Nat
      BY <1>2, <2>0
    <3>2. \A j \in 1 .. (i - 1) : j \in 1 .. n
      BY <1>2, <2>0
    <3>3. a = [j \in 1 .. (i - 1) |-> calls[j]]
      BY <1>2, <2>0
    <3> HIDE DEF a
    <3> QED
      BY <1>2, <3>1, <3>2, <3>3
  <2>2. b \in Seq(S)
    <3> DEFINE m == n - i
    <3>1. m \in Nat /\ \A j \in 1 .. m : i + j \in 1 .. n
      BY <1>2, <2>0
    <3>2. b = [j \in 1 .. m |-> calls[i + j]]
      BY <1>2, <2>0
    <3> HIDE DEF b, m
    <3> QED
      BY <1>2, <3>1, <3>2
  <2> HIDE DEF a, b
  <2>3. a \o b \in Seq(S)
    BY <2>1, <2>2
  <2>4. RemoveAt(calls, i) = a \o b
    BY DEF RemoveAt, a, b, n
  <2> QED
    BY <1>1, <2>3, <2>4 DEF SoundCalls
<1>4. calls # <<>> => Tail(calls) \in Seq(S)
  BY <1>1
<1> QED
  BY <1>1, <1>2, <1>3, <1>4 DEF SoundCalls

\* A request that starts with sound calls keeps the store sound.
LEMMA StartsSound ==
  ASSUME StoreSound, NEW h \in Handlers, NEW calls, SoundCalls(calls), Start(h, calls), generated' \in Nat
  PROVE  StoreSound'
<1>1. objects' = objects /\ rev' = rev /\ job' = [job EXCEPT ![h] = calls]
  BY DEF Start
<1>2. job' = [g \in Handlers |-> IF g = h THEN calls ELSE job[g]]
  BY <1>1 DEF StoreSound
<1>3. job' = [g \in Handlers |-> job'[g]] /\ \A g \in Handlers : SoundCalls(job'[g])
  BY <1>2 DEF StoreSound
<1> QED
  BY <1>1, <1>3 DEF StoreSound

\* create puts a sound object and sound seeds: its name is checked or generated,
\* its namespace a segment of the path.
LEMMA CreateSound ==
  ASSUME StoreSound, NEW h \in Handlers, Create(h)
  PROVE  StoreSound'
<1> DEFINE Name(b) == IF b.name = "" THEN GeneratedNames[generated + 1] ELSE b.name
           Put(r, b, name) == Call("ADDED", [Key(r) EXCEPT !.name = name],
                                   [name |-> name, ns |-> IF r.ns # "" THEN r.ns ELSE b.ns, label |-> b.label])
           Seeds(r, name) == IF r.res = "namespaces" THEN NamespaceSeeds(name) ELSE <<>>
<1>1. PICK r \in Routes["create"], b \in Bodies :
        /\ r.res \in Namespaced(r.gv) => r.ns # ""
        /\ IF b.name = "" THEN NextName(b.prefix) ELSE ValidObjectName(b.name) /\ UNCHANGED generated
        /\ Start(h, <<Put(r, b, Name(b))>> \o Seeds(r, Name(b)))
  BY Zenon DEF Create
<1> DEFINE name == Name(b)
           put == Put(r, b, name)
           seeds == Seeds(r, name)
<1>2. CreateRoute(r)
  BY RoutesThatCreate
<1>3. name \notin InvalidNames /\ generated' \in Nat
  <2>1. CASE b.name = ""
    <3>1. generated < Len(GeneratedNames) /\ generated' = generated + 1
      BY <1>1, <2>1 DEF NextName
    <3>2. generated + 1 \in 1 .. Len(GeneratedNames) /\ generated + 1 \in Nat
      <4> DEFINE most == Len(GeneratedNames)
      <4>1. most \in Nat /\ generated \in Nat
        BY NamesAreChecked DEF StoreSound
      <4> HIDE DEF most
      <4> QED
        BY <3>1, <4>1 DEF most
    <3> QED
      BY <2>1, <3>1, <3>2, NamesAreChecked
  <2>2. CASE b.name # ""
    BY <1>1, <2>2 DEF ValidObjectName, StoreSound
  <2> QED
    BY <2>1, <2>2
<1>4. name \notin {"", ".", "..", "x/y"}
  BY <1>3, NamesAreChecked
<1>5. Start(h, <<put>> \o seeds)
  BY <1>1
<1> HIDE DEF name
<1>6. SoundCall(put)
  <2> DEFINE key == [gv |-> r.gv, res |-> r.res, ns |-> r.ns, name |-> name]
  <2>1. put.key = key /\ put.object.name = name
    BY DEF Call, Key
  <2>2. key = Key(key) /\ key.gv = r.gv /\ key.res = r.res /\ key.ns = r.ns /\ key.name = name
    BY DEF Key
  <2> HIDE DEF key, put
  <2>3. Addressable(key)
    BY <1>1, <1>2, <1>4, <2>2 DEF Addressable, CreateRoute, Dots
  <2> QED
    BY <2>1, <2>2, <2>3 DEF SoundCall, Sound
<1>7. SoundCalls(seeds)
  <2>1. CASE r.res = "namespaces"
    <3> DEFINE key(res, at) == [gv |-> Core, res |-> res, ns |-> name, name |-> at]
               seed(res, at) == Call("SEED", key(res, at), [name |-> at, ns |-> name, label |-> ""])
               one == seed("serviceaccounts", "default")
               two == seed("configmaps", "kube-root-ca.crt")
    <3>1. seeds = <<one, two>>
      BY <2>1 DEF NamespaceSeeds
    <3>2. \A res, at : Key(key(res, at)) = key(res, at)
      BY DEF Key
    <3>3. \A res, at : /\ key(res, at).gv = Core /\ key(res, at).res = res
                       /\ key(res, at).ns = name /\ key(res, at).name = at
                       /\ seed(res, at).key = key(res, at) /\ seed(res, at).object.name = at
      BY DEF Call
    <3> HIDE DEF key, seed
    <3>4. ASSUME NEW res \in Namespaced(Core), NEW at, at \notin {"", ".", "..", "x/y"}
          PROVE  SoundCall(seed(res, at))
      <4>1. Addressable(key(res, at))
        <5> DEFINE k == key(res, at)
        <5>1. k = Key(k) /\ k.gv = Core /\ k.res = res /\ k.ns = name /\ k.name = at
          BY <3>2, <3>3
        <5> HIDE DEF k
        <5>2. k.gv \in {Core, Apps} /\ k.res \in Resources(k.gv) /\ k.res \in Namespaced(k.gv)
          BY <5>1 DEF Resources
        <5>3. k.ns \notin {"", ".", ".."} /\ k.name \notin {"", ".", "..", "x/y"}
          BY <1>4, <3>4, <5>1
        <5>4. Addressable(k)
          BY <5>1, <5>2, <5>3, Zenon DEF Addressable
        <5> QED
          BY <5>4 DEF k
      <4> QED
        BY <3>3, <4>1 DEF SoundCall, Sound
    <3>5. "serviceaccounts" \in Namespaced(Core) /\ "configmaps" \in Namespaced(Core)
      BY Catalogue
    <3>6. "default" \notin {"", ".", "..", "x/y"} /\ "kube-root-ca.crt" \notin {"", ".", "..", "x/y"}
      OBVIOUS
    <3>7. SoundCall(one) /\ SoundCall(two)
      BY <3>4, <3>5, <3>6
    <3> HIDE DEF one, two
    <3> DEFINE S == {one, two}
               e == <<one, two>>
    <3>8. e \in Seq(S) /\ \A call \in S : SoundCall(call)
      BY <3>7
    <3> HIDE DEF S, e
    <3> QED
      BY <3>1, <3>8 DEF SoundCalls, e
  <2>2. CASE r.res # "namespaces"
    <3>1. seeds = <<>>
      BY <2>2
    <3> HIDE DEF seeds
    <3> QED
      BY <3>1, CallsCompose
  <2> QED
    BY <2>1, <2>2
<1> HIDE DEF put, seeds
<1>8. SoundCalls(<<put>> \o seeds)
  BY <1>6, <1>7, CallsCompose
<1> QED
  BY <1>3, <1>5, <1>8, StartsSound

\* update, patch and scale put a sound object: its key was found.
LEMMA ChangeSound ==
  ASSUME StoreSound, NEW h \in Handlers, Update(h) \/ Patch(h)
  PROVE  StoreSound'
<1>1. generated' \in Nat
  BY DEF StoreSound, Update, Patch
<1>2. PICK r, object : /\ Start(h, <<Call("MODIFIED", Key(r), object)>>)
                        /\ object.name = r.name /\ Key(r) \in DOMAIN objects
  <2>1. ASSUME NEW r \in Stored("scale") PROVE objects[Key(r)].name = r.name
    BY DEF StoreSound, Stored, Sound, Key
  <2>2. CASE Update(h)
    <3>1. PICK r \in Stored("update"), b \in Bodies :
            Start(h, <<Call("MODIFIED", Key(r),
                            [name |-> r.name, ns |-> IF r.ns # "" THEN r.ns ELSE b.ns, label |-> b.label])>>)
      BY <2>2 DEF Update
    <3> DEFINE object == [name |-> r.name, ns |-> IF r.ns # "" THEN r.ns ELSE b.ns, label |-> b.label]
    <3>2. Start(h, <<Call("MODIFIED", Key(r), object)>>) /\ object.name = r.name /\ Key(r) \in DOMAIN objects
      BY <3>1 DEF Stored
    <3> QED
      BY <3>2, Zenon
  <2>3. CASE Patch(h)
    <3>1. CASE \E r \in Stored("patch"), b \in Bodies :
                 Start(h, <<Call("MODIFIED", Key(r), [name |-> r.name, ns |-> b.ns, label |-> b.label])>>)
      <4>1. PICK r \in Stored("patch"), b \in Bodies :
              Start(h, <<Call("MODIFIED", Key(r), [name |-> r.name, ns |-> b.ns, label |-> b.label])>>)
        BY <3>1
      <4> DEFINE object == [name |-> r.name, ns |-> b.ns, label |-> b.label]
      <4>2. Start(h, <<Call("MODIFIED", Key(r), object)>>) /\ object.name = r.name /\ Key(r) \in DOMAIN objects
        BY <4>1 DEF Stored
      <4> QED
        BY <4>2, Zenon
    <3>2. CASE \E r \in Stored("scale") : Start(h, <<Call("MODIFIED", Key(r), objects[Key(r)])>>)
      <4>1. PICK r \in Stored("scale") : Start(h, <<Call("MODIFIED", Key(r), objects[Key(r)])>>)
        BY <3>2
      <4>2. Key(r) \in DOMAIN objects /\ objects[Key(r)].name = r.name
        BY <2>1 DEF Stored
      <4> QED
        BY <4>1, <4>2, Zenon
    <3> QED
      BY <2>3, <3>1, <3>2, Zenon DEF Patch
  <2> QED
    BY <2>2, <2>3
<1> DEFINE call == Call("MODIFIED", Key(r), object)
<1>3. SoundCall(call)
  <2>1. call.key = Key(r) /\ call.object = object /\ Key(r).name = r.name
    BY DEF Call, Key
  <2>2. Addressable(Key(r))
    BY <1>2 DEF StoreSound, Sound
  <2> HIDE DEF call
  <2> QED
    BY <1>2, <2>1, <2>2 DEF SoundCall, Sound
<1> HIDE DEF call
<1>4. SoundCalls(<<call>>)
  BY <1>3, CallsCompose
<1> QED
  BY <1>1, <1>2, <1>4, StartsSound DEF call

\* Deleting leaves no object.
LEMMA DeleteSound ==
  ASSUME StoreSound, NEW h \in Handlers, Delete(h) \/ DeleteCollection(h)
  PROVE  StoreSound'
<1>1. generated' \in Nat
  BY DEF StoreSound, Delete, DeleteCollection
<1>2. \A key, object : SoundCall(Call("DELETED", key, object))
  BY DEF SoundCall, Call
<1>3. CASE Delete(h)
  <2>1. PICK key, object : Start(h, <<Call("DELETED", key, object)>>)
    BY <1>3 DEF Delete
  <2> DEFINE call == Call("DELETED", key, object)
  <2>2. SoundCall(call)
    BY <1>2
  <2> HIDE DEF call
  <2>3. SoundCalls(<<call>>)
    BY <2>2, CallsCompose
  <2> QED
    BY <1>1, <2>1, <2>3, StartsSound DEF call
<1>4. CASE DeleteCollection(h)
  <2>1. PICK r, s : LET keys == Candidates(r.gv, r.res, r.ns, s.labels, s.fields)
                    IN Start(h, [i \in DOMAIN keys |-> Call("DELETED", keys[i], objects[keys[i]])])
    BY <1>4 DEF DeleteCollection
  <2> DEFINE keys == Candidates(r.gv, r.res, r.ns, s.labels, s.fields)
             calls == [i \in DOMAIN keys |-> Call("DELETED", keys[i], objects[keys[i]])]
  <2>2. \E n \in Nat : DOMAIN keys = 1 .. n
    <3> DEFINE M == {k \in DOMAIN objects :
                       /\ k.gv = r.gv /\ k.res = r.res /\ (r.ns = "" \/ k.ns = r.ns)
                       /\ ObjectMatches(objects[k], ParseSelector(s.labels).reqs, ParseSelector(s.fields).reqs)}
    <3>1. Cardinality(M) \in Nat
      BY FS_Subset, FS_CardinalityType DEF StoreSound
    <3>2. DOMAIN keys = 1 .. Cardinality(M)
      BY DEF Candidates
    <3> QED
      BY <3>1, <3>2
  <2> HIDE DEF keys
  <2>3. PICK n \in Nat : DOMAIN keys = 1 .. n
    BY <2>2
  <2> DEFINE S == {Call("DELETED", keys[i], objects[keys[i]]) : i \in 1 .. n}
  <2>4. calls \in Seq(S)
    BY <2>3
  <2>5. \A call \in S : SoundCall(call)
    BY <1>2
  <2> HIDE DEF calls, S
  <2>6. SoundCalls(calls)
    BY <2>4, <2>5 DEF SoundCalls
  <2> QED
    BY <1>1, <2>1, <2>6, StartsSound DEF calls, keys
<1> QED
  BY <1>3, <1>4

\* A store call changes one key: it stores a sound object or takes one away.
LEMMA StoreCallSound ==
  ASSUME StoreSound, NEW h \in Handlers, StoreCall(h)
  PROVE  StoreSound'
<1>0. IsFiniteSet(DOMAIN objects') /\ rev' \in Nat /\ generated' \in Nat
  <2>1. /\ IsFiniteSet(DOMAIN objects')
        /\ (objects' = objects /\ rev' = rev) \/ rev' = rev + 1
    BY WritingMovesRevision DEF StoreSound, Writing
  <2> QED
    BY <2>1 DEF StoreSound, StoreCall
<1> DEFINE there(call) == call.key \in DOMAIN objects
           taken(call) == there(call) /\ call.act \in {"ADDED", "SEED"}
           effect(call) == IF call.act = "DELETED" THEN there(call) ELSE ~taken(call)
           stored(call) == [k \in DOMAIN objects \cup {call.key} |->
                              IF k = call.key THEN call.object ELSE objects[k]]
<1>1. PICK i \in DOMAIN job[h] :
        LET call == job[h][i] IN
        /\ objects' = IF ~effect(call) THEN objects
                      ELSE IF call.act = "DELETED" THEN Restrict(objects, DOMAIN objects \ {call.key})
                      ELSE stored(call)
        /\ job' = [job EXCEPT ![h] = IF taken(call) /\ call.act = "ADDED" THEN <<>> ELSE RemoveAt(@, i)]
  BY DEF StoreCall
<1> DEFINE call == job[h][i]
           key == call.key
           left == IF taken(call) /\ call.act = "ADDED" THEN <<>> ELSE RemoveAt(job[h], i)
<1>2. SoundCalls(job[h])
  BY DEF StoreSound
<1>3. SoundCall(call) /\ SoundCalls(RemoveAt(job[h], i))
  BY <1>2, CallsLeft
<1>4. \/ objects' = objects
      \/ objects' = Restrict(objects, DOMAIN objects \ {key})
      \/ call.act # "DELETED" /\ objects' = stored(call)
  BY <1>1
<1>5. job' = [job EXCEPT ![h] = left]
  BY <1>1
<1>6. SoundCalls(left)
  <2>1. SoundCalls(<<>>)
    BY CallsCompose
  <2> HIDE DEF taken, call
  <2> QED
    BY <1>3, <2>1, Zenon
<1> HIDE DEF call, left
<1>7. job' = [g \in Handlers |-> IF g = h THEN left ELSE job[g]]
  BY <1>5 DEF StoreSound
<1>8. job' = [g \in Handlers |-> job'[g]] /\ \A g \in Handlers : SoundCalls(job'[g])
  BY <1>6, <1>7 DEF StoreSound
<1>9. \A k \in DOMAIN objects' : Sound(k, objects'[k])
  <2>0. \A k \in DOMAIN objects : Sound(k, objects[k])
    BY DEF StoreSound
  <2>1. CASE objects' = objects
    BY <2>0, <2>1
  <2>2. CASE objects' = Restrict(objects, DOMAIN objects \ {key})
    BY <2>0, <2>2 DEF Restrict
  <2>3. CASE call.act # "DELETED" /\ objects' = stored(call)
    <3>1. Sound(key, call.object)
      BY <1>3, <2>3 DEF SoundCall
    <3> QED
      BY <2>0, <2>3, <3>1
  <2> QED
    BY <1>4, <2>1, <2>2, <2>3
<1> QED
  BY <1>0, <1>8, <1>9 DEF StoreSound

\* Neither does a refusal store anything, nor a list.
LEMMA RefuseSound ==
  ASSUME StoreSound, NEW h \in Handlers, Refuse(h)
  PROVE  StoreSound'
<1> DEFINE left == IF Head(job[h]).act = "SEED" THEN Tail(job[h]) ELSE <<>>
<1>1. job' = [job EXCEPT ![h] = left] /\ objects' = objects /\ rev' = rev /\ generated' = generated /\ job[h] # <<>>
  BY DEF Refuse, Idler
<1>2. SoundCalls(job[h])
  BY DEF StoreSound
<1>3. SoundCalls(left)
  <2>1. SoundCalls(<<>>) /\ SoundCalls(Tail(job[h]))
    BY <1>1, <1>2, CallsCompose, CallsLeft
  <2> QED
    BY <2>1, Zenon
<1> HIDE DEF left
<1>4. job' = [g \in Handlers |-> IF g = h THEN left ELSE job[g]]
  BY <1>1 DEF StoreSound
<1>5. job' = [g \in Handlers |-> job'[g]] /\ \A g \in Handlers : SoundCalls(job'[g])
  BY <1>3, <1>4 DEF StoreSound
<1> QED
  BY <1>1, <1>5 DEF StoreSound

\* Whatever requests are made, by any number of handlers, with any paths and
\* bodies and whatever the store refuses in between, every stored object is
\* found under its own path and has its key's name (serveResourcePath, create,
\* update, patch, deleteCollection).
THEOREM ObjectsStayAddressable == APISpec => []StoredIsAddressable
<1>1. APIInit => StoreSound
  <2> SUFFICES ASSUME APIInit PROVE StoreSound
    OBVIOUS
  <2>1. IsFiniteSet(DOMAIN objects) /\ rev \in Nat /\ generated \in Nat
    BY SeedsFinite DEF APIInit, FirstRevision
  <2>2. \A k \in DOMAIN objects : Sound(k, objects[k])
    BY SeedsAddressable DEF APIInit, Sound
  <2>3. job = [h \in Handlers |-> job[h]] /\ \A h \in Handlers : job[h] = <<>>
    BY DEF APIInit
  <2>4. \A h \in Handlers : SoundCalls(job[h])
    BY <2>3, CallsCompose
  <2> QED
    BY <2>1, <2>2, <2>3, <2>4 DEF StoreSound
<1>2. StoreSound /\ [APINext]_apiVars => StoreSound'
  <2> SUFFICES ASSUME StoreSound, [APINext]_apiVars PROVE StoreSound'
    OBVIOUS
  <2>1. CASE UNCHANGED <<objects, rev, generated, job>>
    BY <2>1 DEF StoreSound
  <2>2. ASSUME NEW h \in Handlers, Writing(h) PROVE StoreSound'
    BY <2>2, CreateSound, ChangeSound, DeleteSound, StoreCallSound, RefuseSound DEF Writing
  <2>3. List \/ UNCHANGED apiVars => UNCHANGED <<objects, rev, generated, job>>
    BY DEF List, ListCheck, ListPage, apiVars
  <2> QED
    BY <2>1, <2>2, <2>3 DEF APINext
<1>3. StoreSound => StoredIsAddressable
  <2> SUFFICES ASSUME StoreSound, NEW k \in DOMAIN objects, NEW m
               PROVE  /\ objects[k].name = k.name
                      /\ Serve(CanonicalPath(k), m, FALSE) = Route(OnObject(m), k.gv, k.res, k.ns, k.name)
    BY DEF StoredIsAddressable
  <2>1. Addressable(k) /\ objects[k].name = k.name
    BY DEF StoreSound, Sound
  <2> QED
    BY <2>1, CanonicalRoute
<1> QED
  BY <1>1, <1>2, <1>3, PTL DEF APISpec

\* The elements of two sequences, one after the other.
LEMMA RangeConcat ==
  ASSUME NEW S, NEW s \in Seq(S), NEW r \in Seq(S)
  PROVE  Range(s) \subseteq Range(s \o r) /\ Range(r) \subseteq Range(s \o r)
<1> DEFINE w == s \o r
<1>1. w \in Seq(S) /\ Len(w) = Len(s) + Len(r) /\ Len(s) \in Nat /\ Len(r) \in Nat
  OBVIOUS
<1>2. ASSUME NEW i \in 1 .. Len(s) PROVE i \in 1 .. Len(w) /\ w[i] = s[i]
  BY <1>1
<1>3. ASSUME NEW i \in 1 .. Len(r) PROVE Len(s) + i \in 1 .. Len(w) /\ w[Len(s) + i] = r[i]
  BY <1>1
<1> HIDE DEF w
<1>4. DOMAIN s = 1 .. Len(s) /\ DOMAIN r = 1 .. Len(r) /\ DOMAIN w = 1 .. Len(w)
  BY <1>1
<1> QED
  BY <1>2, <1>3, <1>4 DEF Range, w

----------------------------------------------------------------------------
(* Flattened sequences.                                                    *)

\* acc holds the sequences put together so far.
Joins(seqs, S, acc) ==
    /\ acc \in [0 .. Len(seqs) -> Seq(S)] /\ acc[0] = <<>>
    /\ \A k \in 1 .. Len(seqs) : acc[k] = acc[k - 1] \o seqs[k]

\* FlattenSeq puts the sequences together one after another.
LEMMA FlattenRuns ==
  ASSUME NEW S, NEW seqs \in Seq(Seq(S))
  PROVE  \E acc : Joins(seqs, S, acc) /\ FlattenSeq(seqs) = acc[Len(seqs)]
<1> DEFINE n == Len(seqs)
           V == Seq(S)
           step == [k \in 1 .. n |-> [a \in V |-> a \o seqs[k]]]
           eq(f) == f = [i \in 1 .. Len(seqs) |-> IF i = 1 THEN seqs[i] ELSE f[i - 1] \o seqs[i]]
           flat == CHOOSE f : eq(f)
<1>1. n \in Nat /\ <<>> \in V /\ \A k \in 1 .. n : seqs[k] \in V
  OBVIOUS
<1>2. IsSteps(n, V, step)
  BY <1>1 DEF IsSteps
<1>3. \A k \in 1 .. n, a \in V : step[k][a] = a \o seqs[k]
  OBVIOUS
<1> HIDE DEF step, V, n
<1>4. PICK acc : IsRun(n, V, <<>>, step, acc)
  BY <1>1, <1>2, StepsExist
<1>5. acc \in [0 .. n -> V] /\ acc[0] = <<>>
  BY <1>4 DEF IsRun
<1>6. ASSUME NEW k \in 1 .. n PROVE acc[k] = acc[k - 1] \o seqs[k]
  <2>0. k - 1 \in 0 .. n
    BY <1>1
  <2>1. acc[k - 1] \in V
    BY <1>5, <2>0
  <2> QED
    BY <1>3, <1>4, <2>1 DEF IsRun
<1>7. Joins(seqs, S, acc)
  BY <1>5, <1>6 DEF Joins, V, n
<1>7a. ASSUME 1 \in 1 .. n PROVE acc[1] = seqs[1]
  <2>1. 1 - 1 = 0
    OBVIOUS
  <2>2. acc[1] = <<>> \o seqs[1]
    BY <1>5, <1>6, <1>7a, <2>1
  <2>3. seqs[1] \in Seq(S)
    BY <1>1, <1>7a DEF V
  <2>4. <<>> \o seqs[1] = seqs[1]
    BY <2>3
  <2> QED
    BY <2>2, <2>4
<1>8. CASE n = 0
  <2>1. seqs = <<>>
    BY <1>8 DEF n
  <2> QED
    BY <1>5, <1>7, <1>8, <2>1 DEF FlattenSeq, n
<1>9. CASE n # 0
  <2> DEFINE f == [i \in 1 .. n |-> acc[i]]
  <2>1. eq(f)
    <3>0. \A i \in 1 .. n : f[i] = acc[i]
      OBVIOUS
    <3>1. ASSUME NEW i \in 1 .. n PROVE f[i] = IF i = 1 THEN seqs[i] ELSE f[i - 1] \o seqs[i]
      <4> HIDE DEF f
      <4>1. CASE i = 1
        BY <1>7a, <3>0, <4>1
      <4>2. CASE i # 1
        <5>1. i - 1 \in 1 .. n
          BY <1>1, <4>2
        <5> QED
          BY <1>6, <3>0, <4>2, <5>1
      <4> QED
        BY <4>1, <4>2
    <3> QED
      BY <3>1 DEF n
  <2>2. eq(flat)
    <3> HIDE DEF eq, f
    <3> QED
      BY <2>1
  <2>3. FlattenSeq(seqs) = flat[n]
    BY <1>9 DEF FlattenSeq, n
  <2> HIDE DEF flat
  <2> DEFINE T == {k \in 0 .. n : k = 0 \/ flat[k] = acc[k]}
  <2>4. ASSUME NEW k \in 1 .. n, k - 1 \in T PROVE k \in T
    <3>1. flat[k] = IF k = 1 THEN seqs[k] ELSE flat[k - 1] \o seqs[k]
      BY <2>2 DEF n
    <3>2. k \in 0 .. n /\ (k # 1 => flat[k - 1] = acc[k - 1])
      BY <1>1, <2>4
    <3>3. CASE k = 1
      <4>1. acc[1] = seqs[1]
        BY <1>7a, <3>3
      <4> QED
        BY <3>1, <3>2, <3>3, <4>1
    <3>4. CASE k # 1
      BY <1>6, <3>1, <3>2, <3>4
    <3> QED
      BY <3>3, <3>4
  <2>5. 0 \in T /\ \A k \in 1 .. n : k - 1 \in T => k \in T
    BY <1>1, <2>4
  <2>6. \A k \in 0 .. n : k \in T
    <3> HIDE DEF T
    <3> QED
      BY <1>1, <2>5, UpTo
  <2>7. flat[n] = acc[n]
    BY <1>1, <1>9, <2>6
  <2> QED
    BY <1>7, <2>3, <2>7 DEF n
<1> QED
  BY <1>8, <1>9

\* Every element of the sequences is in the flattened one, which has no others.
LEMMA FlattenHolds ==
  ASSUME NEW S, NEW seqs \in Seq(Seq(S))
  PROVE  /\ FlattenSeq(seqs) \in Seq(S)
         /\ \A i \in 1 .. Len(seqs) : Range(seqs[i]) \subseteq Range(FlattenSeq(seqs))
<1> DEFINE n == Len(seqs)
<1>1. n \in Nat /\ \A k \in 1 .. n : seqs[k] \in Seq(S)
  OBVIOUS
<1>2. PICK acc : Joins(seqs, S, acc) /\ FlattenSeq(seqs) = acc[n]
  BY FlattenRuns
<1>3. \A k \in 0 .. n : acc[k] \in Seq(S)
  BY <1>2 DEF Joins
<1> HIDE DEF n
<1>4. ASSUME NEW k \in 1 .. n
      PROVE  Range(acc[k - 1]) \subseteq Range(acc[k]) /\ Range(seqs[k]) \subseteq Range(acc[k])
  <2>1. acc[k - 1] \in Seq(S) /\ seqs[k] \in Seq(S) /\ acc[k] = acc[k - 1] \o seqs[k]
    <3>1. k - 1 \in 0 .. n
      BY <1>1
    <3> QED
      BY <1>1, <1>2, <1>3, <3>1 DEF Joins, n
  <2> QED
    BY <2>1, RangeConcat
<1> DEFINE T == {k \in 0 .. n : \A i \in 1 .. k : Range(seqs[i]) \subseteq Range(acc[k])}
<1>5. 0 \in T
  BY <1>1
<1>6. ASSUME NEW k \in 1 .. n, k - 1 \in T PROVE k \in T
  <2>1. ASSUME NEW i \in 1 .. k PROVE Range(seqs[i]) \subseteq Range(acc[k])
    <3>1. CASE i = k
      BY <1>1, <1>4, <3>1
    <3>2. CASE i # k
      <4>1. i \in 1 .. (k - 1)
        BY <1>1, <3>2
      <4>2. Range(seqs[i]) \subseteq Range(acc[k - 1])
        BY <1>6, <4>1
      <4> QED
        BY <1>4, <4>2
    <3> QED
      BY <3>1, <3>2
  <2> QED
    BY <1>1, <2>1
<1>7. \A k \in 0 .. n : k \in T
  <2>1. \A k \in 1 .. n : k - 1 \in T => k \in T
    BY <1>6
  <2> HIDE DEF T
  <2> QED
    BY <1>1, <1>5, <2>1, UpTo
<1>8. n \in T
  <2> HIDE DEF T
  <2> QED
    BY <1>1, <1>7
<1> QED
  BY <1>1, <1>2, <1>3, <1>8 DEF n

\* Three sequences, one after the other.
LEMMA JoinThree ==
  ASSUME NEW S, NEW s \in Seq(S), NEW t \in Seq(S), NEW u \in Seq(S)
  PROVE  (s \o t) \o u = s \o (t \o u)
  OBVIOUS

\* All is seqs with one more sequence before it.
Preceded(first, seqs, all) ==
    Len(all) = Len(seqs) + 1 /\ all[1] = first /\ \A k \in 1 .. Len(seqs) : all[k + 1] = seqs[k]

\* What is put before the sequences comes first in the flattened one.
LEMMA FlattenFirst ==
  ASSUME NEW S, NEW seqs \in Seq(Seq(S)), NEW first \in Seq(S), NEW all \in Seq(Seq(S)),
         Preceded(first, seqs, all)
  PROVE  FlattenSeq(all) = first \o FlattenSeq(seqs)
<1> DEFINE n == Len(seqs)
<1>join. \A a, b \in Seq(S) : (first \o a) \o b = first \o (a \o b)
  BY JoinThree
<1>0. n \in Nat /\ Len(all) = n + 1 /\ \A k \in 1 .. n : all[k + 1] = seqs[k] /\ seqs[k] \in Seq(S)
  BY DEF Preceded
<1>1. PICK f : Joins(seqs, S, f) /\ FlattenSeq(seqs) = f[n]
  BY FlattenRuns
<1>2. PICK g : Joins(all, S, g) /\ FlattenSeq(all) = g[Len(all)]
  BY FlattenRuns
<1>3. f[0] = <<>> /\ (\A k \in 0 .. n : f[k] \in Seq(S)) /\ \A k \in 1 .. n : f[k] = f[k - 1] \o seqs[k]
  BY <1>1 DEF Joins
<1> HIDE DEF n
<1>4. g[0] = <<>> /\ \A k \in 1 .. (n + 1) : g[k] = g[k - 1] \o all[k]
  BY <1>0, <1>2 DEF Joins
<1> DEFINE T == {k \in 0 .. n : g[k + 1] = first \o f[k]}
<1>5. 0 \in T
  <2>1. 1 \in 1 .. (n + 1) /\ 1 - 1 = 0 /\ 0 + 1 = 1 /\ 0 \in 0 .. n
    BY <1>0
  <2>2. g[1] = <<>> \o first
    BY <1>4, <2>1 DEF Preceded
  <2>3. <<>> \o first = first /\ first \o <<>> = first
    OBVIOUS
  <2> QED
    BY <1>3, <2>1, <2>2, <2>3
<1>6. ASSUME NEW k \in 1 .. n, k - 1 \in T PROVE k \in T
  <2>1. k + 1 \in 1 .. (n + 1) /\ (k + 1) - 1 = k /\ (k - 1) + 1 = k /\ k - 1 \in 0 .. n /\ k \in 0 .. n
    <3> HIDE DEF T
    <3>1. n \in Nat
      BY <1>0
    <3> QED
      BY <3>1
  <2>2. g[k + 1] = g[k] \o seqs[k]
    BY <1>0, <1>4, <2>1
  <2>3. g[k] = first \o f[k - 1]
    BY <1>6, <2>1
  <2>4. f[k] = f[k - 1] \o seqs[k] /\ f[k - 1] \in Seq(S) /\ seqs[k] \in Seq(S)
    BY <1>0, <1>3, <2>1
  <2>5. (first \o f[k - 1]) \o seqs[k] = first \o (f[k - 1] \o seqs[k])
    BY <1>join, <2>4
  <2> QED
    BY <2>1, <2>2, <2>3, <2>4, <2>5
<1> HIDE DEF T
<1>7. \A k \in 1 .. n : k - 1 \in T => k \in T
  BY <1>6
<1>8. \A k \in 0 .. n : k \in T
  BY <1>0, <1>5, <1>7, UpTo
<1>9. n \in T
  BY <1>0, <1>8
<1> QED
  BY <1>0, <1>1, <1>2, <1>9 DEF T

----------------------------------------------------------------------------
(* The client address.                                                     *)

\* The fields of a header and how long it is.
HeaderType(FieldSet) == [fields : Seq(FieldSet), len : Nat]

\* The hops of one header.
HopsOf(header) == [i \in DOMAIN header.fields |-> Unmapped(header.fields[i])]

\* A header put before the others adds its hops before theirs.
LEMMA HopsFirst ==
  ASSUME NEW FieldSet, NEW values \in Seq(HeaderType(FieldSet)), NEW forged \in HeaderType(FieldSet)
  PROVE  LET S == {Unmapped(x) : x \in FieldSet}
         IN /\ Hops(values) \in Seq(S) /\ HopsOf(forged) \in Seq(S)
            /\ Hops(<<forged>> \o values) = HopsOf(forged) \o Hops(values)
<1> DEFINE S == {Unmapped(x) : x \in FieldSet}
           n == Len(values)
           more == <<forged>> \o values
           seqs == [k \in DOMAIN values |-> HopsOf(values[k])]
           all == [k \in DOMAIN more |-> HopsOf(more[k])]
<1>1. ASSUME NEW h \in HeaderType(FieldSet) PROVE HopsOf(h) \in Seq(S)
  <2> DEFINE f == h.fields
  <2>1. f \in Seq(FieldSet)
    BY DEF HeaderType
  <2> HIDE DEF f
  <2>2. DOMAIN f = 1 .. Len(f) /\ Len(f) \in Nat /\ \A i \in 1 .. Len(f) : Unmapped(f[i]) \in S
    BY <2>1
  <2> HIDE DEF S
  <2>3. [i \in DOMAIN f |-> Unmapped(f[i])] \in Seq(S)
    BY <2>2
  <2> QED
    BY <2>3 DEF HopsOf, f
<1> HIDE DEF S
<1>2. n \in Nat /\ DOMAIN values = 1 .. n /\ \A k \in 1 .. n : values[k] \in HeaderType(FieldSet)
  OBVIOUS
<1>3. /\ more \in Seq(HeaderType(FieldSet)) /\ DOMAIN more = 1 .. (n + 1) /\ more[1] = forged
      /\ \A k \in 1 .. n : more[k + 1] = values[k]
  <2>1. <<forged>> \in Seq(HeaderType(FieldSet)) /\ Len(<<forged>>) = 1 /\ <<forged>>[1] = forged
    OBVIOUS
  <2>2. more \in Seq(HeaderType(FieldSet)) /\ Len(more) = n + 1
    BY <2>1
  <2>3. more[1] = forged
    BY <2>1
  <2>4. \A k \in 1 .. n : more[k + 1] = values[k]
    BY <2>1
  <2> QED
    BY <2>2, <2>3, <2>4
<1> HIDE DEF more, n
<1>4. \A k \in 1 .. (n + 1) : more[k] \in HeaderType(FieldSet)
  BY <1>2, <1>3
<1>5. seqs \in Seq(Seq(S)) /\ Len(seqs) = n /\ \A k \in 1 .. n : seqs[k] = HopsOf(values[k])
  BY <1>1, <1>2
<1>6. all \in Seq(Seq(S)) /\ Len(all) = n + 1 /\ \A k \in 1 .. (n + 1) : all[k] = HopsOf(more[k])
  <2>1. all = [k \in 1 .. (n + 1) |-> HopsOf(more[k])]
    BY <1>3
  <2>2. \A k \in 1 .. (n + 1) : HopsOf(more[k]) \in Seq(S)
    BY <1>1, <1>4
  <2>3. n + 1 \in Nat
    BY <1>2
  <2> HIDE DEF all
  <2> QED
    BY <2>1, <2>2, <2>3
<1>7. Hops(values) = FlattenSeq(seqs) /\ Hops(more) = FlattenSeq(all)
  BY DEF Hops, HopsOf
<1> HIDE DEF seqs, all
<1>8. all[1] = HopsOf(forged) /\ \A k \in 1 .. n : all[k + 1] = seqs[k]
  <2>1. 1 \in 1 .. (n + 1) /\ \A k \in 1 .. n : k + 1 \in 1 .. (n + 1)
    BY <1>2
  <2> QED
    BY <1>3, <1>5, <1>6, <2>1
<1>9. HopsOf(forged) \in Seq(S)
  BY <1>1
<1>10. FlattenSeq(all) = HopsOf(forged) \o FlattenSeq(seqs)
  <2>1. Preceded(HopsOf(forged), seqs, all)
    BY <1>5, <1>6, <1>8 DEF Preceded
  <2> QED
    BY <1>5, <1>6, <1>9, <2>1, FlattenFirst
<1>11. FlattenSeq(seqs) \in Seq(S)
  BY <1>5, FlattenHolds
<1> QED
  BY <1>7, <1>9, <1>10, <1>11 DEF more, S

\* The search from the right finds what it finds without the hops before.
Shifts(first, hops, trusted) ==
    LET at == FirstUntrusted(hops, trusted)
    IN /\ hops[at] \notin trusted
       /\ FirstUntrusted(first \o hops, trusted) = Len(first) + at
       /\ (first \o hops)[Len(first) + at] = hops[at]

\* Hops before the others only shift what the search finds.
LEMMA SearchFromRight ==
  ASSUME NEW S, NEW first \in Seq(S), NEW hops \in Seq(S), NEW trusted, FirstUntrusted(hops, trusted) # 0
  PROVE  Shifts(first, hops, trusted)
<1> DEFINE m == Len(first)
           n == Len(hops)
           w == first \o hops
           I == {i \in 1 .. n : hops[i] \notin trusted}
           J == {i \in 1 .. (m + n) : w[i] \notin trusted}
           at == Max(I)
<1>1. m \in Nat /\ n \in Nat /\ Len(w) = m + n /\ m + n \in Nat
  OBVIOUS
<1>2. \A i \in 1 .. n : w[m + i] = hops[i]
  OBVIOUS
<1>3. FirstUntrusted(hops, trusted) = IF I # {} THEN at ELSE 0
  BY DEF FirstUntrusted, SelectLastInSeq
<1>4. FirstUntrusted(w, trusted) = IF J # {} THEN Max(J) ELSE 0
  BY <1>1 DEF FirstUntrusted, SelectLastInSeq
<1> HIDE DEF m, n, w
<1>5. I # {} /\ FirstUntrusted(hops, trusted) = at
  BY <1>3
<1>6. at \in I /\ \A y \in I : at >= y
  <2>1. I \subseteq 0 .. n
    BY <1>1
  <2> HIDE DEF I
  <2> QED
    BY <1>1, <1>5, <2>1, GreatestNumber
<1> HIDE DEF at
<1>7. at \in 1 .. n /\ hops[at] \notin trusted /\ \A i \in 1 .. n : i > at => hops[i] \in trusted
  BY <1>1, <1>6
<1>8. m + at \in J
  BY <1>1, <1>2, <1>7
<1>9. ASSUME NEW j \in J PROVE m + at >= j
  <2>1. CASE j <= m
    BY <1>1, <1>7, <2>1
  <2>2. CASE j > m
    <3>1. j - m \in 1 .. n /\ m + (j - m) = j
      BY <1>1, <2>2
    <3>2. hops[j - m] \notin trusted
      BY <1>2, <3>1
    <3>3. ~ (j - m > at)
      BY <1>7, <3>1, <3>2
    <3> QED
      BY <1>1, <1>7, <3>1, <3>3
  <2> QED
    BY <1>1, <2>1, <2>2
<1>10. Max(J) \in J /\ \A y \in J : Max(J) >= y
  <2>1. J \subseteq 0 .. (m + n) /\ J # {}
    BY <1>1, <1>8
  <2> HIDE DEF J
  <2> QED
    BY <1>1, <2>1, GreatestNumber
<1>11. Max(J) = m + at
  <2>1. Max(J) >= m + at /\ m + at >= Max(J) /\ Max(J) \in 1 .. (m + n)
    BY <1>8, <1>9, <1>10
  <2> QED
    BY <1>1, <1>7, <2>1
<1>12. FirstUntrusted(w, trusted) = m + at
  BY <1>4, <1>8, <1>11
<1> QED
  BY <1>2, <1>5, <1>7, <1>12 DEF Shifts, m, n, w

\* For every peer, every list of headers and every set of trusted prefixes: a
\* recorded address comes from a trusted peer, is none of the proxies, and a
\* header the client put before it can only suppress it, never replace it.
THEOREM AddressUnforged ==
  ASSUME NEW FieldSet, NEW peer, NEW prefixes,
         NEW values \in Seq(HeaderType(FieldSet)), NEW forged \in HeaderType(FieldSet)
  PROVE  Unforged(peer, values, prefixes, forged)
<1> DEFINE S == {Unmapped(x) : x \in FieldSet}
           trusted == ParseTrusted(prefixes)
           hops == Hops(values)
           first == HopsOf(forged)
           more == <<forged>> \o values
           addr == ClientAddrFromXFF(peer, values, prefixes)
           new == ClientAddrFromXFF(peer, more, prefixes)
           at == FirstUntrusted(hops, trusted)
<1> SUFFICES ASSUME addr # "" PROVE Unmapped(peer) \in trusted /\ addr \notin trusted /\ new \in {addr, ""}
  BY DEF Unforged
<1>1. Unmapped(peer) \in trusted /\ at # 0 /\ addr = hops[at]
  BY DEF ClientAddrFromXFF
<1>2. hops \in Seq(S) /\ first \in Seq(S) /\ Hops(more) = first \o hops
  BY HopsFirst
<1>3. new = "" \/ new = Hops(more)[FirstUntrusted(Hops(more), trusted)]
  BY DEF ClientAddrFromXFF
<1> HIDE DEF S, hops, first, more, addr, new, trusted
<1>4. Shifts(first, hops, trusted)
  BY <1>1, <1>2, SearchFromRight
<1> QED
  BY <1>1, <1>2, <1>3, <1>4 DEF Shifts

----------------------------------------------------------------------------
(* Configuration: totals of lengths.                                       *)

\* f holds the running totals of the lengths of n texts.
Adds(s, n, f) ==
    f \in [0 .. n -> Nat] /\ f[0] = 0 /\ \A k \in 1 .. n : f[k] = f[k - 1] + s[k].len

\* Total adds the lengths one after another.
LEMMA TotalRuns ==
  ASSUME NEW s, NEW n \in Nat, s = [k \in 1 .. n |-> s[k]], \A k \in 1 .. n : s[k].len \in Nat
  PROVE  \E acc : Adds(s, n, acc) /\ acc[n] = Total(s)
<1> DEFINE step == [k \in 1 .. n |-> [a \in Nat |-> a + s[k].len]]
           eq(it) == it = [t \in SUBSET (DOMAIN s) |->
                            IF t = {} THEN 0 ELSE LET x == Max(t) IN it[t \ {x}] + s[x].len]
           it == CHOOSE p : eq(p)
<1>1. IsSteps(n, Nat, step)
  BY DEF IsSteps
<1>2. \A k \in 1 .. n, a \in Nat : step[k][a] = a + s[k].len
  OBVIOUS
<1>3. DOMAIN s = 1 .. n
  OBVIOUS
<1> HIDE DEF step
<1>4. \A t \in SUBSET (1 .. n) : t # {} => Max(t) \in 1 .. n /\ t \ {Max(t)} \in SUBSET (1 .. n)
  BY PositionType
<1>5. eq(it)
  <2>1. PICK g : IsFold(n, Nat, 0, step, g)
    BY <1>1, FoldExists
  <2>2. eq(g)
    BY <1>2, <1>3, <1>4, <2>1 DEF IsFold
  <2> HIDE DEF eq
  <2> QED
    BY <2>2
<1>6. Total(s) = it[1 .. n]
  BY <1>3 DEF Total, FoldLeft, MapThenFoldSet
<1> HIDE DEF it
<1>8. IsIter(n, Nat, 0, step, it)
  BY <1>2, <1>3, <1>4, <1>5 DEF IsIter
<1>9. PICK acc : IsRun(n, Nat, 0, step, acc) /\ acc[n] = it[1 .. n]
  BY <1>1, <1>8, IterRuns
<1>10. \A k \in 1 .. n : acc[k - 1] \in Nat
  BY <1>9 DEF IsRun
<1> QED
  BY <1>2, <1>6, <1>9, <1>10 DEF IsRun, Adds

\* Running totals of two sequences that begin alike are alike.
LEMMA RunsAgree ==
  ASSUME NEW n \in Nat, NEW m \in Nat, n <= m, NEW s, NEW r, NEW f, NEW g, Adds(s, n, f), Adds(r, m, g),
         \A k \in 1 .. n : s[k] = r[k]
  PROVE  f[n] = g[n]
<1> DEFINE T == {k \in 0 .. n : f[k] = g[k]}
<1>0. 0 \in T
  BY DEF Adds
<1>1. ASSUME NEW k \in 1 .. n, k - 1 \in T PROVE k \in T
  <2>1. k \in 1 .. m
    OBVIOUS
  <2>2. f[k] = f[k - 1] + s[k].len /\ g[k] = g[k - 1] + r[k].len
    BY <2>1 DEF Adds
  <2>3. f[k - 1] = g[k - 1] /\ s[k] = r[k]
    BY <1>1
  <2> QED
    BY <2>2, <2>3
<1> HIDE DEF T
<1>2. \A k \in 0 .. n : k \in T
  <2>1. \A k \in 1 .. n : k - 1 \in T => k \in T
    BY <1>1
  <2> QED
    BY <1>0, <2>1, UpTo
<1>3. n \in T
  BY <1>2
<1> QED
  BY <1>3 DEF T

\* The total of no text.
LEMMA EmptyTotal == Total(<<>>) = 0
<1> DEFINE e == << >>
<1>1. e = [k \in 1 .. 0 |-> e[k]] /\ \A k \in 1 .. 0 : e[k].len \in Nat
  OBVIOUS
<1> HIDE DEF e
<1> QED
  BY <1>1, TotalRuns DEF e, Adds

\* What Total gives is a number, and one more text adds its length.
LEMMA TotalAppend ==
  ASSUME NEW Texts, \A t \in Texts : t.len \in Nat, NEW s \in Seq(Texts), NEW t \in Texts
  PROVE  /\ Total(s) \in Nat
         /\ Total(Append(s, t)) = Total(s) + t.len
<1> DEFINE n == Len(s)
           r == Append(s, t)
<1>1. n \in Nat /\ s = [k \in 1 .. n |-> s[k]] /\ \A k \in 1 .. n : s[k].len \in Nat
  OBVIOUS
<1>2. /\ r = [k \in 1 .. (n + 1) |-> r[k]] /\ \A k \in 1 .. (n + 1) : r[k].len \in Nat
      /\ r[n + 1] = t /\ \A k \in 1 .. n : r[k] = s[k]
  <2>1. r \in Seq(Texts) /\ Len(r) = n + 1
    OBVIOUS
  <2>2. r[n + 1] = t
    OBVIOUS
  <2>3. \A k \in 1 .. n : r[k] = s[k]
    OBVIOUS
  <2> HIDE DEF r
  <2>4. r = [k \in 1 .. (n + 1) |-> r[k]]
    BY <2>1
  <2>5. \A k \in 1 .. (n + 1) : r[k].len \in Nat
    BY <2>1
  <2> QED
    BY <2>2, <2>3, <2>4, <2>5
<1> HIDE DEF n, r
<1>4. PICK f : Adds(s, n, f) /\ f[n] = Total(s)
  BY <1>1, TotalRuns
<1>5. n + 1 \in Nat /\ n <= n + 1
  BY <1>1
<1>6. PICK g : Adds(r, n + 1, g) /\ g[n + 1] = Total(r)
  BY <1>2, <1>5, TotalRuns
<1>7. f[n] = g[n]
  <2>1. \A k \in 1 .. n : s[k] = r[k]
    BY <1>2
  <2> QED
    BY <1>1, <1>4, <1>5, <1>6, <2>1, RunsAgree
<1>8. g[n + 1] = g[n] + t.len
  <2>1. n + 1 \in 1 .. (n + 1) /\ (n + 1) - 1 = n
    BY <1>1
  <2> QED
    BY <1>2, <1>6, <2>1 DEF Adds
<1>9. f[n] \in Nat
  BY <1>1, <1>4 DEF Adds
<1> QED
  BY <1>4, <1>6, <1>7, <1>8, <1>9 DEF r

\* What Total gives is a number.
LEMMA TotalNat ==
  ASSUME NEW Texts, \A t \in Texts : t.len \in Nat, NEW s \in Seq(Texts)
  PROVE  Total(s) \in Nat
<1> DEFINE n == Len(s)
<1>1. n \in Nat /\ s = [k \in 1 .. n |-> s[k]] /\ \A k \in 1 .. n : s[k].len \in Nat
  OBVIOUS
<1> HIDE DEF n
<1>2. PICK f : Adds(s, n, f) /\ f[n] = Total(s)
  BY <1>1, TotalRuns
<1> QED
  BY <1>1, <1>2 DEF Adds

\* Total of a sequence of texts, by its running totals, which never decrease.
LEMMA TotalOf ==
  ASSUME NEW Texts, \A t \in Texts : t.len \in Nat, NEW s \in Seq(Texts)
  PROVE  \E f : Adds(s, Len(s), f) /\ f[Len(s)] = Total(s) /\ \A k \in 0 .. Len(s) : f[k] <= Total(s)
<1> DEFINE n == Len(s)
<1>1. n \in Nat /\ s = [k \in 1 .. n |-> s[k]] /\ \A k \in 1 .. n : s[k].len \in Nat
  OBVIOUS
<1> HIDE DEF n
<1>2. PICK f : Adds(s, n, f) /\ f[n] = Total(s)
  BY <1>1, TotalRuns
<1> DEFINE T == {k \in 0 .. n : f[n - k] <= f[n]}
<1>3. 0 \in T
  BY <1>1, <1>2 DEF Adds
<1>4. ASSUME NEW k \in 1 .. n, k - 1 \in T PROVE k \in T
  <2>1. n - k \in 0 .. n /\ n - k + 1 \in 1 .. n /\ n - (k - 1) = n - k + 1 /\ (n - k + 1) - 1 = n - k
    BY <1>1
  <2>2. f[n - k] \in Nat /\ f[n - k + 1] \in Nat /\ f[n] \in Nat
    BY <1>1, <1>2, <2>1 DEF Adds
  <2>3. f[n - k + 1] = f[n - k] + s[n - k + 1].len
    BY <1>2, <2>1 DEF Adds
  <2>4. s[n - k + 1].len \in Nat
    BY <1>1, <2>1
  <2>5. f[n - k + 1] <= f[n]
    BY <1>4, <2>1
  <2> QED
    BY <2>1, <2>2, <2>3, <2>4, <2>5
<1> HIDE DEF T
<1>5. \A k \in 1 .. n : k - 1 \in T => k \in T
  BY <1>4
<1>6. \A k \in 0 .. n : k \in T
  BY <1>1, <1>3, <1>5, UpTo
<1>7. ASSUME NEW k \in 0 .. n PROVE f[k] <= f[n]
  <2>1. n - k \in 0 .. n /\ n - (n - k) = k
    BY <1>1
  <2>2. n - k \in T
    BY <1>6, <2>1
  <2> QED
    BY <2>1, <2>2 DEF T
<1> QED
  BY <1>2, <1>7 DEF n

\* The total of two sequences, one after the other.
LEMMA TotalConcat ==
  ASSUME NEW Texts, \A t \in Texts : t.len \in Nat, NEW s \in Seq(Texts), NEW r \in Seq(Texts)
  PROVE  Total(s \o r) = Total(s) + Total(r)
<1> DEFINE m == Len(s)
           n == Len(r)
           w == s \o r
<1>1. w \in Seq(Texts) /\ Len(w) = m + n /\ m \in Nat /\ n \in Nat
  OBVIOUS
<1>2. \A k \in 1 .. m : w[k] = s[k]
  OBVIOUS
<1>3. \A k \in 1 .. n : w[m + k] = r[k] /\ r[k].len \in Nat
  OBVIOUS
<1>4. PICK f : Adds(s, m, f) /\ f[m] = Total(s)
  BY TotalOf
<1>5. PICK g : Adds(r, n, g) /\ g[n] = Total(r)
  BY TotalOf
<1>6. PICK h : Adds(w, m + n, h) /\ h[m + n] = Total(w)
  <2> HIDE DEF w
  <2>1. PICK h : Adds(w, Len(w), h) /\ h[Len(w)] = Total(w)
    BY <1>1, TotalOf
  <2> QED
    BY <1>1, <2>1
<1> HIDE DEF m, n, w
<1>7. f[m] = h[m]
  <2>1. m + n \in Nat /\ m <= m + n
    BY <1>1
  <2>2. \A k \in 1 .. m : s[k] = w[k]
    BY <1>2
  <2> QED
    BY <1>1, <1>4, <1>6, <2>1, <2>2, RunsAgree
<1> DEFINE T == {k \in 0 .. n : h[m + k] = f[m] + g[k]}
<1>8. 0 \in T
  <2>1. m + 0 = m /\ f[m] \in Nat
    BY <1>1, <1>4 DEF Adds
  <2> QED
    BY <1>1, <1>5, <1>7, <2>1 DEF Adds
<1>9. ASSUME NEW k \in 1 .. n, k - 1 \in T PROVE k \in T
  <2>1. m + k \in 1 .. (m + n) /\ (m + k) - 1 = m + (k - 1)
    BY <1>1
  <2>2. h[m + k] = h[m + (k - 1)] + w[m + k].len
    BY <1>6, <2>1 DEF Adds
  <2>3. g[k] = g[k - 1] + r[k].len /\ g[k - 1] \in Nat
    BY <1>1, <1>5 DEF Adds
  <2>4. f[m] \in Nat
    BY <1>1, <1>4 DEF Adds
  <2>5. h[m + (k - 1)] = f[m] + g[k - 1]
    BY <1>9
  <2>6. w[m + k].len = r[k].len /\ r[k].len \in Nat
    BY <1>3
  <2> QED
    BY <2>2, <2>3, <2>4, <2>5, <2>6
<1> HIDE DEF T
<1>10. \A k \in 1 .. n : k - 1 \in T => k \in T
  BY <1>9
<1>11. \A k \in 0 .. n : k \in T
  BY <1>1, <1>8, <1>10, UpTo
<1>12. n \in T
  BY <1>1, <1>11
<1> QED
  BY <1>4, <1>5, <1>6, <1>12 DEF T, w

\* The elements of a sequence with one more.
LEMMA RangeAppend ==
  ASSUME NEW S, NEW s \in Seq(S), NEW t \in S
  PROVE  Range(Append(s, t)) = Range(s) \cup {t}
<1> DEFINE w == Append(s, t)
<1>1. w \in Seq(S) /\ Len(w) = Len(s) + 1 /\ Len(s) \in Nat /\ w[Len(s) + 1] = t
  OBVIOUS
<1>2. \A i \in 1 .. Len(s) : w[i] = s[i] /\ i \in 1 .. Len(w)
  BY <1>1
<1> HIDE DEF w
<1>3. DOMAIN s = 1 .. Len(s) /\ DOMAIN w = 1 .. Len(w) /\ Len(s) + 1 \in 1 .. Len(w)
  BY <1>1
<1>4. \A i \in 1 .. Len(w) : i \in 1 .. Len(s) \/ i = Len(s) + 1
  BY <1>1
<1> QED
  BY <1>1, <1>2, <1>3, <1>4 DEF Range, w

----------------------------------------------------------------------------
(* What is collected and redacted.                                         *)

\* What LoggingConfig.SensitiveValues has collected, and whether it has ended.
Collected(Texts) == [values : Seq(Texts), ended : BOOLEAN]

\* acc holds what add has taken of the first values.
Adding(s, Texts, acc) ==
    /\ acc \in [0 .. Len(s) -> Seq(Texts)] /\ acc[0] = <<>>
    /\ \A k \in 1 .. Len(s) : acc[k] = Add(acc[k - 1], s[k], MaxSensitive)

\* K8SConfig.SensitiveValues adds its values one after another.
LEMMA K8SRuns ==
  ASSUME NEW Texts, \A t \in Texts : t.len \in Nat, NEW cfg, NEW s \in Seq(Texts), s = K8SValues(cfg)
  PROVE  \E acc : Adding(s, Texts, acc) /\ K8SSensitive(cfg) = acc[Len(s)]
<1> DEFINE n == Len(s)
           V == Seq(Texts)
           step == [k \in 1 .. n |-> [a \in V |-> Add(a, s[k], MaxSensitive)]]
           eq(it) == it = [t \in SUBSET (DOMAIN s) |->
                            IF t = {} THEN <<>> ELSE LET x == Max(t) IN Add(it[t \ {x}], s[x], MaxSensitive)]
           it == CHOOSE p : eq(p)
<1>0. n \in Nat /\ DOMAIN s = 1 .. n /\ \A k \in 1 .. n : s[k] \in Texts
  OBVIOUS
<1>0a. \A a \in V, t \in Texts : Add(a, t, MaxSensitive) \in V
  BY DEF Add
<1>1. IsSteps(n, V, step)
  BY <1>0, <1>0a DEF IsSteps
<1>2. \A k \in 1 .. n, a \in V : step[k][a] = Add(a, s[k], MaxSensitive)
  OBVIOUS
<1>3. <<>> \in V
  OBVIOUS
<1>4. K8SSensitive(cfg) = it[1 .. n]
  BY <1>0 DEF FoldLeft, MapThenFoldSet, K8SSensitive
<1> HIDE DEF n, V, step
<1>5. \A t \in SUBSET (1 .. n) : t # {} => Max(t) \in 1 .. n /\ t \ {Max(t)} \in SUBSET (1 .. n)
  BY <1>0, PositionType
<1>6. eq(it)
  <2>1. PICK g : IsFold(n, V, <<>>, step, g)
    BY <1>0, <1>1, <1>3, FoldExists
  <2>2. eq(g)
    <3>1. ASSUME NEW t \in SUBSET (1 .. n)
          PROVE  g[t] = IF t = {} THEN <<>> ELSE LET x == Max(t) IN Add(g[t \ {x}], s[x], MaxSensitive)
      BY <1>2, <1>5, <2>1 DEF IsFold
    <3>2. g = [t \in SUBSET (1 .. n) |-> g[t]]
      BY <2>1 DEF IsFold
    <3> QED
      BY <1>0, <3>1, <3>2
  <2> HIDE DEF eq
  <2> QED
    BY <2>2
<1> HIDE DEF it
<1>7. IsIter(n, V, <<>>, step, it)
  BY <1>0, <1>2, <1>5, <1>6 DEF IsIter
<1>8. PICK acc : IsRun(n, V, <<>>, step, acc) /\ acc[n] = it[1 .. n]
  BY <1>0, <1>1, <1>3, <1>7, IterRuns
<1>9. ASSUME NEW k \in 1 .. n PROVE acc[k] = Add(acc[k - 1], s[k], MaxSensitive)
  <2>1. k - 1 \in 0 .. n
    BY <1>0
  <2>2. acc[k - 1] \in V
    BY <1>8, <2>1 DEF IsRun
  <2> QED
    BY <1>2, <1>8, <2>2 DEF IsRun
<1>10. acc \in [0 .. n -> V] /\ acc[0] = <<>> /\ K8SSensitive(cfg) = acc[n]
  BY <1>4, <1>8 DEF IsRun
<1> QED
  BY <1>9, <1>10 DEF Adding, n, V

\* acc holds what the replacer has kept of the first values.
Keeping(s, Texts, acc) ==
    /\ acc \in [0 .. Len(s) -> Seq(Texts)] /\ acc[0] = <<>>
    /\ \A k \in 1 .. Len(s) : acc[k] = Keep(acc[k - 1], s[k])

\* newSensitiveValueReplacer keeps its values one after another.
LEMMA RedactedRuns ==
  ASSUME NEW Texts, \A t \in Texts : t.len \in Nat, NEW values, NEW s \in Seq(Texts), s = Within(values)
  PROVE  \E acc : Keeping(s, Texts, acc) /\ Redacted(values) = Range(acc[Len(s)])
<1> DEFINE n == Len(s)
           V == Seq(Texts)
           step == [k \in 1 .. n |-> [a \in V |-> Keep(a, s[k])]]
           eq(it) == it = [t \in SUBSET (DOMAIN s) |->
                            IF t = {} THEN <<>> ELSE LET x == Max(t) IN Keep(it[t \ {x}], s[x])]
           it == CHOOSE p : eq(p)
<1>0. n \in Nat /\ DOMAIN s = 1 .. n /\ \A k \in 1 .. n : s[k] \in Texts
  OBVIOUS
<1>0a. \A a \in V, t \in Texts : Keep(a, t) \in V
  BY DEF Keep
<1>1. IsSteps(n, V, step)
  BY <1>0, <1>0a DEF IsSteps
<1>2. \A k \in 1 .. n, a \in V : step[k][a] = Keep(a, s[k])
  OBVIOUS
<1>3. <<>> \in V
  OBVIOUS
<1>4. Redacted(values) = Range(it[1 .. n])
  BY <1>0 DEF FoldLeft, MapThenFoldSet, Redacted
<1> HIDE DEF n, V, step
<1>5. \A t \in SUBSET (1 .. n) : t # {} => Max(t) \in 1 .. n /\ t \ {Max(t)} \in SUBSET (1 .. n)
  BY <1>0, PositionType
<1>6. eq(it)
  <2>1. PICK g : IsFold(n, V, <<>>, step, g)
    BY <1>0, <1>1, <1>3, FoldExists
  <2>2. eq(g)
    <3>1. ASSUME NEW t \in SUBSET (1 .. n)
          PROVE  g[t] = IF t = {} THEN <<>> ELSE LET x == Max(t) IN Keep(g[t \ {x}], s[x])
      BY <1>2, <1>5, <2>1 DEF IsFold
    <3>2. g = [t \in SUBSET (1 .. n) |-> g[t]]
      BY <2>1 DEF IsFold
    <3> QED
      BY <1>0, <3>1, <3>2
  <2> HIDE DEF eq
  <2> QED
    BY <2>2
<1> HIDE DEF it
<1>7. IsIter(n, V, <<>>, step, it)
  BY <1>0, <1>2, <1>5, <1>6 DEF IsIter
<1>8. PICK acc : IsRun(n, V, <<>>, step, acc) /\ acc[n] = it[1 .. n]
  BY <1>0, <1>1, <1>3, <1>7, IterRuns
<1>9. ASSUME NEW k \in 1 .. n PROVE acc[k] = Keep(acc[k - 1], s[k])
  <2>1. k - 1 \in 0 .. n
    BY <1>0
  <2>2. acc[k - 1] \in V
    BY <1>8, <2>1 DEF IsRun
  <2> QED
    BY <1>2, <1>8, <2>2 DEF IsRun
<1>10. acc \in [0 .. n -> V] /\ acc[0] = <<>> /\ Redacted(values) = Range(acc[n])
  BY <1>4, <1>8 DEF IsRun
<1> QED
  BY <1>9, <1>10 DEF Keeping, n, V

\* acc holds what is collected of the first values.
Collecting(s, Texts, acc) ==
    /\ acc \in [0 .. Len(s) -> Collected(Texts)] /\ acc[0] = [values |-> <<>>, ended |-> FALSE]
    /\ \A k \in 1 .. Len(s) : acc[k] = Collect(acc[k - 1], s[k])

\* LoggingConfig.SensitiveValues takes its values one after another.
LEMMA LoggingRuns ==
  ASSUME NEW Texts, \A t \in Texts : t.len \in Nat, NEW cfg, NEW s \in Seq(Texts), s = SinkValues(cfg)
  PROVE  \E acc : Collecting(s, Texts, acc) /\ LoggingSensitive(cfg) = acc[Len(s)].values
<1> DEFINE n == Len(s)
           V == Collected(Texts)
           step == [k \in 1 .. n |-> [a \in V |-> Collect(a, s[k])]]
           eq(it) == it = [t \in SUBSET (DOMAIN s) |->
                            IF t = {} THEN [values |-> <<>>, ended |-> FALSE]
                               ELSE LET x == Max(t) IN Collect(it[t \ {x}], s[x])]
           it == CHOOSE p : eq(p)
<1>0. n \in Nat /\ DOMAIN s = 1 .. n /\ \A k \in 1 .. n : s[k] \in Texts
  OBVIOUS
<1>0a. \A a \in V, t \in Texts : Collect(a, t) \in V
  <2>1. \A a \in V, t \in Texts : Add(a.values, t, MaxSinkSensitive) \in Seq(Texts)
    BY DEF Add, Collected
  <2> QED
    BY <2>1 DEF Collect, Collected
<1>1. IsSteps(n, V, step)
  BY <1>0, <1>0a DEF IsSteps
<1>2. \A k \in 1 .. n, a \in V : step[k][a] = Collect(a, s[k])
  OBVIOUS
<1>3. [values |-> <<>>, ended |-> FALSE] \in V
  BY DEF Collected
<1>4. LoggingSensitive(cfg) = it[1 .. n].values
  BY <1>0 DEF FoldLeft, MapThenFoldSet, LoggingSensitive
<1> HIDE DEF n, V, step
<1>5. \A t \in SUBSET (1 .. n) : t # {} => Max(t) \in 1 .. n /\ t \ {Max(t)} \in SUBSET (1 .. n)
  BY <1>0, PositionType
<1>6. eq(it)
  <2>1. PICK g : IsFold(n, V, [values |-> <<>>, ended |-> FALSE], step, g)
    BY <1>0, <1>1, <1>3, FoldExists
  <2>2. eq(g)
    <3>1. ASSUME NEW t \in SUBSET (1 .. n)
          PROVE  g[t] = IF t = {} THEN [values |-> <<>>, ended |-> FALSE]
                               ELSE LET x == Max(t) IN Collect(g[t \ {x}], s[x])
      BY <1>2, <1>5, <2>1 DEF IsFold
    <3>2. g = [t \in SUBSET (1 .. n) |-> g[t]]
      BY <2>1 DEF IsFold
    <3> QED
      BY <1>0, <3>1, <3>2
  <2> HIDE DEF eq
  <2> QED
    BY <2>2
<1> HIDE DEF it
<1>7. IsIter(n, V, [values |-> <<>>, ended |-> FALSE], step, it)
  BY <1>0, <1>2, <1>5, <1>6 DEF IsIter
<1>8. PICK acc : IsRun(n, V, [values |-> <<>>, ended |-> FALSE], step, acc) /\ acc[n] = it[1 .. n]
  BY <1>0, <1>1, <1>3, <1>7, IterRuns
<1>9. ASSUME NEW k \in 1 .. n PROVE acc[k] = Collect(acc[k - 1], s[k])
  <2>1. k - 1 \in 0 .. n
    BY <1>0
  <2>2. acc[k - 1] \in V
    BY <1>8, <2>1 DEF IsRun
  <2> QED
    BY <1>2, <1>8, <2>2 DEF IsRun
<1>10. acc \in [0 .. n -> V] /\ acc[0] = [values |-> <<>>, ended |-> FALSE] /\ LoggingSensitive(cfg) = acc[n].values
  BY <1>4, <1>8 DEF IsRun
<1> QED
  BY <1>9, <1>10 DEF Collecting, n, V

\* Running totals within a limit.
AddsWithin(s, m, limit, f) == Adds(s, m, f) /\ \A k \in 0 .. m : f[k] <= limit

\* At each of the first m values of s an empty one is passed over and one with
\* room, in number and in bytes, is appended.
Appends(s, Texts, m, limit, acc) ==
    /\ \A k \in 0 .. m : acc[k] \in Seq(Texts)
    /\ acc[0] = <<>>
    /\ \A k \in 1 .. m :
         /\ s[k].len = 0 => acc[k] = acc[k - 1]
         /\ s[k].len > 0 /\ Len(acc[k - 1]) < m /\ Total(acc[k - 1]) + s[k].len <= limit =>
              acc[k] = Append(acc[k - 1], s[k])

\* What then holds after m values: the kept ones are not empty, their total is
\* what has been read, and no value but an empty one is missing.
Kept(s, m, f, acc) ==
    /\ Len(acc[m]) <= m /\ Total(acc[m]) = f[m]
    /\ \A i \in 1 .. Len(acc[m]) : acc[m][i].len > 0
    /\ \A j \in 1 .. m : s[j].len > 0 => s[j] \in Range(acc[m])

\* Where the values together are within the limit, every value that is not
\* empty is kept.
LEMMA AllKept ==
  ASSUME NEW Texts, \A t \in Texts : t.len \in Nat, NEW s \in Seq(Texts), NEW m \in 0 .. Len(s),
         NEW limit \in Nat, NEW f, AddsWithin(s, m, limit, f), NEW acc, Appends(s, Texts, m, limit, acc)
  PROVE  Kept(s, m, f, acc)
<1> DEFINE Good(k) == /\ Len(acc[k]) <= k /\ Total(acc[k]) = f[k]
                      /\ \A i \in 1 .. Len(acc[k]) : acc[k][i].len > 0
                      /\ \A j \in 1 .. k : s[j].len > 0 => s[j] \in Range(acc[k])
           T == {k \in 0 .. m : Good(k)}
<1>0. m \in Nat /\ 0 \in 0 .. m /\ \A k \in 1 .. m : s[k] \in Texts /\ s[k].len \in Nat
  OBVIOUS
<1>0a. Adds(s, m, f) /\ (\A k \in 0 .. m : f[k] <= limit /\ acc[k] \in Seq(Texts)) /\ acc[0] = <<>>
  BY DEF AddsWithin, Appends
<1>1. 0 \in T
  <2>1. Total(<<>>) = 0
    BY EmptyTotal
  <2>2. f[0] = 0
    BY <1>0a DEF Adds
  <2> QED
    BY <1>0, <1>0a, <2>1, <2>2
<1>2. ASSUME NEW k \in 1 .. m, Good(k - 1) PROVE Good(k)
  <2> DEFINE a == acc[k - 1]
             t == s[k]
  <2>1. a \in Seq(Texts) /\ t \in Texts /\ t.len \in Nat
    BY <1>0, <1>0a
  <2>2. f[k] = f[k - 1] + t.len /\ f[k] <= limit /\ f[k - 1] \in Nat
    BY <1>0, <1>0a DEF Adds
  <2>3. Total(a) = f[k - 1] /\ Len(a) <= k - 1 /\ Len(a) \in Nat
    BY <1>2, <2>1
  <2>4. CASE t.len = 0
    <3>1. acc[k] = a
      BY <2>4 DEF Appends
    <3>2. \A j \in 1 .. k : s[j].len > 0 => j \in 1 .. (k - 1)
      BY <1>0, <2>4
    <3>3. Len(acc[k]) <= k /\ Total(acc[k]) = f[k]
      BY <1>0, <2>2, <2>3, <2>4, <3>1
    <3>4. \A j \in 1 .. k : s[j].len > 0 => s[j] \in Range(acc[k])
      BY <1>2, <3>1, <3>2
    <3>5. \A i \in 1 .. Len(acc[k]) : acc[k][i].len > 0
      BY <1>2, <3>1
    <3> QED
      BY <3>3, <3>4, <3>5
  <2>5. CASE t.len > 0
    <3>1. acc[k] = Append(a, t)
      BY <1>0, <2>2, <2>3, <2>5 DEF Appends
    <3>2. Total(acc[k]) = Total(a) + t.len
      BY <2>1, <3>1, TotalAppend
    <3>3. /\ acc[k] \in Seq(Texts) /\ Len(acc[k]) = Len(a) + 1 /\ acc[k][Len(a) + 1] = t
          /\ \A i \in 1 .. Len(a) : acc[k][i] = a[i]
      BY <2>1, <3>1
    <3>4. Range(acc[k]) = Range(a) \cup {t}
      BY <2>1, <3>1, RangeAppend
    <3> HIDE DEF a
    <3>5. Len(acc[k]) <= k /\ Total(acc[k]) = f[k]
      BY <1>0, <2>1, <2>2, <2>3, <3>2, <3>3
    <3>6. ASSUME NEW i \in 1 .. Len(acc[k]) PROVE acc[k][i].len > 0
      <4>1. CASE i = Len(a) + 1
        BY <2>5, <3>3, <4>1
      <4>2. CASE i # Len(a) + 1
        <5>1. i \in 1 .. Len(a)
          BY <2>3, <3>3, <4>2
        <5> QED
          BY <1>2, <3>3, <5>1 DEF a
      <4> QED
        BY <4>1, <4>2
    <3>7. ASSUME NEW j \in 1 .. k, s[j].len > 0 PROVE s[j] \in Range(acc[k])
      <4>1. CASE j = k
        BY <3>4, <4>1
      <4>2. CASE j # k
        <5>1. j \in 1 .. (k - 1)
          BY <1>0, <4>2
        <5> QED
          BY <1>2, <3>4, <3>7, <5>1 DEF a
      <4> QED
        BY <4>1, <4>2
    <3> QED
      BY <3>5, <3>6, <3>7
  <2> HIDE DEF Good
  <2> QED
    BY <2>1, <2>4, <2>5
<1> HIDE DEF Good
<1>3. \A k \in 1 .. m : k - 1 \in T => k \in T
  BY <1>0, <1>2
<1>4. \A k \in 0 .. m : k \in T
  <2> HIDE DEF T
  <2> QED
    BY <1>0, <1>1, <1>3, UpTo
<1>5. Good(m)
  BY <1>0, <1>4
<1> QED
  BY <1>5 DEF Good, Kept

\* The types of the Go structures (model/config.go): Texts are the
\* texts, Words the other strings. What a file and the environment may set has
\* these types too, whatever else is wrong with it.
HoneytokenType(Texts, Words) == [name : Words, ns : Words, type : Words, written : Words, data : Seq(Texts)]
SinkType(Texts, Words) ==
    [type : Words, target : Words, index : Words, token : Texts, password : Texts, headers : Seq(Texts)]
HasType(setting, value, Texts, Words) ==
    /\ setting = "tokenValues" => value \in Seq(Texts)
    /\ setting = "honeytokens" => value \in Seq(HoneytokenType(Texts, Words))
    /\ setting = "sinks" => value \in Seq(SinkType(Texts, Words))
    /\ setting \in Range(EnvSinks) => value \in SinkType(Texts, Words)
FileTyped(settings, Texts, Words) == \A s \in DOMAIN settings : HasType(s, settings[s], Texts, Words)
EnvTyped(env, Texts, Words) == \A v \in DOMAIN env : HasType(v[1], env[v], Texts, Words)

\* What the redaction is computed from has these types.
ConfigTyped(cfg, Texts, Words) ==
    /\ cfg["tokenValues"] \in Seq(Texts)
    /\ cfg["honeytokens"] \in Seq(HoneytokenType(Texts, Words))
    /\ cfg["sinks"] \in Seq(SinkType(Texts, Words))

\* What is collected is texts, among them every token and honeytoken.
LEMMA ValuesTyped ==
  ASSUME NEW Texts, NEW Words, NEW cfg, ConfigTyped(cfg, Texts, Words)
  PROVE  /\ HoneytokenData(cfg) \in Seq(Texts)
         /\ K8SValues(cfg) \in Seq(Texts) /\ SinkValues(cfg) \in Seq(Texts)
         /\ Secrets(cfg) \subseteq {t \in Range(K8SValues(cfg)) : t.len > 0}
<1> DEFINE tokens == cfg["honeytokens"]
           values == cfg["tokenValues"]
           sinks == cfg["sinks"]
           data == [i \in DOMAIN tokens |-> tokens[i].data]
           parts == [i \in DOMAIN sinks |-> <<sinks[i].token, sinks[i].password>> \o sinks[i].headers]
<1>1. values \in Seq(Texts) /\ tokens \in Seq(HoneytokenType(Texts, Words)) /\ sinks \in Seq(SinkType(Texts, Words))
  BY DEF ConfigTyped
<1>1a. DOMAIN tokens = 1 .. Len(tokens) /\ DOMAIN sinks = 1 .. Len(sinks) /\ Len(tokens) \in Nat /\ Len(sinks) \in Nat
  BY <1>1
<1>1b. \A i \in 1 .. Len(tokens) : tokens[i] \in HoneytokenType(Texts, Words)
  BY <1>1
<1>1c. \A i \in 1 .. Len(sinks) : sinks[i] \in SinkType(Texts, Words)
  BY <1>1
<1>1d. /\ K8SValues(cfg) = values \o FlattenSeq(data) /\ HoneytokenData(cfg) = FlattenSeq(data)
       /\ SinkValues(cfg) = FlattenSeq(parts)
  BY DEF K8SValues, SinkValues, HoneytokenData
<1>1e. Secrets(cfg) = {t \in Range(values) \cup UNION {Range(tokens[i].data) : i \in DOMAIN tokens} : t.len > 0}
  BY DEF Secrets
<1> HIDE DEF tokens, values, sinks
<1>2. data \in Seq(Seq(Texts)) /\ Len(data) = Len(tokens) /\ DOMAIN tokens = 1 .. Len(tokens)
  <2>1. \A i \in 1 .. Len(tokens) : tokens[i].data \in Seq(Texts)
    BY <1>1b DEF HoneytokenType
  <2> QED
    BY <1>1a, <2>1
<1>3. parts \in Seq(Seq(Texts))
  <2>1. ASSUME NEW i \in 1 .. Len(sinks) PROVE <<sinks[i].token, sinks[i].password>> \o sinks[i].headers \in Seq(Texts)
    <3>1. sinks[i].token \in Texts /\ sinks[i].password \in Texts /\ sinks[i].headers \in Seq(Texts)
      BY <1>1c DEF SinkType
    <3>2. <<sinks[i].token, sinks[i].password>> \in Seq(Texts)
      BY <3>1
    <3> QED
      BY <3>1, <3>2
  <2> QED
    BY <1>1a, <2>1
<1>5. \A i \in 1 .. Len(tokens) : data[i] = tokens[i].data
  BY <1>2
<1> HIDE DEF data, parts
<1>6. FlattenSeq(data) \in Seq(Texts) /\ \A i \in 1 .. Len(data) : Range(data[i]) \subseteq Range(FlattenSeq(data))
  BY <1>2, FlattenHolds
<1>7. FlattenSeq(parts) \in Seq(Texts)
  BY <1>3, FlattenHolds
<1>8. /\ Range(values) \subseteq Range(K8SValues(cfg))
      /\ Range(FlattenSeq(data)) \subseteq Range(K8SValues(cfg))
  BY <1>1, <1>1d, <1>6, RangeConcat
<1>9. Secrets(cfg) \subseteq {t \in Range(K8SValues(cfg)) : t.len > 0}
  BY <1>1e, <1>2, <1>5, <1>6, <1>8
<1> QED
  BY <1>1, <1>1d, <1>6, <1>7, <1>9 DEF data

\* The values of tokens and honeytokens of a valid configuration are all kept,
\* within the limits of the redaction.
LEMMA AllCollected ==
  ASSUME NEW Texts, \A t \in Texts : t.len \in Nat, NEW Words, NEW cfg, ConfigTyped(cfg, Texts, Words),
         ValidateTokens(cfg), ValidateHoneytokens(cfg)
  PROVE  LET base == K8SSensitive(cfg)
         IN /\ base \in Seq(Texts) /\ Len(base) <= MaxSensitive /\ Total(base) <= MaxSensitiveBytes
            /\ \A i \in 1 .. Len(base) : base[i].len > 0
            /\ Secrets(cfg) \subseteq Range(base)
<1> DEFINE s == K8SValues(cfg)
           n == Len(s)
           data == HoneytokenData(cfg)
           values == cfg["tokenValues"]
<1>1. s \in Seq(Texts) /\ values \in Seq(Texts) /\ data \in Seq(Texts) /\ s = values \o data
  BY ValuesTyped DEF ConfigTyped, K8SValues
<1>2. Len(values) <= MaxTokens /\ Len(data) <= MaxTotalData /\ Total(data) + Total(values) <= MaxSecretPayload
  BY DEF ValidateTokens, ValidateHoneytokens
<1>3. /\ MaxTokens \in Nat /\ MaxTotalData \in Nat /\ MaxSecretPayload \in Nat
      /\ MaxSensitive \in Nat /\ MaxSensitiveBytes \in Nat
  BY LimitsAreNumbers
<1>4. Secrets(cfg) \subseteq {t \in Range(s) : t.len > 0}
  BY ValuesTyped
<1> HIDE DEF data, values
<1>5. Total(s) = Total(values) + Total(data)
  <2> HIDE DEF s
  <2> QED
    BY <1>1, TotalConcat
<1>6. Total(values) \in Nat /\ Total(data) \in Nat
  BY <1>1, TotalNat
<1>7. n <= MaxSensitive /\ Total(s) <= MaxSensitiveBytes /\ Total(s) \in Nat /\ n \in Nat /\ n = Len(values) + Len(data)
  <2>1. Len(values) \in Nat /\ Len(data) \in Nat /\ n = Len(values) + Len(data)
    BY <1>1
  <2> HIDE DEF s
  <2> QED
    BY <1>2, <1>3, <1>5, <1>6, <2>1, RedactionRoom DEF RedactionRoom
<1> HIDE DEF s
<1>8. PICK f : Adds(s, n, f) /\ f[n] = Total(s) /\ \A k \in 0 .. n : f[k] <= Total(s)
  BY <1>1, TotalOf
<1>9. PICK acc : Adding(s, Texts, acc) /\ K8SSensitive(cfg) = acc[n]
  BY <1>1, K8SRuns DEF s
<1>9a. acc[0] = <<>> /\ \A k \in 0 .. n : acc[k] \in Seq(Texts)
  BY <1>9 DEF Adding
<1>9b. \A k \in 1 .. n : acc[k] = Add(acc[k - 1], s[k], MaxSensitive)
  BY <1>9 DEF Adding
<1>10. AddsWithin(s, n, MaxSensitiveBytes, f)
  <2>1. \A k \in 0 .. n : f[k] \in Nat
    BY <1>8 DEF Adds
  <2> QED
    BY <1>3, <1>7, <1>8, <2>1 DEF AddsWithin
<1> HIDE DEF n
<1>11. Appends(s, Texts, n, MaxSensitiveBytes, acc)
  <2>1. ASSUME NEW k \in 1 .. n
        PROVE  /\ s[k].len = 0 => acc[k] = acc[k - 1]
               /\ s[k].len > 0 /\ Len(acc[k - 1]) < n /\ Total(acc[k - 1]) + s[k].len <= MaxSensitiveBytes =>
                    acc[k] = Append(acc[k - 1], s[k])
    <3> DEFINE a == acc[k - 1]
    <3>1. k - 1 \in 0 .. n /\ s[k] \in Texts /\ s[k].len \in Nat
      BY <1>1, <1>7 DEF n
    <3>2. a \in Seq(Texts)
      BY <1>9a, <3>1
    <3>3. acc[k] = Add(a, s[k], MaxSensitive)
      BY <1>9b
    <3> HIDE DEF a
    <3>4. Total(a) \in Nat /\ Len(a) \in Nat
      BY <3>2, TotalNat
    <3>5. ASSUME s[k].len > 0, Len(a) < n, Total(a) + s[k].len <= MaxSensitiveBytes PROVE acc[k] = Append(a, s[k])
      <4>1. ~ (s[k].len = 0 \/ Len(a) >= MaxSensitive \/ Total(a) + s[k].len > MaxSensitiveBytes)
        BY <1>3, <1>7, <3>1, <3>4, <3>5
      <4> QED
        BY <3>3, <4>1 DEF Add
    <3>6. ASSUME s[k].len = 0 PROVE acc[k] = a
      BY <3>3, <3>6 DEF Add
    <3> QED
      BY <3>5, <3>6 DEF a
  <2> QED
    BY <1>9a, <2>1 DEF Appends
<1>12. n \in 0 .. Len(s)
  BY <1>7 DEF n
<1>13. Kept(s, n, f, acc)
  BY <1>1, <1>3, <1>10, <1>11, <1>12, AllKept
<1>14. {t \in Range(s) : t.len > 0} \subseteq Range(acc[n])
  BY <1>1, <1>13 DEF Range, n, Kept
<1>15. acc[n] \in Seq(Texts) /\ Len(acc[n]) \in Nat
  BY <1>7, <1>9a
<1> QED
  BY <1>3, <1>4, <1>7, <1>8, <1>9, <1>13, <1>14, <1>15 DEF Kept

\* The values of the tokens come first in what mergeSensitive gives, within
\* what the replacer looks at.
LEMMA BaseComesFirst ==
  ASSUME NEW S, NEW base \in Seq(S), NEW extra \in Seq(S), Len(base) <= MaxSensitive
  PROVE  LET s == Within(MergeSensitive(base, extra))
         IN s \in Seq(S) /\ Len(base) <= Len(s) /\ \A i \in 1 .. Len(base) : s[i] = base[i]
<1> DEFINE values == MergeSensitive(base, extra)
           n == Len(base)
           m == IF n + Len(extra) > MaxSensitive THEN MaxSensitive - n ELSE Len(extra)
           e == SubSeq(extra, 1, m)
           q == IF Len(values) > MaxSensitive THEN MaxSensitive ELSE Len(values)
<1>0. MaxSensitive \in Nat /\ n \in Nat /\ Len(extra) \in Nat /\ n <= MaxSensitive
  BY LimitsAreNumbers
<1>1. values \in Seq(S) /\ n <= Len(values) /\ \A i \in 1 .. n : values[i] = base[i]
  <2>1. CASE n >= MaxSensitive
    <3>1. values = base
      BY <2>1 DEF MergeSensitive
    <3> QED
      BY <1>0, <3>1
  <2>2. CASE ~ (n >= MaxSensitive)
    <3>1. values = base \o e
      BY <2>2 DEF MergeSensitive
    <3>2. m \in 0 .. Len(extra)
      BY <1>0, <2>2
    <3> HIDE DEF m
    <3>3. e \in Seq(S)
      BY <3>2
    <3> HIDE DEF e, values
    <3>4. values \in Seq(S) /\ Len(values) = n + Len(e) /\ Len(e) \in Nat
      BY <3>1, <3>3
    <3>5. \A i \in 1 .. n : values[i] = base[i]
      BY <3>1, <3>3
    <3> QED
      BY <1>0, <3>4, <3>5
  <2> QED
    BY <2>1, <2>2
<1> HIDE DEF values
<1>2. Within(values) = SubSeq(values, 1, q)
  BY DEF Within
<1>3. q \in 0 .. Len(values) /\ n <= q /\ Len(values) \in Nat
  BY <1>0, <1>1
<1> HIDE DEF q, n
<1>4. /\ SubSeq(values, 1, q) \in Seq(S) /\ Len(SubSeq(values, 1, q)) = q
      /\ \A i \in 1 .. q : SubSeq(values, 1, q)[i] = values[i]
  BY <1>1, <1>3
<1>5. \A i \in 1 .. n : i \in 1 .. q
  BY <1>0, <1>3
<1> QED
  BY <1>1, <1>2, <1>3, <1>4, <1>5 DEF values, n

\* What the replacer has kept stays kept.
LEMMA KeepsGrowing ==
  ASSUME NEW Texts, NEW s \in Seq(Texts), NEW acc, Keeping(s, Texts, acc), NEW m \in 0 .. Len(s)
  PROVE  Range(acc[m]) \subseteq Range(acc[Len(s)])
<1> DEFINE n == Len(s)
           T == {k \in 0 .. n : k >= m => Range(acc[m]) \subseteq Range(acc[k])}
<1>0. n \in Nat /\ m \in Nat /\ m <= n
  OBVIOUS
<1>1. \A k \in 0 .. n : acc[k] \in Seq(Texts)
  BY DEF Keeping
<1>2. \A k \in 1 .. n : acc[k] = Keep(acc[k - 1], s[k]) /\ s[k] \in Texts
  BY DEF Keeping
<1> HIDE DEF n
<1>3. 0 \in T
  BY <1>0
<1>4. ASSUME NEW k \in 1 .. n, k - 1 \in T PROVE k \in T
  <2>1. k - 1 \in 0 .. n /\ k \in 0 .. n
    BY <1>0
  <2>2. Range(acc[k - 1]) \subseteq Range(acc[k])
    <3>1. acc[k] = acc[k - 1] \/ acc[k] = Append(acc[k - 1], s[k])
      BY <1>2 DEF Keep
    <3>2. acc[k - 1] \in Seq(Texts) /\ s[k] \in Texts
      BY <1>1, <1>2, <2>1
    <3>3. Range(Append(acc[k - 1], s[k])) = Range(acc[k - 1]) \cup {s[k]}
      BY <3>2, RangeAppend
    <3> QED
      BY <3>1, <3>3
  <2>3. CASE k = m
    BY <2>1, <2>3
  <2>4. CASE k # m
    <3>1. k >= m => k - 1 >= m
      BY <1>0, <2>4
    <3> QED
      BY <1>4, <2>1, <2>2, <3>1
  <2> QED
    BY <2>3, <2>4
<1> HIDE DEF T
<1>5. \A k \in 1 .. n : k - 1 \in T => k \in T
  BY <1>4
<1>6. \A k \in 0 .. n : k \in T
  BY <1>0, <1>3, <1>5, UpTo
<1>7. n \in T
  BY <1>0, <1>6
<1> QED
  BY <1>0, <1>7 DEF T, n

\* The sinks' values are texts.
LEMMA LoggingTyped ==
  ASSUME NEW Texts, \A t \in Texts : t.len \in Nat, NEW Words, NEW cfg, ConfigTyped(cfg, Texts, Words)
  PROVE  LoggingSensitive(cfg) \in Seq(Texts)
<1> DEFINE s == SinkValues(cfg)
<1>1. s \in Seq(Texts)
  BY ValuesTyped
<1>2. PICK acc : Collecting(s, Texts, acc) /\ LoggingSensitive(cfg) = acc[Len(s)].values
  BY <1>1, LoggingRuns
<1> HIDE DEF s
<1>3. Len(s) \in 0 .. Len(s)
  BY <1>1
<1> QED
  BY <1>2, <1>3 DEF Collecting, Collected

\* A valid configuration without a token for the AI sensor: every token and
\* honeytoken is among the redacted values.
LEMMA ValidIsCovered ==
  ASSUME NEW Texts, \A t \in Texts : t.len \in Nat, NEW Words, NEW cfg, ConfigTyped(cfg, Texts, Words),
         ValidateTokens(cfg), ValidateHoneytokens(cfg), cfg["aiToken"].len = 0
  PROVE  Secrets(cfg) \subseteq Redacted(SensitiveValues(cfg))
<1> DEFINE base == K8SSensitive(cfg)
           extra == LoggingSensitive(cfg)
           values == MergeSensitive(base, extra)
           s == Within(values)
           m == Len(base)
           n == Len(s)
<1>1. /\ base \in Seq(Texts) /\ m <= MaxSensitive /\ Total(base) <= MaxSensitiveBytes
      /\ \A i \in 1 .. m : base[i].len > 0
      /\ Secrets(cfg) \subseteq Range(base)
  BY AllCollected
<1>2. extra \in Seq(Texts)
  BY LoggingTyped
<1>3. SensitiveValues(cfg) = values
  <2>1. ~ (cfg["aiToken"].len > 0)
    OBVIOUS
  <2>2. << >> \o base = base
    BY <1>1
  <2> QED
    BY <2>1, <2>2 DEF SensitiveValues
<1> HIDE DEF base, extra
<1>4. s \in Seq(Texts) /\ m <= n /\ \A i \in 1 .. m : s[i] = base[i]
  BY <1>1, <1>2, BaseComesFirst
<1>5. PICK acc : Keeping(s, Texts, acc) /\ Redacted(values) = Range(acc[n])
  <2> HIDE DEF values
  <2> QED
    BY <1>4, RedactedRuns
<1> HIDE DEF s
<1>6. m \in Nat /\ n \in Nat /\ m \in 0 .. n /\ MaxSensitiveBytes \in Nat
  BY <1>1, <1>4, LimitsAreNumbers
<1>7. PICK f : Adds(base, m, f) /\ f[m] = Total(base) /\ \A k \in 0 .. m : f[k] <= Total(base)
  BY <1>1, TotalOf
<1>8. /\ \A k \in 0 .. n : acc[k] \in Seq(Texts)
      /\ \A k \in 1 .. n : acc[k] = Keep(acc[k - 1], s[k])
      /\ acc[0] = <<>>
  BY <1>5 DEF Keeping
<1>9. \A k \in 1 .. m : base[k] \in Texts
  BY <1>1
<1>10. Range(acc[m]) \subseteq Range(acc[n])
  BY <1>4, <1>5, <1>6, KeepsGrowing
<1>11. Range(base) = {base[k] : k \in 1 .. m}
  BY <1>1 DEF Range
<1>12. Total(base) \in Nat
  BY <1>1, TotalNat
<1>13. m \in 0 .. Len(base)
  BY <1>6
<1> HIDE DEF m, n
<1>14. AddsWithin(base, m, MaxSensitiveBytes, f)
  <2>1. \A k \in 0 .. m : f[k] \in Nat
    BY <1>7 DEF Adds
  <2> QED
    BY <1>1, <1>6, <1>7, <1>12, <2>1 DEF AddsWithin
<1>15. Appends(base, Texts, m, MaxSensitiveBytes, acc)
  <2>1. ASSUME NEW k \in 1 .. m
        PROVE  /\ base[k].len = 0 => acc[k] = acc[k - 1]
               /\ base[k].len > 0 /\ Len(acc[k - 1]) < m /\ Total(acc[k - 1]) + base[k].len <= MaxSensitiveBytes =>
                    acc[k] = Append(acc[k - 1], base[k])
    <3> DEFINE a == acc[k - 1]
    <3>1. k - 1 \in 0 .. n /\ k \in 1 .. n
      BY <1>6
    <3>2. a \in Seq(Texts) /\ base[k] \in Texts /\ base[k].len \in Nat
      BY <1>8, <1>9, <3>1
    <3>3. acc[k] = Keep(a, base[k])
      BY <1>4, <1>8, <3>1
    <3> HIDE DEF a
    <3>4. Total(a) \in Nat
      BY <3>2, TotalNat
    <3>5. ASSUME base[k].len > 0, Total(a) + base[k].len <= MaxSensitiveBytes PROVE acc[k] = Append(a, base[k])
      <4>1. ~ (base[k].len = 0 \/ Total(a) + base[k].len > MaxSensitiveBytes)
        BY <1>6, <3>2, <3>4, <3>5
      <4> QED
        BY <3>3, <4>1 DEF Keep
    <3>6. ASSUME base[k].len = 0 PROVE acc[k] = a
      BY <3>3, <3>6 DEF Keep
    <3> QED
      BY <3>5, <3>6 DEF a
  <2>2. \A k \in 0 .. m : acc[k] \in Seq(Texts)
    BY <1>6, <1>8
  <2> QED
    BY <1>8, <2>1, <2>2 DEF Appends
<1>16. Kept(base, m, f, acc)
  BY <1>1, <1>6, <1>13, <1>14, <1>15, AllKept
<1>17. Range(base) \subseteq Range(acc[m])
  BY <1>1, <1>11, <1>16 DEF Kept
<1> QED
  BY <1>1, <1>3, <1>5, <1>10, <1>17

\* The entries of a list are texts, and so are those that are not empty.
LEMMA EntriesTyped ==
  ASSUME NEW Texts, NEW list \in Seq(Texts)
  PROVE  SplitEntries(list) \in Seq(Texts)
<1> DEFINE parts == [i \in DOMAIN list |-> IF list[i].len > 0 THEN <<list[i]>> ELSE <<>>]
<1>1. DOMAIN list = 1 .. Len(list) /\ Len(list) \in Nat
  OBVIOUS
<1>2. \A i \in 1 .. Len(list) : <<list[i]>> \in Seq(Texts) /\ <<>> \in Seq(Texts)
  OBVIOUS
<1>3. parts \in Seq(Seq(Texts))
  BY <1>1, <1>2
<1> HIDE DEF parts
<1>4. FlattenSeq(parts) \in Seq(Texts)
  BY <1>3, FlattenHolds
<1> QED
  BY <1>4 DEF SplitEntries, parts

\* What a variable that is set gives has the type of its setting.
LEMMA ValueTyped ==
  ASSUME NEW Texts, NEW Words, NEW env, EnvTyped(env, Texts, Words), NEW s, IsSet(env, s)
  PROVE  HasType(s, ValueOf(env, s), Texts, Words)
<1>1. <<s, "present">>[1] = s /\ <<s, "old">>[1] = s
  OBVIOUS
<1>2. CASE <<s, "present">> \in DOMAIN env
  <2>1. HasType(<<s, "present">>[1], env[<<s, "present">>], Texts, Words)
    BY <1>2 DEF EnvTyped
  <2> QED
    BY <1>1, <1>2, <2>1 DEF ValueOf
<1>3. CASE <<s, "present">> \notin DOMAIN env
  <2>1. <<s, "old">> \in DOMAIN env
    BY <1>3 DEF IsSet
  <2>2. HasType(<<s, "old">>[1], env[<<s, "old">>], Texts, Words)
    BY <2>1 DEF EnvTyped
  <2> QED
    BY <1>1, <1>3, <2>2 DEF ValueOf
<1> QED
  BY <1>2, <1>3

\* applyEnvSinks gives sinks.
LEMMA EnvSinksTyped ==
  ASSUME NEW Texts, NEW Words, NEW env, EnvTyped(env, Texts, Words)
  PROVE  ApplyEnvSinks(env) \in Seq(SinkType(Texts, Words))
<1> DEFINE parts == [i \in DOMAIN EnvSinks |-> IF IsSet(env, EnvSinks[i]) THEN <<ValueOf(env, EnvSinks[i])>> ELSE <<>>]
<1>1. DOMAIN EnvSinks = 1 .. 4
  BY DEF EnvSinks
<1>2. ASSUME NEW i \in 1 .. 4, IsSet(env, EnvSinks[i]) PROVE ValueOf(env, EnvSinks[i]) \in SinkType(Texts, Words)
  <2>1. HasType(EnvSinks[i], ValueOf(env, EnvSinks[i]), Texts, Words)
    BY <1>2, ValueTyped
  <2>2. EnvSinks[i] \in Range(EnvSinks)
    BY <1>1 DEF Range
  <2> QED
    BY <2>1, <2>2 DEF HasType
<1>3. ASSUME NEW i \in 1 .. 4 PROVE parts[i] \in Seq(SinkType(Texts, Words))
  BY <1>1, <1>2
<1>4. parts \in Seq(Seq(SinkType(Texts, Words)))
  <2>1. parts = [i \in 1 .. 4 |-> parts[i]]
    BY <1>1
  <2> HIDE DEF parts
  <2> QED
    BY <1>3, <2>1
<1> HIDE DEF parts
<1>5. FlattenSeq(parts) \in Seq(SinkType(Texts, Words))
  BY <1>4, FlattenHolds
<1> QED
  BY <1>5 DEF ApplyEnvSinks, parts

\* The defaults under the file's settings, the environment over them: the types
\* are kept.
LEMMA OverlaidTyped ==
  ASSUME NEW Texts, NEW Words, NEW file, file.state = "good" => FileTyped(file.settings, Texts, Words)
  PROVE  LET cfg == IF file.state = "good" THEN Overlay(file.settings, Defaults) ELSE Defaults
         IN ConfigTyped(cfg, Texts, Words) /\ {"tokenValues", "honeytokens", "sinks"} \subseteq DOMAIN cfg
<1>1. ConfigTyped(Defaults, Texts, Words) /\ {"tokenValues", "honeytokens", "sinks"} \subseteq DOMAIN Defaults
  <2>1. {"tokenValues", "honeytokens", "sinks"} \subseteq DOMAIN Defaults
    BY DEF Defaults, Lists
  <2>2. Defaults["tokenValues"] = <<>> /\ Defaults["honeytokens"] = <<>> /\ Defaults["sinks"] = <<>>
    BY DEF Defaults, Lists
  <2> QED
    BY <2>1, <2>2 DEF ConfigTyped
<1>2. ASSUME FileTyped(file.settings, Texts, Words)
      PROVE  LET cfg == Overlay(file.settings, Defaults)
             IN ConfigTyped(cfg, Texts, Words) /\ {"tokenValues", "honeytokens", "sinks"} \subseteq DOMAIN cfg
  <2> DEFINE f == file.settings
             cfg == Overlay(f, Defaults)
  <2>1. DOMAIN cfg = DOMAIN f \cup DOMAIN Defaults
    BY DEF Overlay
  <2>2. \A s \in DOMAIN Defaults : cfg[s] = IF s \in DOMAIN f THEN f[s] ELSE Defaults[s]
    BY DEF Overlay
  <2>3. \A s \in DOMAIN f : HasType(s, f[s], Texts, Words)
    BY <1>2 DEF FileTyped
  <2> HIDE DEF f, cfg
  <2>4. cfg["tokenValues"] \in Seq(Texts)
    BY <1>1, <2>2, <2>3 DEF HasType, ConfigTyped
  <2>5. cfg["honeytokens"] \in Seq(HoneytokenType(Texts, Words))
    BY <1>1, <2>2, <2>3 DEF HasType, ConfigTyped
  <2>6. cfg["sinks"] \in Seq(SinkType(Texts, Words))
    BY <1>1, <2>2, <2>3 DEF HasType, ConfigTyped
  <2> QED
    BY <1>1, <2>1, <2>4, <2>5, <2>6 DEF ConfigTyped, f, cfg
<1> QED
  BY <1>1, <1>2

\* applyEnvironment keeps the types.
LEMMA AppliedTyped ==
  ASSUME NEW Texts, NEW Words, NEW cfg, ConfigTyped(cfg, Texts, Words),
         {"tokenValues", "honeytokens", "sinks"} \subseteq DOMAIN cfg,
         NEW env, EnvTyped(env, Texts, Words), ApplyEnvironment(cfg, env).ok
  PROVE  LET new == ApplyEnvironment(cfg, env).cfg
         IN ConfigTyped(new, Texts, Words) /\ DOMAIN new = DOMAIN cfg
<1> DEFINE new == ApplyEnvironment(cfg, env).cfg
           value(s) == IF s = "sinks" THEN cfg[s] \o ApplyEnvSinks(env)
                       ELSE IF ~IsSet(env, s) THEN cfg[s]
                       ELSE CASE s \in Lists -> SplitEntries(ValueOf(env, s))
                              [] s = "honeytokens" -> cfg[s] \o ValueOf(env, s)
                              [] s \in {"hosts", "ports", "flags"} -> Overlay(ValueOf(env, s), cfg[s])
                              [] OTHER -> ValueOf(env, s)
<1>1. new = [s \in DOMAIN cfg |-> value(s)]
  BY DEF ApplyEnvironment, Accepted, Rejected
<1>2. /\ cfg["tokenValues"] \in Seq(Texts) /\ cfg["honeytokens"] \in Seq(HoneytokenType(Texts, Words))
      /\ cfg["sinks"] \in Seq(SinkType(Texts, Words))
  BY DEF ConfigTyped
<1>3. value("tokenValues") \in Seq(Texts)
  <2>1. CASE IsSet(env, "tokenValues")
    <3>1. value("tokenValues") = SplitEntries(ValueOf(env, "tokenValues"))
      BY <2>1 DEF Lists
    <3>2. HasType("tokenValues", ValueOf(env, "tokenValues"), Texts, Words)
      BY <2>1, ValueTyped
    <3>3. ValueOf(env, "tokenValues") \in Seq(Texts)
      BY <3>2 DEF HasType
    <3> QED
      BY <3>1, <3>3, EntriesTyped
  <2>2. CASE ~IsSet(env, "tokenValues")
    BY <1>2, <2>2
  <2> QED
    BY <2>1, <2>2
<1>4. value("honeytokens") \in Seq(HoneytokenType(Texts, Words))
  <2>1. CASE IsSet(env, "honeytokens")
    <3>1. value("honeytokens") = cfg["honeytokens"] \o ValueOf(env, "honeytokens")
      BY <2>1 DEF Lists
    <3>2. HasType("honeytokens", ValueOf(env, "honeytokens"), Texts, Words)
      BY <2>1, ValueTyped
    <3>3. ValueOf(env, "honeytokens") \in Seq(HoneytokenType(Texts, Words))
      BY <3>2 DEF HasType
    <3> QED
      BY <1>2, <3>1, <3>3
  <2>2. CASE ~IsSet(env, "honeytokens")
    BY <1>2, <2>2
  <2> QED
    BY <2>1, <2>2
<1>5. value("sinks") \in Seq(SinkType(Texts, Words))
  <2>1. value("sinks") = cfg["sinks"] \o ApplyEnvSinks(env)
    OBVIOUS
  <2> QED
    BY <1>2, <2>1, EnvSinksTyped
<1> HIDE DEF new, value
<1>6. DOMAIN new = DOMAIN cfg
  BY <1>1
<1>7. /\ new["tokenValues"] = value("tokenValues") /\ new["honeytokens"] = value("honeytokens")
      /\ new["sinks"] = value("sinks")
  BY <1>1
<1> QED
  BY <1>3, <1>4, <1>5, <1>6, <1>7 DEF ConfigTyped, new

\* normalize keeps the types: it changes a honeytoken's type only.
LEMMA NormalTyped ==
  ASSUME NEW Texts, NEW Words, "Opaque" \in Words, NEW cfg, ConfigTyped(cfg, Texts, Words),
         {"tokenValues", "honeytokens", "sinks"} \subseteq DOMAIN cfg
  PROVE  ConfigTyped(Normalize(cfg), Texts, Words)
<1> DEFINE tokens == cfg["honeytokens"]
           new == [i \in DOMAIN tokens |-> WithType(tokens[i])]
<1>1. tokens \in Seq(HoneytokenType(Texts, Words))
  BY DEF ConfigTyped
<1>2. Normalize(cfg)["tokenValues"] = cfg["tokenValues"] /\ Normalize(cfg)["sinks"] = cfg["sinks"]
  BY DEF Normalize
<1>3. Normalize(cfg)["honeytokens"] = new
  BY DEF Normalize
<1>4. ASSUME NEW t \in HoneytokenType(Texts, Words) PROVE WithType(t) \in HoneytokenType(Texts, Words)
  <2> DEFINE text == IF t.type = "" THEN "Opaque" ELSE t.type
  <2>1. t = [name |-> t.name, ns |-> t.ns, type |-> t.type, written |-> t.written, data |-> t.data]
    BY DEF HoneytokenType
  <2>2. t.name \in Words /\ t.ns \in Words /\ t.type \in Words /\ t.written \in Words /\ t.data \in Seq(Texts)
    BY DEF HoneytokenType
  <2>3. text \in Words
    BY <2>2
  <2>4. WithType(t) = [t EXCEPT !.type = text]
    BY DEF WithType
  <2> HIDE DEF text
  <2>5. WithType(t) = [name |-> t.name, ns |-> t.ns, type |-> text, written |-> t.written, data |-> t.data]
    BY <2>1, <2>4
  <2> QED
    BY <2>2, <2>3, <2>5 DEF HoneytokenType
<1> HIDE DEF tokens
<1>5. new \in Seq(HoneytokenType(Texts, Words))
  <2>1. /\ DOMAIN tokens = 1 .. Len(tokens) /\ Len(tokens) \in Nat
        /\ \A i \in 1 .. Len(tokens) : tokens[i] \in HoneytokenType(Texts, Words)
    BY <1>1
  <2> QED
    BY <1>4, <2>1
<1> QED
  BY <1>2, <1>3, <1>5 DEF ConfigTyped

\* Whatever a file and an environment of the right types say: where NewConfig
\* accepts them for the Kubernetes sensor and no token for the AI sensor is
\* set, the value of every token and honeytoken is redacted from the events.
THEOREM HoneytokensAlwaysCovered ==
  ASSUME NEW Texts, \A t \in Texts : t.len \in Nat, NEW Words, "Opaque" \in Words,
         NEW file, file.state = "good" => FileTyped(file.settings, Texts, Words), NEW env, EnvTyped(env, Texts, Words)
  PROVE  HoneytokensCovered(file, env)
<1> DEFINE result == NewConfig(file, env)
           decoded == IF file.state = "good" THEN Overlay(file.settings, Defaults) ELSE Defaults
           overlaid == ApplyEnvironment(decoded, env)
           normal == Normalize(overlaid.cfg)
<1> SUFFICES ASSUME result.ok, result.cfg["mode"] = "k8s", result.cfg["aiToken"].len = 0
             PROVE  Secrets(result.cfg) \subseteq Redacted(SensitiveValues(result.cfg))
  BY DEF HoneytokensCovered
<1>1. overlaid.ok /\ Validate(normal) /\ result.cfg = normal
  BY DEF NewConfig, Accepted, Rejected
<1>2. ConfigTyped(decoded, Texts, Words) /\ {"tokenValues", "honeytokens", "sinks"} \subseteq DOMAIN decoded
  BY OverlaidTyped
<1> HIDE DEF result, decoded
<1>3. ConfigTyped(overlaid.cfg, Texts, Words) /\ DOMAIN overlaid.cfg = DOMAIN decoded
  BY <1>1, <1>2, AppliedTyped
<1> HIDE DEF overlaid
<1>4. ConfigTyped(normal, Texts, Words)
  BY <1>2, <1>3, NormalTyped
<1> HIDE DEF normal
<1>5. ValidateTokens(normal) /\ ValidateHoneytokens(normal)
  BY <1>1 DEF Validate
<1> QED
  BY <1>1, <1>4, <1>5, ValidIsCovered

\* What is looked at has the types of the Go structures.
InputTyped(Texts, Words, FieldSet) ==
    /\ task.kind = "config" => /\ task.file.state = "good" => FileTyped(task.file.settings, Texts, Words)
                               /\ EnvTyped(task.env, Texts, Words)
    /\ task.kind = "xff" => task.values \in Seq(HeaderType(FieldSet)) /\ task.forged \in HeaderType(FieldSet)

\* Whatever file and environment are looked at, of any texts and with any
\* limits: what is accepted for the Kubernetes sensor is redacted from the
\* events (NewConfig, SensitiveValues, newSensitiveValueReplacer).
THEOREM AcceptedIsRedacted ==
  ASSUME NEW Texts, \A t \in Texts : t.len \in Nat, NEW Words, "Opaque" \in Words,
         NEW FieldSet, InputTyped(Texts, Words, FieldSet)
  PROVE  HoneytokensRedacted
  BY HoneytokensAlwaysCovered DEF HoneytokensRedacted, InputTyped

\* Whatever headers are looked at, for any peer and any proxies: a header that
\* the client adds never becomes its address (clientAddrFromXFF).
THEOREM ForgedIsNeverTaken ==
  ASSUME NEW Texts, NEW Words, NEW FieldSet, InputTyped(Texts, Words, FieldSet)
  PROVE  ClientAddressUnforged
  BY AddressUnforged DEF ClientAddressUnforged, InputTyped
====
