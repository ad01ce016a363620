----------------------------- MODULE AIGateway -----------------------------
(***************************************************************************)
(* How the AI sensor decides about one request (honeypots/ai/ai.go): the   *)
(* route table, the refusals of ServeHTTP that depend on the request alone *)
(* and the validation chain of respond, each in the order of the code.     *)
(*                                                                         *)
(* A request is abstracted to what the decisions look at: its path and     *)
(* method, the header that carries the right token, the fate of its body,  *)
(* and the set of fields of the JSON object that are not as they must be.  *)
(***************************************************************************)
EXTENDS Sequences, SequencesExt

Management == {"/api/pull", "/api/push", "/api/create", "/api/copy", "/api/delete"}
Ollama == {"/api/chat", "/api/generate", "/api/show"} \cup Management
Discovery == {"/", "/api/version", "/api/tags", "/api/ps", "/v1/models"}
OpenAI == {"/v1/chat/completions", "/v1/responses"}
Anthropic == {"/v1/messages", "/v1/messages/count_tokens"}
Paths == Ollama \cup Discovery \cup OpenAI \cup Anthropic \cup {"/other"}

Fields == {"stream", "tools", "messages", "prompt", "input", "stored", "background",
           "max_tokens", "n", "limit"}

Request == [path : Paths,
            method : {"GET", "HEAD", "POST", "DELETE"},
            auth : {"none", "bearer", "x-api-key"},
            encoded : BOOLEAN,
            body : {"whole", "large", "broken"},
            json : {"object", "invalid", "deep"},
            model : {"served", "other", "invalid"},
            wrong : SUBSET Fields]

\* profileFor: the provider whose error format and token header are used.
Profile(path) ==
    CASE path \in Anthropic -> "anthropic"
      [] path \in OpenAI \cup {"/v1/models"} -> "openai"
      [] OTHER -> "ollama"

\* route: the method a path expects, "" for a path that is not served.
Expected(path) ==
    CASE path \in Discovery -> "GET"
      [] path = "/api/delete" -> "DELETE"
      [] path = "/other" -> ""
      [] OTHER -> "POST"

\* The action models.modify, which is never simulated.
Manages(path) == path \in Management

\* The header that must carry the token, by the profile of the path.
Authorized(r) ==
    r.auth = IF Profile(r.path) = "anthropic" THEN "x-api-key" ELSE "bearer"

MethodFits(r) ==
    r.method = Expected(r.path) \/ (Expected(r.path) = "GET" /\ r.method = "HEAD")

\* The code of the first check that applies; the last of a chain always does.
FirstThat(checks) == checks[SelectInSeq(checks, LAMBDA check : check[1])][2]

\* respond: the model is looked at before anything else, /api/show needs only
\* the model, and each field is checked for the paths that have it.
Respond(r) ==
    LET has(field, paths) == r.path \in paths /\ field \in r.wrong
        all == Paths
    IN FirstThat(<< <<r.model = "invalid", 400>>,
                    <<r.model = "other", 404>>,
                    <<r.path = "/api/show", 200>>,
                    <<has("stream", all), 400>>,
                    <<has("tools", all), 400>>,
                    <<has("messages", {"/api/chat", "/v1/chat/completions"} \cup Anthropic), 400>>,
                    <<has("prompt", {"/api/generate"}), 400>>,
                    <<has("input", {"/v1/responses"}), 400>>,
                    <<has("stored", {"/v1/responses"}), 400>>,
                    <<has("background", {"/v1/responses"}), 400>>,
                    <<has("max_tokens", {"/v1/messages"}), 400>>,
                    <<has("n", {"/v1/chat/completions"}), 400>>,
                    <<has("limit", all), 400>>,
                    <<TRUE, 200>> >>)

\* ServeHTTP once the request holds a work slot: token, content encoding,
\* body, path, method, discovery, JSON object, model management, respond.
Decide(token, r) ==
    FirstThat(<< <<token /\ ~Authorized(r), 401>>,
                 <<r.encoded, 415>>,
                 <<r.body = "large", 413>>,
                 <<r.body = "broken", 400>>,
                 <<Expected(r.path) = "", 404>>,
                 <<~MethodFits(r), 405>>,
                 <<Expected(r.path) = "GET", 200>>,
                 <<r.json # "object", 400>>,
                 <<Manages(r.path), 501>>,
                 <<TRUE, Respond(r)>> >>)
====
