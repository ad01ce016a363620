--------------------------- MODULE Configuration ---------------------------
(***************************************************************************)
(* How the process comes to its configuration (config/config.go) and which *)
(* of its values the event logger redacts (model/config.go and             *)
(* newSensitiveValueReplacer of logger/logger.go).                         *)
(*                                                                         *)
(* A configuration is a function from settings to values. A text is        *)
(* abstracted to an identity, a length and whether it has the form its     *)
(* setting asks for. A Go map (the data of a honeytoken, the headers of a   *)
(* sink) is the sequence in which its values are iterated.                 *)
(***************************************************************************)
EXTENDS Integers, Sequences, SequencesExt, FiniteSets, Functions, TLC

CONSTANTS
    MaxTokens, MaxTokenBytes, MaxTokenTotal,      \* legacy tokens
    MaxNamespaces, MaxCIDRs, MaxSinks, MaxHeaders, MaxCredentialBytes,
    MaxHoneytokens, MaxDataEntries, MaxTotalData, \* honeytokens
    MaxValueBytes, MaxSecretPayload,
    MaxSensitive,        \* values that are redacted at most
    MaxSinkSensitive,    \* of them from sinks
    MaxSensitiveBytes,   \* their total length
    MaxListBytes         \* input of an environment list

ASSUME LimitsAreNumbers ==
    {MaxTokens, MaxTotalData, MaxSecretPayload, MaxSensitive, MaxSinkSensitive, MaxSensitiveBytes} \subseteq Nat

\* The limits of the redaction leave room for every token and honeytoken that
\* validation lets through (320 = 64 + 256 values, 16 KiB of both).
ASSUME RedactionRoom ==
    /\ MaxSensitive >= MaxTokens + MaxTotalData
    /\ MaxSensitiveBytes >= MaxSecretPayload

Modes == {"ai", "docker", "k8s", "http", "tcp", "udp", "kubelet"}

Text(id, len) == [id |-> id, len |-> len, good |-> TRUE]
Empty == Text("", 0)
Total(texts) == FoldLeft(LAMBDA sum, t : sum + t.len, 0, texts)

\* f, and g where f has no value.
Overlay(f, g) == [s \in DOMAIN f \cup DOMAIN g |-> IF s \in DOMAIN f THEN f[s] ELSE g[s]]

Scalars == {"mode", "version", "ip", "node", "format", "aiToken"}
Lists == {"tokenValues", "tokenNames", "namespaces", "cidrs"}

\* Defaults: the hosts are loopback, the mode is Kubernetes, nothing is secret.
Defaults ==
    [s \in Scalars \cup Lists \cup {"hosts", "ports", "flags", "honeytokens", "sinks"} |->
        CASE s = "mode" -> "k8s" [] s = "version" -> "v1.37" [] s = "ip" -> "private"
          [] s = "node" -> "dns name" [] s = "format" -> "json" [] s = "aiToken" -> Empty
          [] s = "hosts" -> [m \in Modes |-> "ip literal"] [] s = "ports" -> [m \in Modes |-> "port"]
          [] s = "flags" -> [f \in {"offline", "tls", "kubelet tls", "kube system", "random", "agent"} |->
                               f = "kube system"]
          [] OTHER -> <<>>]

Accepted(cfg) == [ok |-> TRUE, cfg |-> cfg]
Rejected == [ok |-> FALSE, cfg |-> Defaults]

----------------------------------------------------------------------------
(* The environment: a function from the variables that are set to text that *)
(* is not blank. A variable is a setting and the name it goes by, the       *)
(* present one or, for some settings, one of earlier versions.              *)

\* firstSetEnv: the present name wins over the old one.
IsSet(env, setting) == <<setting, "present">> \in DOMAIN env \/ <<setting, "old">> \in DOMAIN env
ValueOf(env, setting) ==
    IF <<setting, "present">> \in DOMAIN env THEN env[<<setting, "present">>] ELSE env[<<setting, "old">>]

\* splitList: empty entries are skipped, and the input, the entries and their
\* number are bounded.
SplitEntries(list) == FlattenSeq([i \in DOMAIN list |-> IF list[i].len > 0 THEN <<list[i]>> ELSE <<>>])
SplitList(list, maxCount, maxEntry) ==
    LET entries == SplitEntries(list)
    IN /\ Total(list) + Len(list) - 1 <= MaxListBytes
       /\ Len(entries) <= maxCount
       /\ \A i \in DOMAIN entries : entries[i].len <= maxEntry

\* The limits of the lists; that of an entry differs from list to list in its
\* number only.
MaxCount(setting) ==
    CASE setting = "namespaces" -> MaxNamespaces [] setting = "cidrs" -> MaxCIDRs [] OTHER -> MaxTokens

\* parseEnvHoneytokens: entries name[@namespace]:key=value,...; a malformed
\* entry, too many of them or none at all is an error.
ParseEnvHoneytokens(tokens) ==
    /\ tokens # <<>> /\ Len(tokens) <= MaxHoneytokens
    /\ \A i \in DOMAIN tokens : tokens[i].written = "well" /\ tokens[i].data # <<>>

\* applyEnvSinks: one sink of each type, in a fixed order; parseEnvHeaders
\* refuses malformed or too many headers.
EnvSinks == <<"file sink", "splunk sink", "elasticsearch sink", "http sink">>
ApplyEnvSinks(env) ==
    FlattenSeq([i \in DOMAIN EnvSinks |-> IF IsSet(env, EnvSinks[i]) THEN <<ValueOf(env, EnvSinks[i])>> ELSE <<>>])
ParseEnvHeaders(env) ==
    IsSet(env, "http sink") =>
        LET headers == ValueOf(env, "http sink").headers
        IN Len(headers) <= MaxHeaders /\ \A i \in DOMAIN headers : headers[i].good

\* applyEnvironment: lists replace, honeytokens and sinks are appended; a
\* variable that cannot be parsed is an error.
ApplyEnvironment(cfg, env) ==
    LET well == /\ \A s \in Lists : IsSet(env, s) => SplitList(ValueOf(env, s), MaxCount(s), MaxTokenBytes)
                /\ IsSet(env, "honeytokens") => ParseEnvHoneytokens(ValueOf(env, "honeytokens"))
                /\ IsSet(env, "flags") => ValueOf(env, "flags") \in [DOMAIN cfg["flags"] -> BOOLEAN]
                /\ ParseEnvHeaders(env)
        value(s) ==
            IF s = "sinks" THEN cfg[s] \o ApplyEnvSinks(env)
            ELSE IF ~IsSet(env, s) THEN cfg[s]
            ELSE CASE s \in Lists -> SplitEntries(ValueOf(env, s))
                   [] s = "honeytokens" -> cfg[s] \o ValueOf(env, s)
                   [] s \in {"hosts", "ports", "flags"} -> Overlay(ValueOf(env, s), cfg[s])
                   [] OTHER -> ValueOf(env, s)
    IN IF well THEN Accepted([s \in DOMAIN cfg |-> value(s)]) ELSE Rejected

----------------------------------------------------------------------------
(* Normalisation and validation.                                           *)

WithType(token) == [token EXCEPT !.type = IF @ = "" THEN "Opaque" ELSE @]

\* normalize: the mode and the format lose case and blanks, a version may lack
\* its v, an empty format is JSON and an empty honeytoken type is Opaque.
Normalize(cfg) ==
    [cfg EXCEPT !["mode"] = IF @ = "K8S " THEN "k8s" ELSE @,
                !["version"] = IF @ = "1.37" THEN "v1.37" ELSE @,
                !["format"] = CASE @ = "" -> "json" [] @ = "TEXT" -> "text" [] OTHER -> @,
                !["honeytokens"] = [i \in DOMAIN @ |-> WithType(@[i])]]

AllGood(texts) == \A i \in DOMAIN texts : texts[i].good

ValidateKubernetesProfile(cfg) == cfg["version"] \in {"v1.19", "v1.37"} /\ cfg["ip"] = "private"

ValidateTokens(cfg) ==
    /\ Len(cfg["tokenValues"]) <= MaxTokens /\ Len(cfg["tokenNames"]) <= MaxTokens
    /\ \A i \in DOMAIN cfg["tokenValues"] : cfg["tokenValues"][i].len \in 1..MaxTokenBytes
    /\ AllGood(cfg["tokenValues"]) /\ AllGood(cfg["tokenNames"])
    /\ Total(cfg["tokenValues"]) + Total(cfg["tokenNames"]) <= MaxTokenTotal

ValidateNamespaces(cfg) ==
    /\ Len(cfg["namespaces"]) <= MaxNamespaces
    /\ AllGood(cfg["namespaces"]) /\ IsInjective(cfg["namespaces"])

HoneytokenData(cfg) == FlattenSeq([i \in DOMAIN cfg["honeytokens"] |-> cfg["honeytokens"][i].data])

BuiltIn == {"default", "kube-system", "kube-public", "kube-node-lease"}

\* The names are distinct within a namespace, the namespaces exist, and data
\* and legacy tokens together stay within the payload limit.
ValidateHoneytokens(cfg) ==
    LET tokens == cfg["honeytokens"]
        place(t) == IF t.ns = "" THEN "default" ELSE t.ns
        data == HoneytokenData(cfg)
    IN /\ Len(tokens) <= MaxHoneytokens
       /\ \A i \in DOMAIN tokens :
            /\ tokens[i].name # "bad name" /\ tokens[i].type \in {"Opaque", "example.com/type"}
            /\ place(tokens[i]) \in BuiltIn \cup {n.id : n \in Range(cfg["namespaces"])}
            /\ Len(tokens[i].data) \in 1..MaxDataEntries
       /\ IsInjective([i \in DOMAIN tokens |-> <<place(tokens[i]), tokens[i].name>>])
       /\ AllGood(data) /\ \A i \in DOMAIN data : data[i].len <= MaxValueBytes
       /\ Len(data) <= MaxTotalData
       /\ Total(data) + Total(cfg["tokenValues"]) <= MaxSecretPayload

ValidateLogging(cfg) ==
    /\ cfg["format"] \in {"json", "text"}
    /\ Len(cfg["cidrs"]) <= MaxCIDRs /\ AllGood(cfg["cidrs"]) /\ IsInjective(cfg["cidrs"])

\* A file sink needs a path, any other a URL (without credentials in it), and
\* an Elasticsearch sink an index.
ValidateSinks(cfg) ==
    LET sinks == cfg["sinks"]
    IN /\ Len(sinks) <= MaxSinks
       /\ \A i \in DOMAIN sinks :
            /\ sinks[i].token.len <= MaxCredentialBytes /\ sinks[i].password.len <= MaxCredentialBytes
            /\ Len(sinks[i].headers) <= MaxHeaders /\ AllGood(sinks[i].headers)
            /\ sinks[i].type \in {"file", "splunk", "elasticsearch", "elk", "http"}
            /\ sinks[i].target = "well formed"
            /\ sinks[i].type \in {"elasticsearch", "elk"} => sinks[i].index = "valid"

\* Validate: what the selected mode uses, and the logging for every mode.
Validate(cfg) ==
    /\ cfg["mode"] \in Modes
    /\ cfg["mode"] = "ai" => cfg["aiToken"].len <= MaxTokenBytes
    /\ cfg["mode"] = "kubelet" => cfg["node"] = "dns name"
    /\ cfg["mode"] = "k8s" =>
         /\ ValidateKubernetesProfile(cfg) /\ ValidateTokens(cfg)
         /\ ValidateNamespaces(cfg) /\ ValidateHoneytokens(cfg)
    /\ ValidateLogging(cfg) /\ ValidateSinks(cfg)
    /\ cfg["hosts"][cfg["mode"]] = "ip literal" /\ cfg["ports"][cfg["mode"]] = "port"

\* NewConfig: defaults, the file if there is one, the environment, the checks.
\* A file that is missing is no error; one that cannot be read, is too large or
\* is not TOML is.
NewConfig(file, env) ==
    LET decoded == IF file.state = "good" THEN Overlay(file.settings, Defaults) ELSE Defaults
        overlaid == ApplyEnvironment(decoded, env)
        normal == Normalize(overlaid.cfg)
    IN IF file.state \in {"missing", "good"} /\ overlaid.ok /\ Validate(normal)
       THEN Accepted(normal) ELSE Rejected

----------------------------------------------------------------------------
(* The values that are redacted.                                           *)

\* add of both SensitiveValues: an empty value, one too many or too many bytes
\* is not added.
Add(values, t, maxValues) ==
    IF t.len = 0 \/ Len(values) >= maxValues \/ Total(values) + t.len > MaxSensitiveBytes
    THEN values ELSE Append(values, t)

\* The values of the legacy tokens and of the honeytokens' data, and those of
\* the sinks, in the order in which they are collected.
K8SValues(cfg) == cfg["tokenValues"] \o HoneytokenData(cfg)
SinkValues(cfg) ==
    LET sinks == cfg["sinks"]
    IN FlattenSeq([i \in DOMAIN sinks |-> <<sinks[i].token, sinks[i].password>> \o sinks[i].headers])

\* Mutant: the first value that is not added ends the collection.
K8SSensitiveEnds(cfg) ==
    LET all == K8SValues(cfg)
        first == SelectInSeq(all, LAMBDA t : t.len = 0)
    IN IF first = 0 THEN all ELSE SubSeq(all, 1, first - 1)

\* K8SConfig.SensitiveValues goes on when a value is not added.
K8SSensitive(cfg) == FoldLeft(LAMBDA values, t : Add(values, t, MaxSensitive), <<>>, K8SValues(cfg))

\* LoggingConfig.SensitiveValues ends at the first value that is not added.
Collect(s, t) ==
    LET values == Add(s.values, t, MaxSinkSensitive)
    IN IF s.ended THEN s ELSE [values |-> values, ended |-> values = s.values]
LoggingSensitive(cfg) == FoldLeft(Collect, [values |-> <<>>, ended |-> FALSE], SinkValues(cfg)).values

\* mergeSensitive: the sinks' values take what room is left.
MergeSensitive(base, extra) ==
    IF Len(base) >= MaxSensitive THEN base
    ELSE base \o SubSeq(extra, 1, IF Len(base) + Len(extra) > MaxSensitive THEN MaxSensitive - Len(base) ELSE Len(extra))

\* Config.SensitiveValues.
SensitiveValues(cfg) ==
    MergeSensitive((IF cfg["aiToken"].len > 0 THEN <<cfg["aiToken"]>> ELSE <<>>) \o K8SSensitive(cfg),
                   LoggingSensitive(cfg))

\* newSensitiveValueReplacer: of the first values, those whose spellings are
\* replaced; an empty value or too many bytes is passed over.
Within(values) == SubSeq(values, 1, IF Len(values) > MaxSensitive THEN MaxSensitive ELSE Len(values))
Keep(taken, t) ==
    IF t.len = 0 \/ Total(taken) + t.len > MaxSensitiveBytes THEN taken ELSE Append(taken, t)
Redacted(values) == Range(FoldLeft(Keep, <<>>, Within(values)))

----------------------------------------------------------------------------

Secrets(cfg) ==
    LET tokens == cfg["honeytokens"]
    IN {t \in Range(cfg["tokenValues"]) \cup UNION {Range(tokens[i].data) : i \in DOMAIN tokens} : t.len > 0}

\* The values of every token and honeytoken of a configuration the Kubernetes
\* sensor starts with are redacted from its events, unless a token for the AI
\* sensor is configured too and takes their place (NewConfig, SensitiveValues,
\* newSensitiveValueReplacer).
HoneytokensCovered(file, env) ==
    LET result == NewConfig(file, env)
    IN result.ok /\ result.cfg["mode"] = "k8s" /\ result.cfg["aiToken"].len = 0 =>
         Secrets(result.cfg) \subseteq Redacted(SensitiveValues(result.cfg))

\* "Sink tokens, passwords, and header values are added to the event redaction
\* set so credentials cannot appear in shipped records" (readme.md).
CredentialsCovered(file, env) ==
    LET result == NewConfig(file, env)
        sinks == result.cfg["sinks"]
    IN result.ok =>
         \A i \in DOMAIN sinks :
            {t \in {sinks[i].token, sinks[i].password} \cup Range(sinks[i].headers) : t.len > 0}
                \subseteq Redacted(SensitiveValues(result.cfg))
====
