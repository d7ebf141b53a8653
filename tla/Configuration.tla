--------------------------- MODULE Configuration ----------------------------
(***************************************************************************)
(* What the two processes read from their environment                       *)
(* (packages/shared/src/config.ts) and how it meets the schemas the gateway *)
(* holds a node's messages to (packages/shared/src/schemas.ts).             *)
(*                                                                          *)
(* A variable's text is a form and a value: "integer" is a decimal integer, *)
(* "numeral" another spelling of one (8e3), "word" anything else, where     *)
(* only what kind of word it is matters.  MESH_MODELS is a sequence of      *)
(* items, "" for one that is empty once trimmed.                            *)
(***************************************************************************)
EXTENDS Networks, PriceSplit, FiniteSets

CONSTANT MaxModels      \* capabilities a registration may have
ASSUME ConfigurationAssumption == MaxModels \in Nat \ {0}

Unwritten == [form |-> "absent", value |-> 0]
BlankText == [form |-> "blank", value |-> 0]

(* What a field reads is <<its value>>, or Bad where it is refused.         *)
Bad == <<>>
Missing == <<"missing">>

Number(default, min, max) == [kind |-> "int", default |-> <<default>>, min |-> min, max |-> max]
Flag(default) == [kind |-> "bool", default |-> <<default>>]
Text(default, accepted) == [kind |-> "text", default |-> default, accepted |-> accepted]

Urls == {"http", "redis", "other-url"}
Providers == {"ollama", "vllm", "openai"}
Words == Urls \cup Providers \cup {"on", "off", "info", "address", "id", "key", "junk"}

(* GatewayEnvSchema, but for the network and the prices.                    *)
GatewayEnvSchema ==
    [PORT |-> Number(8402, 1, 65535),
     HOST |-> Text(<<"any_host">>, Words),
     X402_PAY_TO_ADDRESS |-> Text(Bad, {"address"}),
     X402_FACILITATOR_URL |-> Text(<<"http">>, Urls),
     MESH_MARGIN_BPS |-> Number(1500, 0, 10000),
     MESH_PAYOUT_BATCH_MAX_DELAY_MS |-> Number(900000, 1000, 86400000),
     MESH_PAYOUT_BATCH_MAX_REQUESTS |-> Number(100, 1, 10000),
     MESH_PUBLIC_BASE_URL |-> Text(Missing, Urls),
     REDIS_URL |-> Text(Missing, {"redis"}),
     MESH_REQUIRE_USDC_OPT_IN |-> Flag(TRUE),
     MESH_ALLOW_PRIVATE_NODE_ENDPOINTS |-> Flag(FALSE),
     MESH_TRUST_PROXY_HOPS |-> Number(0, 0, 10),
     MESH_NODE_REQUEST_TIMEOUT_MS |-> Number(120000, 1000, 600000),
     MESH_MAX_CONCURRENT_PER_NODE |-> Number(8, 1, 1024),
     LOG_LEVEL |-> Text(<<"info">>, {"info"}),
     OTEL_ENABLED |-> Flag(FALSE),
     OTEL_EXPORTER_OTLP_ENDPOINT |-> Text(Missing, Urls),
     MESH_NODE_STALE_AFTER_MS |-> Number(90000, 5000, 3600000),
     X402_CHALLENGE_TAG |-> Text(<<"the_tag">>, Words)]

DaemonEnvSchema ==
    [MESH_GATEWAY_URL |-> Text(Bad, Urls),
     MESH_NODE_ID |-> Text(Bad, {"id"}),
     MESH_NODE_ENDPOINT |-> Text(Bad, Urls),
     MESH_NODE_PORT |-> [kind |-> "port", default |-> Missing, min |-> 1, max |-> 65535],
     MESH_PROVIDER |-> Text(<<"ollama">>, Providers),
     MESH_PROVIDER_BASE_URL |-> Text(Missing, Urls),
     MESH_MODELS |-> [kind |-> "models", default |-> Bad],
     MESH_HEARTBEAT_INTERVAL_MS |-> Number(15000, 1000, 600000),
     MESH_MAX_CONCURRENCY |-> Number(8, 1, 1024),
     AVM_PRIVATE_KEY |-> Text(Bad, {"key"})]

-----------------------------------------------------------------------------
(* Mutant of isUnset: only a variable that is not set takes its default.    *)
UnsetOnly(raw) == raw.form = "absent"

(* envValue: missing and blank are the same.                                *)
isUnset(raw) == raw.form \in {"absent", "blank"}

Within(field, n) == IF n \in field.min .. field.max THEN <<n>> ELSE Bad

(* Only a decimal integer; anything else is refused rather than truncated.  *)
intField(field, raw) == IF raw.form = "integer" THEN Within(field, raw.value) ELSE Bad

(* MESH_NODE_PORT is read with Number: any spelling of an integer will do.  *)
portField(field, raw) ==
    IF raw.form \in {"integer", "numeral"} THEN Within(field, raw.value) ELSE Bad

boolField(raw) ==
    IF raw.form = "word" /\ raw.value \in {"on", "off"} THEN <<raw.value = "on">> ELSE Bad

textField(field, raw) ==
    IF raw.form = "word" /\ raw.value \in field.accepted THEN <<raw.value>> ELSE Bad

(* Empty items are dropped, the others keep their place; they must be one   *)
(* to MaxModels.                                                            *)
modelsField(raw) ==
    LET named == IF raw.form = "list" THEN {i \in DOMAIN raw.value : raw.value[i] # ""} ELSE {}
    IN IF Cardinality(named) \in 1 .. MaxModels THEN <<Restrict(raw.value, named)>> ELSE Bad

Read(field, raw) ==
    IF isUnset(raw) THEN field.default
    ELSE CASE field.kind = "int" -> intField(field, raw)
           [] field.kind = "port" -> portField(field, raw)
           [] field.kind = "bool" -> boolField(raw)
           [] field.kind = "text" -> textField(field, raw)
           [] field.kind = "models" -> modelsField(raw)

(* parseEnv: the variables it names when it throws, the values otherwise.   *)
Offending(schema, env) == {v \in DOMAIN schema : Read(schema[v], env[v]) = Bad}
parseEnv(schema, env) == [v \in DOMAIN schema |-> Read(schema[v], env[v])[1]]

-----------------------------------------------------------------------------
(* NodeRegistrationSchema and NodeHeartbeatSchema, of the fields that come  *)
(* from the daemon's configuration.                                         *)
RegistrationOk(config) ==
    /\ config.MESH_NODE_ID = "id"
    /\ config.MESH_NODE_ENDPOINT = "http"
    /\ Cardinality(DOMAIN config.MESH_MODELS) \in 1 .. MaxModels
    /\ \A i \in DOMAIN config.MESH_MODELS : config.MESH_MODELS[i] = "model"

HeartbeatOk(config) ==
    config.MESH_NODE_ID = "id" /\ config.MESH_MAX_CONCURRENCY \in 1 .. 4096

-----------------------------------------------------------------------------
(* An environment that says only what it has to.                            *)
Typical(schema) ==
    [v \in DOMAIN schema |->
       IF schema[v].default # Bad THEN Unwritten
       ELSE IF schema[v].kind = "models" THEN [form |-> "list", value |-> <<"model">>]
       ELSE [form |-> "word", value |-> CHOOSE w \in schema[v].accepted : TRUE]]

(* A process that starts runs on what its operator wrote: every number that *)
(* was typed is the one in force, every variable left out or left blank has *)
(* its default, and a mistake in one variable is reported under its name    *)
(* whatever else is wrong.  The gateway's numbers are ones its parts are    *)
(* built for: a margin that splits any price, batches and concurrency of at *)
(* least one.  A daemon's heartbeats always pass the gateway's schema, and  *)
(* so does its registration if its endpoint is http and its model ids are   *)
(* plain, which the daemon's own check leaves open.                         *)
WrittenIsRead(schema, env) ==
    LET typed == {v \in DOMAIN schema : env[v].form \notin {"absent", "blank"}}
    IN /\ Offending(schema, env)
            = {v \in DOMAIN schema : Offending(schema, [Typical(schema) EXCEPT ![v] = env[v]]) # {}}
       /\ Offending(schema, env) = {} =>
            \A v \in DOMAIN schema :
               /\ v \notin typed => <<parseEnv(schema, env)[v]>> = schema[v].default
               /\ v \in typed /\ schema[v].kind \in {"int", "port"} =>
                    parseEnv(schema, env)[v] = env[v].value
       /\ Offending(schema, env) \subseteq typed \cup {v \in DOMAIN schema : schema[v].default = Bad}

GatewayFits(env) ==
    LET config == parseEnv(GatewayEnvSchema, env) IN
    Offending(GatewayEnvSchema, env) = {} =>
      /\ IsMarginBps(config.MESH_MARGIN_BPS)
      /\ config.MESH_PAYOUT_BATCH_MAX_REQUESTS >= 1
      /\ config.MESH_MAX_CONCURRENT_PER_NODE >= 1

DaemonFits(env) ==
    LET config == parseEnv(DaemonEnvSchema, env) IN
    Offending(DaemonEnvSchema, env) = {} =>
      /\ HeartbeatOk(config)
      /\ config.MESH_NODE_ENDPOINT = "http"
           /\ (\A i \in DOMAIN config.MESH_MODELS : config.MESH_MODELS[i] # "odd")
           => RegistrationOk(config)

=============================================================================
