------------------------------ MODULE MCRules -------------------------------
(***************************************************************************)
(* The rules that keep no state, over bounded inputs, but for the replies   *)
(* (MCReplies).  A behaviour either reads one body through the SSE parser   *)
(* or asks one of the other rules one question.                             *)
(***************************************************************************)
EXTENDS Sse, Selector, Networks, Completion, Configuration, Diagnosis

VARIABLE asked      \* the question, if one was asked

Nothing == [about |-> "nothing"]

RulesInit == Init /\ asked = Nothing

-----------------------------------------------------------------------------
Ids == [name : {"a", "b"}, form : {"plain", "spelled"}]
Blank == [name |-> "", form |-> "plain"]

(* A fraction of every length up to one digit too many.                     *)
Texts == [form : {"plain", "dollar", "spaced"}, whole : {0, 1},
          frac : {<<>>, <<0>>, <<5>>, <<5, 0>>}] \cup {Malformed}

Entries == [model : (Ids \ {[name |-> "b", form |-> "spelled"]}) \cup {Blank}, price : Texts]

(* The keys of a JSON object are distinct.                                  *)
Tables == {<<>>} \cup {<<e>> : e \in Entries}
            \cup {p \in Entries \X Entries : p[1].model # p[2].model}

FlatPrices == {[form |-> "plain", whole |-> 0, frac |-> <<>>],
               [form |-> "dollar", whole |-> 0, frac |-> <<5>>],
               [form |-> "plain", whole |-> 1, frac |-> <<0>>]}

Capabilities == [model : Ids, price : {[form |-> "plain", whole |-> 1, frac |-> <<>>], Malformed}]

AskedNodes ==
    [excluded : BOOLEAN, sameNetwork : BOOLEAN, fresh : BOOLEAN, healthy : BOOLEAN,
     usdcOptedIn : BOOLEAN, inFlight : 0 .. 2, maxConcurrency : {1},
     capabilities : {<<c>> : c \in Capabilities} \cup {<<c, d>> : c, d \in Capabilities}]

Figures == [latencyMsP95 : 0 .. 2, price : 0 .. 2, qualityScore : {0, RatioScale \div 2, RatioScale}]
Few == [latencyMsP95 : {0, 2}, price : {0, 1}, qualityScore : {0, RatioScale}]
Candidate(id, f) == [id |-> id, latencyMsP95 |-> f.latencyMsP95, price |-> f.price,
                     qualityScore |-> f.qualityScore]
Lists == {<<Candidate(2, f), Candidate(1, g)>> : f, g \in Figures}
           \cup {<<Candidate(2, f), Candidate(3, g), Candidate(1, h)>> : f, g, h \in Few}

Windows == UNION {[1 .. n -> BOOLEAN \X (0 .. 2)] : n \in 1 .. HealthWindow}

Envs == [MESH_NETWORK : Chains \cup {Unset},
         X402_NETWORK : {<<>>} \cup {<<t>> : t \in NetworkTexts}]

RawChoices == [index : {NoCount, 0, 1}, role : {Absent, "user", "assistant", "tool"},
            content : {Absent, "", "text"}, finish_reason : {Absent, "stop"}]
Counts == [prompt : NoCount .. 2, completion : NoCount .. 2, total : NoCount .. 3]
NoCounts == [prompt |-> NoCount, completion |-> NoCount, total |-> NoCount]

(* A variable of each kind at and past its limits, spelled in odd ways, left*)
(* out, or with another variable's text.                                    *)
ModelLists == UNION {[1 .. n -> {"", "model", "odd"}] : n \in 1 .. MaxModels + 1}
Odd(field) ==
    {Unwritten, BlankText} \cup
    CASE field.kind \in {"int", "port"} ->
           {[form |-> "integer", value |-> n] :
              n \in {field.min - 1, field.min, field.max, field.max + 1}}
             \cup {[form |-> "numeral", value |-> field.min], [form |-> "word", value |-> "junk"]}
      [] field.kind \in {"bool", "text"} -> {[form |-> "word", value |-> w] : w \in Words}
      [] field.kind = "models" -> {[form |-> "list", value |-> l] : l \in ModelLists}

(* A world in which all is well.                                            *)
Fund == <<[amount |-> 4, others |-> 0, optedIn |-> TRUE, frozen |-> FALSE, usdc |-> 1]>>
Kind == [exact |-> TRUE, network |-> [chain |-> "mainnet", form |-> "full"], feePayer |-> "valid"]
Healthy == [config |-> TRUE, network |-> toCaip2("mainnet"), price |-> 1, loopback |-> FALSE,
            tag |-> TRUE, facilitator |-> "up", kinds |-> <<Kind>>, redis |-> "up",
            key |-> "valid", samePayTo |-> FALSE, payTo |-> Fund, operator |-> Fund,
            algod |-> "up", skipChain |-> FALSE]
Statuses == {"up", "down", "failing"}
Kinds == [exact : BOOLEAN, network : NetworkTexts, feePayer : {"none", "invalid", "valid"}]
KindLists == UNION {[1 .. n -> Kinds] : n \in 0 .. 2}

-----------------------------------------------------------------------------
Ask(question) == asked' = question

AskPrices ==
    \E table \in Tables, flat \in FlatPrices, bps \in {0, 1500, 10000} :
        Ask([about |-> "prices",
             env |-> [modelPrices |-> table, inboundPrice |-> flat, marginBps |-> bps]])

AskNode == \E n \in AskedNodes, m \in Ids : Ask([about |-> "node", node |-> n, model |-> m])

AskDraw == \E list \in Lists : Ask([about |-> "draw", list |-> list])

AskWindow == \E w \in Windows : Ask([about |-> "window", window |-> w])

AskNetworks ==
    \E node, gateway \in Envs, change \in Changes, q \in {<<>>, <<"q8">>}, daemon \in BOOLEAN :
        Ask([about |-> "networks", node |-> node, gateway |-> gateway, change |-> change,
             quantization |-> q, daemon |-> daemon])

AskCompletion ==
    \E object, error \in BOOLEAN :
        \/ \E c, d \in RawChoices :
             Ask([about |-> "completion",
                  body |-> [object |-> object, error |-> error, choices |-> <<c, d>>,
                            usage |-> NoCounts]])
        \/ \E u \in Counts :
             Ask([about |-> "completion",
                  body |-> [object |-> object, error |-> error, choices |-> <<>>, usage |-> u]])

AskConfig ==
    \E schema \in {GatewayEnvSchema, DaemonEnvSchema} : \E v, u \in DOMAIN schema :
        \E a \in Odd(schema[v]), b \in Odd(schema[u]) :
            Ask([about |-> IF "PORT" \in DOMAIN schema THEN "gateway" ELSE "daemon",
                 env |-> [Typical(schema) EXCEPT ![v] = a, ![u] = b]])

AskDoctor ==
    \E config, offline \in BOOLEAN, key \in {"unusable", "valid"}, provider \in {"up", "down"},
       available \in {{"a"}, {"a", "b"}}, gateway, algod \in Statuses, account \in Accounts(4) :
        Ask([about |-> "doctor",
             world |-> [config |-> config, offline |-> offline, key |-> key,
                        provider |-> provider, models |-> {"a", "b"}, available |-> available,
                        gateway |-> gateway, algod |-> algod, account |-> account]])

AskPreflight(world) == Ask([about |-> "preflight", world |-> world])

AskAccounts ==
    \E payTo, operator \in Accounts(3), algod \in Statuses, same, skip \in BOOLEAN,
       key \in {"unset", "malformed", "unusable", "valid"} :
        /\ same => operator = payTo
        /\ AskPreflight([Healthy EXCEPT !.payTo = payTo, !.operator = operator, !.algod = algod,
                                       !.samePayTo = same, !.skipChain = skip, !.key = key])

AskFacilitator ==
    \E chain \in Chains, status \in Statuses, loopback \in BOOLEAN, kinds \in KindLists :
        AskPreflight([Healthy EXCEPT !.network = toCaip2(chain), !.facilitator = status,
                                     !.loopback = loopback, !.kinds = kinds])

AskDeployment ==
    \E config, tag \in BOOLEAN, price \in {0, 1}, redis \in {"unset", "up", "down"},
       algod \in Statuses :
        AskPreflight([Healthy EXCEPT !.config = config, !.tag = tag, !.price = price,
                                     !.redis = redis, !.algod = algod])

Unasked == text = <<>> /\ read = 0 /\ end = "open" /\ asked = Nothing

Question ==
    /\ Unasked
    /\ AskPrices \/ AskNode \/ AskDraw \/ AskWindow \/ AskNetworks \/ AskCompletion
       \/ AskConfig \/ AskDoctor \/ AskAccounts \/ AskFacilitator \/ AskDeployment
    /\ UNCHANGED vars

RulesNext ==
    \/ Question
    \/ asked = Nothing /\ Next /\ UNCHANGED asked

RulesSpec == RulesInit /\ [][RulesNext]_<<vars, asked>>

-----------------------------------------------------------------------------
(* Clients are asked for what the operator wrote, or for nothing that can   *)
(* be read: see Pricing!QuotedAsAdvertised.                                 *)
PricesQuoted ==
    asked.about = "prices" => QuotedAsAdvertised(asked.env, Ids \cup {NoModel})

(* Nodes are chosen as promised: see EligibilitySound, DrawSound,           *)
(* PercentileSound and QualitySheds of Selector.                            *)
SelectionSound ==
    /\ asked.about = "node" => EligibilitySound(asked.node, asked.model)
    /\ asked.about = "draw" => DrawSound(asked.list)
    /\ asked.about = "window" =>
         LET oks == [i \in DOMAIN asked.window |-> asked.window[i][1]]
             samples == [i \in DOMAIN asked.window |-> asked.window[i][2]]
         IN /\ \A p \in {0, 50, 95, 100} : PercentileSound(samples, p)
            /\ QualitySheds(oks, 120)

(* A node and a gateway agree on the chain and on what was signed: see      *)
(* NetworksSound and RefusedSound of Networks.                              *)
NetworksAgree ==
    asked.about = "networks" =>
        /\ NetworksSound(asked.node, asked.gateway, asked.change, asked.quantization, asked.daemon)
        /\ RefusedSound(asked.node)

(* A backend's answer takes the contract's form: see Completion!NormalForm. *)
AnswerNormal == asked.about = "completion" => NormalForm(asked.body)

(* A process runs on what its operator wrote: see WrittenIsRead,            *)
(* GatewayFits and DaemonFits of Configuration.                             *)
ConfigFits ==
    /\ asked.about = "gateway" =>
         WrittenIsRead(GatewayEnvSchema, asked.env) /\ GatewayFits(asked.env)
    /\ asked.about = "daemon" =>
         WrittenIsRead(DaemonEnvSchema, asked.env) /\ DaemonFits(asked.env)

(* What the diagnostics pass is so, but for a frozen holding and a chain    *)
(* listed under its short name alone: see DoctorSound and PreflightSound of *)
(* Diagnosis.                                                               *)
DiagnosisSound ==
    /\ asked.about = "doctor" => DoctorSound(asked.world)
    /\ asked.about = "preflight" => PreflightSound(asked.world)

=============================================================================
