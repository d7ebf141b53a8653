------------------------------ MODULE Networks ------------------------------
(***************************************************************************)
(* The names of a chain (packages/shared/src/networks.ts), the chain a      *)
(* process settles on (config.ts: resolveNetwork), what an operator's       *)
(* signature covers (signing.ts) and the gateway's checks on a registration *)
(* that do not depend on its state (packages/gateway/src/routes/nodes.ts).  *)
(*                                                                          *)
(* A network text is a chain and the form its genesis hash is written in.   *)
(* Of a registration's fields, rest stands for those that are only copied:  *)
(* endpoint, version, timestamp and nonce.                                  *)
(***************************************************************************)
EXTENDS Naturals, Sequences, SequencesExt

Chains == {"mainnet", "testnet"}
Unset == "unset"
Unsupported == [chain |-> "unsupported", form |-> "canonical"]

NetworkTexts == [chain : Chains, form : {"canonical", "full"}] \cup {Unsupported}

-----------------------------------------------------------------------------
(* normalizeNetwork, and Unsupported where the code throws.                 *)
normalizeNetwork(raw) ==
    IF raw.chain \in Chains THEN [raw EXCEPT !.form = "canonical"] ELSE Unsupported

toCaip2(selector) == [chain |-> selector, form |-> "canonical"]
toMeshNetwork(network) == normalizeNetwork(network).chain

(* The facilitator compares texts and knows the full form only.             *)
facilitatorNetwork(network) ==
    IF network.chain \in Chains /\ network.form = "canonical"
    THEN [network EXCEPT !.form = "full"] ELSE Unsupported

(* One USDC asset per chain.                                                *)
usdcAssetId(network) == <<"USDC", normalizeNetwork(network).chain>>

(* resolveNetwork: MESH_NETWORK and X402_NETWORK, either of them unset; it  *)
(* throws where they disagree.                                              *)
selector(env) == IF env.MESH_NETWORK = Unset THEN "testnet" ELSE env.MESH_NETWORK

NetworkOk(env) ==
    \/ env.X402_NETWORK = <<>>
    \/ /\ normalizeNetwork(env.X402_NETWORK[1]) # Unsupported
       /\ env.MESH_NETWORK # Unset => toMeshNetwork(env.X402_NETWORK[1]) = selector(env)

resolveNetwork(env) ==
    IF env.X402_NETWORK = <<>> THEN toCaip2(selector(env))
    ELSE normalizeNetwork(env.X402_NETWORK[1])

-----------------------------------------------------------------------------
(* An object is its keys with their values, <<>> for undefined.             *)
Field(key, value) == [key |-> key, value |-> <<value>>]
Optional(key, value) == [key |-> key, value |-> value]

KeyOrder == <<"capabilities", "model", "network", "nodeId", "operatorAddress",
              "pricePer1kTokensUsdc", "quantization", "rest">>
rank(key) == CHOOSE i \in DOMAIN KeyOrder : KeyOrder[i] = key

(* canonicalJson of an object: undefined keys are left out, the others come *)
(* in ascending order; a list keeps its order.                              *)
canonicalJson(object) ==
    SortSeq(SelectSeq(object, LAMBDA e : e.value # <<>>),
            LAMBDA e, f : rank(e.key) < rank(f.key))

(* Mutant of projectCapability: the price is not covered.                   *)
ProjectUnpriced(c) ==
    <<Field("model", c.model), Optional("quantization", c.quantization)>>

projectCapability(c) ==
    <<Field("model", c.model), Field("pricePer1kTokensUsdc", c.pricePer1kTokensUsdc),
      Optional("quantization", c.quantization)>>

(* The fields a registration's signature covers.                            *)
projection(r) ==
    <<Field("nodeId", r.nodeId), Field("operatorAddress", r.operatorAddress),
      Field("rest", r.rest),
      Field("capabilities", [i \in DOMAIN r.capabilities |->
                               canonicalJson(projectCapability(r.capabilities[i]))]),
      Field("network", normalizeNetwork(r.network))>>

canonicalRegistrationBytes(r) == <<"node-registration", canonicalJson(projection(r))>>

(* A heartbeat's fields are all plain values.                               *)
canonicalHeartbeatBytes(h) == <<"node-heartbeat", canonicalJson(h)>>

(* An operator's key is its address.  A signature is the key and the bytes. *)
sign(key, bytes) == [key |-> key, bytes |-> bytes]

signRegistration(r, key) ==
    [registration |-> r, signature |-> sign(key, canonicalRegistrationBytes(r)),
     publicKey |-> key]

(* The same by another implementation of the scheme, which adds the fields  *)
(* in another order.                                                        *)
signElsewhere(r, key) ==
    [registration |-> r, publicKey |-> key,
     signature |-> sign(key, <<"node-registration", canonicalJson(Reverse(projection(r)))>>)]

-----------------------------------------------------------------------------
(* SignedNodeRegistrationSchema accepts either form and keeps the canonical.*)
parse(signed) == [signed EXCEPT !.registration.network = normalizeNetwork(@)]

verifyRegistrationSignature(signed) ==
    /\ signed.publicKey = signed.registration.operatorAddress
    /\ signed.signature = sign(signed.registration.operatorAddress,
                               canonicalRegistrationBytes(signed.registration))

(* handleRegister up to the endpoint check, on a fresh and unused nonce.    *)
Accepts(network, signed) ==
    LET parsed == parse(signed) IN
    /\ parsed.registration.network # Unsupported
    /\ verifyRegistrationSignature(parsed)
    /\ parsed.registration.network = network

verifyHeartbeatSignature(beat, operatorAddress) ==
    /\ beat.publicKey = operatorAddress
    /\ beat.signature = sign(operatorAddress, canonicalHeartbeatBytes(beat.heartbeat))

-----------------------------------------------------------------------------
(* What may happen to a signed registration on its way.                     *)
Changes == {"none", "respelled", "network", "operator", "impostor", "price",
            "quantization", "endpoint", "reordered"}

Altered(signed, change) ==
    LET caps == signed.registration.capabilities IN
    CASE change = "none" -> signed
      [] change = "respelled" -> [signed EXCEPT !.registration.network.form = "full"]
      [] change = "network" ->
           [signed EXCEPT !.registration.network.chain =
                IF @ = "mainnet" THEN "testnet" ELSE "mainnet"]
      [] change = "operator" -> [signed EXCEPT !.registration.operatorAddress = "other"]
      [] change = "impostor" -> [signed EXCEPT !.registration.operatorAddress = "other",
                                               !.publicKey = "other"]
      [] change = "price" ->
           [signed EXCEPT !.registration.capabilities[1].pricePer1kTokensUsdc = "dear"]
      [] change = "quantization" ->
           [signed EXCEPT !.registration.capabilities[1].quantization =
                IF @ = <<>> THEN <<"q4">> ELSE <<>>]
      [] change = "endpoint" -> [signed EXCEPT !.registration.rest = "elsewhere"]
      [] change = "reordered" ->
           [signed EXCEPT !.registration.capabilities =
                [i \in DOMAIN caps |-> caps[Len(caps) + 1 - i]]]

(* However each side's network is configured, a gateway accepts a node's    *)
(* registration exactly when both settle on the same chain and nothing of   *)
(* it but the spelling of the network was changed on the way; what it then  *)
(* stores compares equal with its own network, the client is asked to pay   *)
(* on that chain, in its asset and the facilitator's spelling; and a        *)
(* registration's signature never passes for a heartbeat's.                 *)
NetworksSound(node, gateway, change, quantization, daemon) ==
    LET cap(model) == [model |-> model, pricePer1kTokensUsdc |-> "cheap",
                       quantization |-> quantization]
        mine == resolveNetwork(node)
        theirs == resolveNetwork(gateway)
        r == [nodeId |-> "n", operatorAddress |-> "op", rest |-> "here", network |-> mine,
              capabilities |-> <<cap("a"), cap("b")>>]
        received == Altered(IF daemon THEN signRegistration(r, "op")
                            ELSE signElsewhere(r, "op"), change)
        written(env) == IF env.X402_NETWORK # <<>> THEN env.X402_NETWORK[1].chain
                        ELSE IF env.MESH_NETWORK = Unset THEN "testnet" ELSE env.MESH_NETWORK
    IN (NetworkOk(node) /\ NetworkOk(gateway)) =>
         /\ Accepts(theirs, received)
              <=> change \in {"none", "respelled"} /\ written(node) = written(gateway)
         /\ Accepts(theirs, received) => parse(received).registration.network = theirs
         /\ facilitatorNetwork(theirs) = [chain |-> written(gateway), form |-> "full"]
         /\ usdcAssetId(theirs) = usdcAssetId(facilitatorNetwork(theirs))
         /\ usdcAssetId(theirs) = usdcAssetId(mine) <=> written(node) = written(gateway)
         /\ ~verifyHeartbeatSignature([heartbeat |-> projection(r), publicKey |-> "op",
                                        signature |-> received.signature], "op")

(* The process refuses to start on an unknown network or on two that        *)
(* disagree, and on nothing else.                                           *)
RefusedSound(env) ==
    NetworkOk(env) <=>
      \A t \in {env.X402_NETWORK[i] : i \in DOMAIN env.X402_NETWORK} :
         t.chain \in Chains /\ env.MESH_NETWORK \in {Unset, t.chain}

=============================================================================
