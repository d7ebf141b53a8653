----------------------------- MODULE Diagnosis ------------------------------
(***************************************************************************)
(* What the mesh says of itself before and while it runs: a node's doctor   *)
(* (packages/node-daemon/src/doctor.ts, algod.ts), a gateway's preflight    *)
(* (scripts/preflight.ts) and its GET /readyz (gateway/src/routes/health.ts,*)
(* server.ts).  A world is what they look at.                               *)
(*                                                                          *)
(* An account is <<>> if the chain does not know it.  Its amount and its    *)
(* minimum balance are counted in tenths of an ALGO.  A service that is     *)
(* "failing" answers, but with an error; a "failing" algod answers its      *)
(* status only.  A report is the sequence of its lines.                     *)
(***************************************************************************)
EXTENDS Networks

Result(name, status) == <<[name |-> name, status |-> status]>>
Verdict(name, good) == Result(name, IF good THEN "pass" ELSE "fail")

failed(report) == \E i \in DOMAIN report : report[i].status = "fail"
Named(report) == {report[i].name : i \in DOMAIN report}

-----------------------------------------------------------------------------
(* An account on the chain: it never holds less than its minimum balance.   *)
minBalance(account) == 1 + account.others + (IF account.optedIn THEN 1 ELSE 0)

Accounts(most) ==
    {<<>>} \cup
    {<<a>> : a \in {b \in [amount : 1 .. most, others : {0, 1}, optedIn : BOOLEAN,
                           frozen : BOOLEAN, usdc : {0, 1}] :
                      /\ b.amount >= minBalance(b)
                      /\ ~b.optedIn => ~b.frozen /\ b.usdc = 0}}

OptedIn(account) == account # <<>> /\ account[1].optedIn

-----------------------------------------------------------------------------
(* The daemon's AlgodReader throws where algod fails.  The doctor wants     *)
(* room for one opt-in more, made or not.                                   *)
fundingCheck(w) ==
    Verdict("account_funded",
            /\ w.algod = "up" /\ w.account # <<>>
            /\ w.account[1].amount >= minBalance(w.account[1]) + 1)

optInCheck(w) == Verdict("USDC_opt_in", w.algod = "up" /\ OptedIn(w.account))

(* A model that is advertised must be one the backend lists.                *)
modelsCheck(w) ==
    IF w.provider = "down" THEN Result("models_present", "skip")
    ELSE Verdict("models_present", w.models \subseteq w.available)

(* Any answer shows that the gateway is there.                              *)
gatewayCheck(w) ==
    Result("gateway_reachable",
         CASE w.gateway = "up" -> "pass" [] w.gateway = "failing" -> "warn"
           [] w.gateway = "down" -> "fail")

skipped(names) == [i \in DOMAIN names |-> [name |-> names[i], status |-> "skip"]]

runDoctor(w) ==
    IF ~w.config THEN Result("configuration", "fail")
    ELSE Result("configuration", "pass") \o Verdict("operator_key", w.key = "valid") \o
         IF w.offline
         THEN skipped(<<"provider_reachable", "models_present", "gateway_reachable",
                        "account_funded", "USDC_opt_in">>)
         ELSE Verdict("provider_reachable", w.provider = "up")
              \o modelsCheck(w) \o gatewayCheck(w)
              \o IF w.key = "valid" THEN fundingCheck(w) \o optInCheck(w)
                 ELSE skipped(<<"account_funded", "USDC_opt_in">>)

-----------------------------------------------------------------------------
(* The same questions as the gateway asks them: no answer is no opt-in, and *)
(* a balance that cannot be read is a failed check.                         *)
isOptedIn(w, account) == w.algod = "up" /\ OptedIn(account)

MIN_WALLET == 2

probeWallet(w) ==
    w.algod = "up" /\ w.operator # <<>> /\ w.operator[1].amount >= MIN_WALLET

(* The payment library, once the gateway listens: a kind the facilitator    *)
(* lists must have the route's network as it is written there; if none has, *)
(* the process ends.                                                        *)
initialize(w) ==
    /\ w.facilitator = "up"
    /\ \E i \in DOMAIN w.kinds :
          w.kinds[i].exact /\ w.kinds[i].network = facilitatorNetwork(w.network)

(* It starts without a wallet but not with one it cannot use.               *)
boots(w) == w.config /\ w.key \in {"unset", "valid"} /\ initialize(w)

(* GET /readyz; listing the nodes always succeeds, as the store degrades to *)
(* memory.                                                                  *)
handleReady(w) ==
    /\ w.facilitator = "up"
    /\ w.key = "valid" => probeWallet(w)

-----------------------------------------------------------------------------
(* Preflight.  A price of zero, a testnet loopback URL and another tag are  *)
(* only warned of.                                                          *)
Warning(name, good) == Result(name, IF good THEN "pass" ELSE "warn")

checkPricing(w) == Warning("pricing", w.price > 0)
checkPublicUrl(w) ==
    IF w.loopback /\ w.network.chain = "mainnet" THEN Result("public_base_url", "fail")
    ELSE Warning("public_base_url", ~w.loopback)
checkChallengeTag(w) == Warning("discovery_tag", w.tag)

(* Mutant of settling: the network is compared as it is written.            *)
SettlingVerbatim(w) ==
    {i \in DOMAIN w.kinds : w.kinds[i].exact /\ w.kinds[i].network = w.network}

(* The kinds of the facilitator that settle this chain.                     *)
settling(w) ==
    {i \in DOMAIN w.kinds : /\ w.kinds[i].exact
                            /\ normalizeNetwork(w.kinds[i].network) # Unsupported
                            /\ normalizeNetwork(w.kinds[i].network) = w.network}

(* The first fee payer that is named at all.                                *)
sponsorship(w) ==
    LET payers == {i \in settling(w) : w.kinds[i].feePayer # "none"}
    IN IF payers = {} THEN Result("gasless_sponsorship", "warn")
       ELSE Verdict("gasless_sponsorship", w.kinds[Min(payers)].feePayer = "valid")

checkFacilitator(w) ==
    IF w.facilitator # "up" THEN Result("facilitator_reachable", "fail")
    ELSE Result("facilitator_reachable", "pass") \o
         IF w.kinds = <<>> THEN Result("facilitator_kinds", "fail")
         ELSE Verdict("facilitator_supports_network", settling(w) # {}) \o
              IF settling(w) = {} THEN <<>> ELSE sponsorship(w)

checkRedis(w) ==
    Result("redis", CASE w.redis = "unset" -> "skip" [] w.redis = "up" -> "pass"
                    [] w.redis = "down" -> "fail")

deriveOperatorAddress(w) ==
    IF w.key = "unset" THEN Result("operator_key", "skip")
    ELSE Verdict("operator_key", w.key = "valid")

(* The lines about each account.                                            *)
PayTo == [chain |-> "payTo_account_on_chain", funded |-> "payTo_account_funded",
          optIn |-> "payTo_account_usdc_opt_in"]
Operator == [chain |-> "operator_account_on_chain", funded |-> "operator_account_funded",
             optIn |-> "operator_account_usdc_opt_in"]

(* An account that pays with nothing to pay with is only warned of.         *)
checkAccount(w, label, account, pays) ==
    IF w.algod = "failing" THEN Result(label.chain, "fail")
    ELSE IF account = <<>> THEN Result(label.funded, "fail") \o Result(label.optIn, "fail")
    ELSE Verdict(label.funded, account[1].amount >= MIN_WALLET)
         \o IF ~account[1].optedIn \/ account[1].frozen THEN Result(label.optIn, "fail")
            ELSE Warning(label.optIn, ~(pays /\ account[1].usdc = 0))

onChain(w) ==
    IF w.skipChain THEN Result("on_chain_checks", "skip")
    ELSE IF w.algod = "down" THEN Result("algod_reachable", "fail")
    ELSE Result("algod_reachable", "pass")
         \o checkAccount(w, PayTo, w.payTo, TRUE)
         \o IF w.key = "valid" /\ ~w.samePayTo
            THEN checkAccount(w, Operator, w.operator, FALSE) ELSE <<>>

preflight(w) ==
    IF ~w.config THEN Result("configuration", "fail")
    ELSE Result("configuration", "pass") \o checkPricing(w) \o checkPublicUrl(w)
         \o checkChallengeTag(w) \o Result("usdc_asset", "pass") \o checkFacilitator(w)
         \o checkRedis(w) \o deriveOperatorAddress(w) \o onChain(w)

-----------------------------------------------------------------------------
(* An account the chain lets take USDC; one that cannot as it was frozen.   *)
TakesUsdc(account) == OptedIn(account) /\ ~account[1].frozen
Frozen(account) == OptedIn(account) /\ account[1].frozen

(* A doctor that finds nothing wrong is right that the node can serve: its  *)
(* key is good, the models it advertises are there, its account has the     *)
(* ALGO preflight asks for, the gateway's own opt-in check would pass, and  *)
(* it can be paid unless its holding was frozen, which the doctor does not  *)
(* look at.  One problem never hides another: whatever else is wrong, each  *)
(* check has one line, and it is skipped only behind a failure that is      *)
(* shown, or when the operator asked for that.                              *)
DoctorSound(w) ==
    LET report == runDoctor(w) IN
    /\ \A i, j \in DOMAIN report : report[i].name = report[j].name => i = j
    /\ w.config => Len(report) = 7
    /\ \A i \in DOMAIN report : report[i].status = "skip" =>
         w.offline \/ \E j \in 1 .. i - 1 : report[j].status = "fail"
    /\ ~failed(report) /\ ~w.offline =>
         /\ w.key = "valid" /\ isOptedIn(w, w.account)
         /\ w.models \subseteq w.available
         /\ w.account[1].amount >= MIN_WALLET
         /\ TakesUsdc(w.account) \/ Frozen(w.account)
    /\ w.config /\ w.key = "valid" /\ ~w.offline /\ w.algod = "up" =>
         ([name |-> "USDC_opt_in", status |-> "pass"] \in {report[i] : i \in DOMAIN report}
            <=> isOptedIn(w, w.account))

(* The kinds of a facilitator that settle the chain of a deployment, under  *)
(* either of its names, and whether one of them has the full name.          *)
Settlers(w) ==
    {i \in DOMAIN w.kinds : w.kinds[i].exact /\ w.kinds[i].network.chain = w.network.chain}
ListedInFull(w) == \E i \in Settlers(w) : w.kinds[i].network.form = "full"

(* Preflight passes exactly the deployments whose configuration and key are *)
(* good, whose facilitator settles the chain under whichever name, and      *)
(* whose accounts exist and can take USDC.  The gateway of one it passes    *)
(* boots if that facilitator lists the chain under its full name and only   *)
(* then, as the payment library knows no other, while preflight takes       *)
(* either; and it calls itself ready.                                       *)
PreflightSound(w) ==
    LET report == preflight(w)
        receives(account) == TakesUsdc(account) /\ account[1].amount >= MIN_WALLET
        payers == {i \in Settlers(w) : w.kinds[i].feePayer # "none"}
    IN /\ ~failed(report) <=>
            /\ w.config /\ w.key \in {"unset", "valid"}
            /\ w.facilitator = "up" /\ Settlers(w) # {}
            /\ \A i \in payers : (\A j \in payers : i <= j) => w.kinds[i].feePayer = "valid"
            /\ w.redis # "down"
            /\ ~(w.loopback /\ w.network.chain = "mainnet")
            /\ w.skipChain \/ /\ w.algod = "up"
                              /\ receives(w.payTo)
                              /\ w.key = "valid" => receives(w.operator)
       /\ ~failed(report) => (boots(w) <=> ListedInFull(w))
       /\ ~failed(report) /\ ~w.skipChain => handleReady(w)
       /\ \A i, j \in DOMAIN report : report[i].name = report[j].name => i = j

=============================================================================
