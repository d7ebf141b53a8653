------------------------------ MODULE Pricing -------------------------------
(***************************************************************************)
(* What a request costs: decimal USDC texts (packages/shared/src/money.ts), *)
(* the table of prices per model (pricing.ts), the payment middleware a     *)
(* request is dispatched to (packages/gateway/src/app.ts) and what the      *)
(* gateway says of its prices (x402/routes.ts, routes/health.ts).           *)
(*                                                                          *)
(* A model id is a name and the form it is written in; a price text is its  *)
(* digits and the form they are written in.                                 *)
(***************************************************************************)
EXTENDS PriceSplit, Sequences, FiniteSets, FiniteSetsExt, SequencesExt

CONSTANTS
    Decimals,       \* USDC_DECIMALS
    MaxPriceTiers   \* MAX_PRICE_TIERS

ASSUME PricingAssumption ==
    Decimals \in Nat \ {0} /\ MaxPriceTiers \in Nat

Malformed == [form |-> "malformed", whole |-> 0, frac |-> <<>>]
NoModel == [name |-> "", form |-> "absent"]
Throws == -1

-----------------------------------------------------------------------------
(* usdcToAtomic: the fraction is padded to Decimals places; a longer one, a *)
(* malformed text and one with a second dollar sign are refused.            *)
SCALE == 10 ^ Decimals

usdcToAtomic(usdc) ==
    IF usdc.form \in {"malformed", "doubled"} \/ Len(usdc.frac) > Decimals THEN Throws
    ELSE usdc.whole * SCALE
           + MapThenSumSet(LAMBDA i : usdc.frac[i] * 10 ^ (Decimals - i), DOMAIN usdc.frac)

(* atomicToUsdc: all the places are written.                                *)
atomicToUsdc(a) ==
    [form |-> "plain", whole |-> a \div SCALE,
     frac |-> [i \in 1 .. Decimals |-> ((a % SCALE) \div (10 ^ (Decimals - i))) % 10]]

trim(usdc) == [usdc EXCEPT !.form = IF @ = "spaced" THEN "plain" ELSE @]

-----------------------------------------------------------------------------
(* Case and white space make no difference to a model.                      *)
normalizeModelId(model) == model.name

(* parseModelPrices: a later entry of the same model replaces an earlier    *)
(* one, and the table keeps the texts.  raw holds the entries of the JSON   *)
(* object in their order.                                                   *)
parseModelPrices(raw) ==
    LET keys == {normalizeModelId(raw[i].model) : i \in DOMAIN raw}
        latest(key) == Max({i \in DOMAIN raw : normalizeModelId(raw[i].model) = key})
    IN [key \in keys |-> trim(raw[latest(key)].price)]

PricesOk(raw) ==
    /\ \A i \in DOMAIN raw : /\ normalizeModelId(raw[i].model) # ""
                             /\ usdcToAtomic(raw[i].price) # Throws
    /\ Cardinality(Range(parseModelPrices(raw))) <= MaxPriceTiers

(* loadGatewayConfig, of the fields that prices come from; UsdcAmountSchema *)
(* checks the flat price.                                                   *)
ConfigOk(env) == usdcToAtomic(env.inboundPrice) # Throws /\ PricesOk(env.modelPrices)

loadGatewayConfig(env) ==
    [inboundPriceUsdc |-> trim(env.inboundPrice),
     modelPricesUsdc |-> parseModelPrices(env.modelPrices),
     marginBps |-> env.marginBps]

(* Mutant of resolveModelPrice: the id is looked up as it is written.       *)
ResolveVerbatim(prices, fallback, model) ==
    IF model # NoModel /\ model.form = "plain" /\ model.name \in DOMAIN prices
    THEN prices[model.name] ELSE fallback

resolveModelPrice(prices, fallback, model) ==
    IF model # NoModel /\ normalizeModelId(model) \in DOMAIN prices
    THEN prices[normalizeModelId(model)] ELSE fallback

priceTiers(prices, fallback) == {fallback} \cup Range(prices)

(* priceTierDispatch: the price of the middleware that gets a request.      *)
priceTierDispatch(config, model) ==
    LET tiers == priceTiers(config.modelPricesUsdc, config.inboundPriceUsdc)
        price == resolveModelPrice(config.modelPricesUsdc, config.inboundPriceUsdc, model)
    IN IF Cardinality(tiers) > 1 /\ price \in tiers THEN price ELSE config.inboundPriceUsdc

-----------------------------------------------------------------------------
(* What the middleware of a price asks for.  A dollar sign is put before    *)
(* the text, which has one already if the operator wrote it.                *)
priceString(priceUsdc) ==
    [priceUsdc EXCEPT !.form = IF @ = "plain" THEN "dollar" ELSE "doubled"]

buildPaymentOption(priceUsdc) == [price |-> priceString(priceUsdc)]

(* The payment library reads a Money text: a decimal, with or without one   *)
(* dollar sign.                                                             *)
parsePrice(money) == IF money.form \in {"plain", "dollar"} THEN usdcToAtomic(money) ELSE Throws

(* What the gateway says: the table of GET /v1/pricing, the body of a 402,  *)
(* the split it publishes.                                                  *)
pricingTable(config) ==
    [default |-> config.inboundPriceUsdc,
     models |-> {[model |-> m, usdc |-> config.modelPricesUsdc[m]]
                   : m \in DOMAIN config.modelPricesUsdc}]

unpaidPreview(config, priceUsdc) ==
    [usdc |-> priceUsdc, display |-> priceString(priceUsdc), atomic |-> usdcToAtomic(priceUsdc),
     pricing |-> pricingTable(config)]

economicsTier(config, usdc) == computeSplit(usdcToAtomic(usdc), config.marginBps)

economics(config) ==
    [default |-> economicsTier(config, config.inboundPriceUsdc),
     models |-> {[model |-> m.model, split |-> economicsTier(config, m.usdc)]
                   : m \in pricingTable(config).models}]

-----------------------------------------------------------------------------
(* What the operator wrote for a model, read entry by entry: the price of   *)
(* the last entry that names it, the flat price if none does.               *)
Written(env, name) ==
    LET named == SelectSeq(env.modelPrices, LAMBDA e : e.model.name = name)
    IN IF named = <<>> THEN env.inboundPrice ELSE Last(named).price

(* A gateway that starts charges what its operator wrote, or nothing.       *)
(* However a client spells the model, the price its 402 asks for is read by *)
(* the payment library as the amount of that model's entry, provided the    *)
(* entry is written without a dollar sign: written with one, which the      *)
(* configuration accepts, it is asked for with two, and that is no price.   *)
(* Either way the body of the 402, the pricing table and the published      *)
(* split say the amount of the entry; each leg of the split survives being  *)
(* written as a decimal; there is never more than one middleware above the  *)
(* limit on distinct prices.                                                *)
QuotedAsAdvertised(env, models) ==
    LET config == loadGatewayConfig(env) IN
    ConfigOk(env) =>
      /\ \A model \in models :
           LET written == Written(env, model.name)
               due == usdcToAtomic(written)
               price == priceTierDispatch(config, model)
               charged == parsePrice(buildPaymentOption(price).price)
               shown == unpaidPreview(config, price)
               rows == {r \in shown.pricing.models : r.model = model.name}
               splits == {r \in economics(config).models : r.model = model.name}
           IN /\ charged = IF written.form = "dollar" THEN Throws ELSE due
              /\ shown.atomic = due /\ parsePrice(shown.display) = charged
              /\ Cardinality(rows) <= 1 /\ Cardinality(splits) = Cardinality(rows)
              /\ \A r \in rows : usdcToAtomic(r.usdc) = due
              /\ \A r \in splits : r.split.inbound = due
              /\ rows = {} => /\ usdcToAtomic(shown.pricing.default) = due
                              /\ economics(config).default.inbound = due
      /\ \A s \in {r.split : r \in economics(config).models} \cup {economics(config).default} :
           /\ assertSplitInvariant(s)
           /\ \A leg \in DOMAIN s : usdcToAtomic(atomicToUsdc(s[leg])) = s[leg]
      /\ Cardinality(priceTiers(config.modelPricesUsdc, config.inboundPriceUsdc))
           <= MaxPriceTiers + 1

=============================================================================
