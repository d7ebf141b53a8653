------------------------------ MODULE Selector ------------------------------
(***************************************************************************)
(* Which node gets a request (packages/registry/src/selector): the nodes    *)
(* that may serve it, their scores, and the weighted draw among them; the   *)
(* latency percentile and the quality a score is made of                    *)
(* (store/memory.ts); the count of routable nodes /readyz reports           *)
(* (packages/gateway/src/routes/health.ts).                                 *)
(*                                                                          *)
(* Ratios, floats in the code, are multiples of 1/RatioScale here; a score  *)
(* is in units of 1/(10 * RatioScale), the weights being tenths.            *)
(***************************************************************************)
EXTENDS Pricing, NodeHealth

CONSTANT RatioScale     \* RATIO_SCALE

ASSUME SelectorAssumption == RatioScale \in Nat /\ RatioScale > 0 /\ RatioScale % 2 = 0

LATENCY == 4
PRICE == 3
QUALITY == 3
WeightFloor == RatioScale \div 2     \* DEFAULT_WEIGHT_FLOOR, 0.05

-----------------------------------------------------------------------------
(* Nearest rank: the sample at ceil(p/100 * N), the first for p = 0.        *)
percentile(sorted, p) ==
    LET rank == (p * Len(sorted) + 99) \div 100
    IN IF sorted = <<>> THEN 0 ELSE sorted[IF rank = 0 THEN 1 ELSE rank]

(* deriveHealth, the quality: the share of successes, cut linearly by the   *)
(* current run of failures; in units of 1/per.                              *)
qualityScore(window, per) ==
    LET ok == Cardinality({i \in DOMAIN window : window[i]})
        streak == Min({consecutiveFailures(window), UnhealthyAfter})
    IN (per * ok * (UnhealthyAfter - streak)) \div (Len(window) * UnhealthyAfter)

-----------------------------------------------------------------------------
(* unroutableReason: why a node can serve no request at all.                *)
unroutableReason(node) ==
    IF ~node.sameNetwork THEN "wrongNetwork"
    ELSE IF ~node.fresh THEN "stale"
    ELSE IF ~node.healthy THEN "unhealthy"
    ELSE IF ~node.usdcOptedIn THEN "notOptedIn"
    ELSE "none"

(* handleReady, the store's check.                                          *)
readyCount(nodes) == Cardinality({i \in DOMAIN nodes : unroutableReason(nodes[i]) = "none"})

(* publicView, what GET /v1/nodes says of a node.                           *)
publicRoutable(node, requireUsdcOptIn) ==
    node.healthy /\ (node.usdcOptedIn \/ ~requireUsdcOptIn)

Advertises(node, model) ==
    \E i \in DOMAIN node.capabilities :
        normalizeModelId(node.capabilities[i].model) = normalizeModelId(model)

(* The price of the first capability that is the model; Throws stands for   *)
(* the null of a node that cannot be priced.                                *)
nodePriceAtomic(node, model) ==
    LET i == SelectInSeq(node.capabilities,
                         LAMBDA c : normalizeModelId(c.model) = normalizeModelId(model))
    IN IF i = 0 THEN Throws ELSE usdcToAtomic(node.capabilities[i].price)

(* select, the first test a node fails, in the order they are made.         *)
rejection(node, model) ==
    IF node.excluded THEN "excluded"
    ELSE IF ~node.sameNetwork THEN "wrongNetwork"
    ELSE IF ~node.fresh THEN "stale"
    ELSE IF ~node.healthy THEN "unhealthy"
    ELSE IF ~Advertises(node, model) THEN "wrongModel"
    ELSE IF ~node.usdcOptedIn THEN "notOptedIn"
    ELSE IF node.inFlight >= node.maxConcurrency THEN "saturated"
    ELSE IF nodePriceAtomic(node, model) = Throws THEN "unpriceable"
    ELSE "none"

-----------------------------------------------------------------------------
(* normalizeNumber and normalizeAtomic: where a value lies in its span; 0   *)
(* in a span of one point.                                                  *)
normalize01(value, min, max) ==
    IF max = min THEN 0 ELSE ((value - min) * RatioScale) \div (max - min)

(* scoreNode, within the candidates; every one of them has a price.         *)
scoreNode(c, candidates) ==
    LET latencies == {d.latencyMsP95 : d \in candidates}
        prices == {d.price : d \in candidates}
    IN LATENCY * (RatioScale - normalize01(c.latencyMsP95, Min(latencies), Max(latencies)))
         + PRICE * (RatioScale - normalize01(c.price, Min(prices), Max(prices)))
         + QUALITY * c.qualityScore

(* The candidates in the order of their ids, whatever the store's order.    *)
sorted(list) == SortSeq(list, LAMBDA c, d : c.id < d.id)

weights(list) == [i \in DOMAIN list |-> scoreNode(list[i], Range(list)) + WeightFloor]
total(ws) == FoldLeft(LAMBDA a, w : a + w, 0, ws)

(* Mutant of weightedChoice: the candidate that takes the threshold to 0    *)
(* is picked.                                                               *)
ChoiceInclusive(list, threshold) ==
    LET reached == {i \in DOMAIN list : threshold <= total(SubSeq(weights(list), 1, i))}
    IN list[Min(reached)]

(* The first candidate whose weight takes the threshold below 0, the last   *)
(* if none does: the generator returned 1.                                  *)
weightedChoice(list, threshold) ==
    LET reached == {i \in DOMAIN list : threshold < total(SubSeq(weights(list), 1, i))}
    IN list[IF reached = {} THEN Len(list) ELSE Min(reached)]

choose(list, threshold) == weightedChoice(sorted(list), threshold)

-----------------------------------------------------------------------------
(* The percentile is a sample, at least p in a hundred samples are no       *)
(* greater, and of a smaller sample that is not so.                         *)
PercentileSound(samples, p) ==
    LET s == SortSeq(samples, LAMBDA a, b : a < b)
        v == percentile(s, p)
        upTo(x) == Cardinality({i \in DOMAIN s : s[i] <= x})
    IN /\ v \in Range(s)
       /\ upTo(v) * 100 >= p * Len(s)
       /\ \A x \in Range(s) : x < v => upTo(x) * 100 < p * Len(s)

(* A node's quality falls with each failure in a row, until its health flag *)
(* goes with the last of it.                                                *)
QualitySheds(window, per) ==
    LET all == Append(window, FALSE)
        failed == IF Len(all) > HealthWindow THEN Tail(all) ELSE all
    IN /\ qualityScore(window, per) > 0 =>
            qualityScore(failed, per) < qualityScore(window, per)
       /\ ~deriveHealth(window) => qualityScore(window, per) = 0

(* The selector and /readyz agree: a node that may be chosen is one /readyz *)
(* counts, and one it counts is passed over only for what the request asks  *)
(* or for a place; a paid model is found however each side spells it.  The  *)
(* public list hides no node that may be chosen.                            *)
EligibilitySound(node, model) ==
    LET chosen == rejection(node, model) = "none" IN
    /\ chosen => /\ readyCount(<<node>>) = 1
                 /\ \A required \in BOOLEAN : publicRoutable(node, required)
    /\ (readyCount(<<node>>) = 1 /\ ~chosen)
         => rejection(node, model) \in {"excluded", "wrongModel", "saturated", "unpriceable"}
    /\ chosen <=>
         /\ node.sameNetwork /\ node.fresh /\ node.healthy /\ node.usdcOptedIn
         /\ ~node.excluded /\ node.inFlight < node.maxConcurrency
         /\ \E i \in DOMAIN node.capabilities :
              /\ node.capabilities[i].model.name = model.name
              /\ usdcToAtomic(node.capabilities[i].price) # Throws
              /\ \A j \in 1 .. i - 1 : node.capabilities[j].model.name # model.name

(* The draw is exact: of the thresholds it can meet, each candidate gets as *)
(* many as its weight, none goes without, the order of the store's list     *)
(* changes nothing; a candidate that is no slower, no dearer and no worse   *)
(* than another weighs no less; and prices in another unit change nothing.  *)
DrawSound(list) ==
    LET ws == weights(list)
        dearer == [i \in DOMAIN list |-> [list[i] EXCEPT !.price = 3 * @]]
    IN /\ \A i \in DOMAIN list :
            /\ ws[i] > 0
            /\ Cardinality({t \in 0 .. total(ws) - 1 : choose(list, t) = list[i]}) = ws[i]
            /\ \A j \in DOMAIN list :
                 (/\ list[i].latencyMsP95 <= list[j].latencyMsP95
                  /\ list[i].price <= list[j].price
                  /\ list[i].qualityScore >= list[j].qualityScore) => ws[i] >= ws[j]
       /\ \A t \in 0 .. total(ws) : choose(list, t) = choose(Reverse(list), t)
       /\ weights(dearer) = ws

=============================================================================
