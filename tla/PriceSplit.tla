----------------------------- MODULE PriceSplit -----------------------------
(***************************************************************************)
(* The split of an inbound charge into the operator's payout and the       *)
(* gateway's margin (packages/shared/src/pricing.ts).  Amounts are atomic  *)
(* USDC units, unbounded bigints in the code and naturals here.            *)
(***************************************************************************)
EXTENDS Integers

BPS_DENOMINATOR == 10000

(* A margin the code accepts: an integer number of basis points.           *)
IsMarginBps(bps) == bps \in 0 .. BPS_DENOMINATOR

(* The margin floors, so the sub-atomic remainder goes to the operator.    *)
computeSplit(inbound, marginBps) ==
    LET margin == (inbound * marginBps) \div BPS_DENOMINATOR
    IN  [inbound |-> inbound, payout |-> inbound - margin, margin |-> margin]

(* The check repeated on a split before funds move on the back of it.      *)
assertSplitInvariant(split) ==
    /\ split.inbound >= 0 /\ split.payout >= 0 /\ split.margin >= 0
    /\ split.inbound - split.payout = split.margin
=============================================================================
