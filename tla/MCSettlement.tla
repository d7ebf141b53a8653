---------------------------- MODULE MCSettlement ----------------------------
(* The settlement service on small instances, for TLC.                      *)
EXTENDS Settlement, TLC
CONSTANTS r1, r2, r3, o1, o2
TwoRequests == {r1, r2}
OneFreeRequest == {r1, r3}
(* One unit each: two requests reach a threshold of two.                    *)
UnitInbound == [r \in Requests |-> 1]
(* Nothing is owed for the third request.                                   *)
ZeroInbound == [r \in Requests |-> IF r = r3 THEN 0 ELSE 1]
(* Requests that paid the same are alike (safety only).                     *)
AlikeRequests == Permutations({r1, r2})
(* Bounds of settlement_faults, beside the crash: one fault of any kind,    *)
(* and each request noted once, with its note kept until it settles.        *)
OneFault == storeFaults + loadFaults + lookupFaults <= 1
NotedOnce == \A r \in Requests : req[r] = "live" => (routing[r] = None <=> r \in claimed)
=============================================================================
