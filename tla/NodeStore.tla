----------------------------- MODULE NodeStore ------------------------------
(***************************************************************************)
(* What the gateway knows of a node and how the node store                 *)
(* (packages/registry/src/store/memory.ts) changes it.  The Redis store    *)
(* shares these functions; an operation of either backend is one step here.*)
(*                                                                         *)
(* Of a NodeRecord the model keeps the operator, the opt-in, the in-flight *)
(* count, the health flag, and whether the last heartbeat is recent        *)
(* enough.  An outcome is TRUE for a success.                              *)
(***************************************************************************)
EXTENDS NodeHealth

CONSTANTS
    Nodes,          \* node ids
    Operators,      \* operator addresses
    None            \* no operator: the node id is not registered

ASSUME NodeStoreAssumption ==
    /\ None \notin Operators
    /\ UnhealthyAfter \in Nat \ {0}
    /\ HealthWindow \in Nat /\ HealthWindow >= UnhealthyAfter

VARIABLES
    records,    \* the stored record of each node id
    windows     \* its outcomes, oldest first
nodeStore == <<records, windows>>

Record == [op : Operators \cup {None}, opted : BOOLEAN, inFlight : Nat,
           healthy : BOOLEAN, fresh : BOOLEAN]
NoRecord == [op |-> None, opted |-> FALSE, inFlight |-> 0,
             healthy |-> FALSE, fresh |-> FALSE]

NodeStoreTypeOK ==
    /\ records \in [Nodes -> Record]
    /\ windows \in [Nodes -> Seq(BOOLEAN)]
    /\ \A n \in Nodes : Len(windows[n]) <= HealthWindow

NodeStoreInit ==
    /\ records = [n \in Nodes |-> NoRecord]
    /\ windows = [n \in Nodes |-> <<>>]

Registered(n) == records[n].op # None

(* Mutants of mergeRecord: the in-flight count is the caller's; the caller's*)
(* health is believed.                                                      *)
MergeCallersCount(existing, incoming, window) ==
    [incoming EXCEPT
       !.fresh = @ \/ existing.fresh,
       !.healthy = @ /\ (window = <<>> \/ deriveHealth(window))]

MergeCallersHealth(existing, incoming, window) ==
    [incoming EXCEPT
       !.inFlight = IF existing.op = None THEN @ ELSE existing.inFlight,
       !.fresh = @ \/ existing.fresh]

(* mergeRecord: the in-flight count is the store's, lastSeenAt the later of *)
(* the two, and the health is derived again once there is a window.         *)
mergeRecord(existing, incoming, window) ==
    [incoming EXCEPT
       !.inFlight = IF existing.op = None THEN @ ELSE existing.inFlight,
       !.fresh = @ \/ existing.fresh,
       !.healthy = @ /\ (window = <<>> \/ deriveHealth(window))]

upsert(n, incoming) ==
    /\ records' = [records EXCEPT ![n] = mergeRecord(@, incoming, windows[n])]
    /\ UNCHANGED windows

(* Mutant of recordOutcome: the window is not trimmed.                      *)
RecordUntrimmed(n, success) ==
    LET window == Append(windows[n], success)
    IN  /\ windows' = [windows EXCEPT ![n] = window]
        /\ records' = [records EXCEPT ![n].healthy = deriveHealth(window),
                                      ![n].fresh = @ \/ success]

(* recordOutcome: the window keeps the newest HealthWindow outcomes, and a  *)
(* success counts as having been seen.                                      *)
recordOutcome(n, success) ==
    LET all == Append(windows[n], success)
        window == IF Len(all) > HealthWindow THEN Tail(all) ELSE all
    IN  /\ windows' = [windows EXCEPT ![n] = window]
        /\ records' = [records EXCEPT ![n].healthy = deriveHealth(window),
                                      ![n].fresh = @ \/ success]

beginRequest(n) ==
    /\ records' = [records EXCEPT ![n].inFlight = @ + 1]
    /\ UNCHANGED windows

endRequest(n) ==
    /\ records' = [records EXCEPT ![n].inFlight = IF @ = 0 THEN 0 ELSE @ - 1]
    /\ UNCHANGED windows

(* staleAfterMs passes with no sign of the node.                            *)
GoStale(n) ==
    /\ records[n].fresh
    /\ records' = [records EXCEPT ![n].fresh = FALSE]
    /\ UNCHANGED windows

=============================================================================
