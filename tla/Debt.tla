-------------------------------- MODULE Debt --------------------------------
(***************************************************************************)
(* What the settlement service promises: a request that was paid for puts  *)
(* the gateway in debt to one operator, and one transfer, to that operator *)
(* and covering only its own unpaid requests, discharges it.  Nothing is   *)
(* paid that is not owed and nothing is paid twice, across any number of   *)
(* crashes.                                                                *)
(***************************************************************************)
EXTENDS Sequences

CONSTANTS Requests, Operators, None

VARIABLES debt,     \* the operator a request is owed to, or None
          paid      \* the receivers of the transfers that covered a request

Init ==
    /\ debt = [r \in Requests |-> None]
    /\ paid = [r \in Requests |-> <<>>]

(* A request becomes owed to the operator that served it.                   *)
Incur(r, o) ==
    /\ debt[r] = None
    /\ debt' = [debt EXCEPT ![r] = o]
    /\ UNCHANGED paid

(* One transfer to operator o discharges the requests of S.                 *)
Discharge(o, S) ==
    /\ S # {}
    /\ \A r \in S : debt[r] = o /\ paid[r] = <<>>
    /\ paid' = [r \in Requests |-> IF r \in S THEN <<o>> ELSE paid[r]]
    /\ UNCHANGED debt

Next ==
    \/ \E r \in Requests, o \in Operators : Incur(r, o)
    \/ \E o \in Operators : \E S \in SUBSET Requests : Discharge(o, S)

Spec == Init /\ [][Next]_<<debt, paid>>
=============================================================================
