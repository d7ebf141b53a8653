-------------------------- MODULE SettlementProofs --------------------------
(***************************************************************************)
(* Invariance proofs for the settlement service, for every set of requests *)
(* and operators, every price, threshold, retry count and bound, and with  *)
(* every fault the model has: crashes at any point, failing store          *)
(* commands, boots that cannot read the store, failing lookups and expired *)
(* leases.  Then what is proved where some of these are ruled out: that    *)
(* the service implements the abstract debt (Orderly), and that no debt is *)
(* lost (Durable).  And last, with every fault again, that no step takes   *)
(* back what is done (WhatIsDoneStands).                                   *)
(***************************************************************************)
EXTENDS Settlement, FiniteSetTheorems, TLAPS

(* Ids are handed out in order: a used one has an operator, an unused one   *)
(* has left no trace.                                                       *)
IdsInOrder ==
    /\ \A b \in Ids : b < nextId => owner[b] \in Operators
    /\ \A b \in Ids : b >= nextId =>
          /\ recs[b] = {} /\ batchRow[b] = {} /\ pool[b] = {}
          /\ job[b] = "none" /\ b \notin landed
    /\ lease \subseteq landed

(* An operator's open accrual has not been paid, in part or in whole.       *)
OpenUnpaid ==
    \A o \in Operators : accrual[o] # NoId =>
        /\ accrual[o] < nextId /\ owner[accrual[o]] = o
        /\ job[accrual[o]] = "none" /\ pool[accrual[o]] = {} /\ accrual[o] \notin landed

(* Whatever is held or stored is owed, and a request that can still settle  *)
(* for the first time is not owed yet.                                      *)
OnlyDebts ==
    /\ \A b \in Ids : \A r \in recs[b] \cup batchRow[b] : debt[r] # None
    /\ \A o \in Operators : \A r \in openRow[o] : debt[r] # None
    /\ \A r \in Requests : req[r] = "new" => debt[r] = None
    /\ \A r \in Requests : req[r] = "live" /\ r \notin claimed => debt[r] = None
    /\ \A r \in Requests : debt[r] # None => Payout(r) > 0

(* A process that has ended holds nothing and says nothing; one that has    *)
(* only just booted holds nothing but what its recovery has handled; each   *)
(* stored batch is still to do or handled, never both.                      *)
RecoveryInStep ==
    /\ phase \in {"crashed", "exited"} =>
          /\ handled = {} /\ claimed = {}
          /\ \A b \in Ids : recs[b] = {} /\ job[b] = "none"
          /\ \A r \in Requests : ledger[r] = "none"
    /\ phase \notin Serving => \A o \in Operators : accrual[o] = NoId
    /\ phase = "recovering" =>
          /\ \A b \in Ids : recs[b] \subseteq handled
          /\ \A b \in Ids : b \notin todoBatch => batchRow[b] \subseteq handled
          /\ \A b \in todoBatch : batchRow[b] \cap handled = {} /\ job[b] = "none"

(* A stored batch says no more than the payout it belongs to.               *)
RowsInRecs ==
    \A b \in Ids : (job[b] # "none" \/ \E o \in Operators : accrual[o] = b)
                   => batchRow[b] \subseteq recs[b]

(* A transfer, pending or committed, covers all its payout holds and all    *)
(* its stored batch says.                                                   *)
Covered ==
    /\ \A b \in Ids : pool[b] # {} => recs[b] \cup batchRow[b] \subseteq pool[b]
    /\ \A b \in landed : \A r \in recs[b] \cup batchRow[b] : paid[r] # <<>>

(* No more than the ledger does any row stored of it, or queued, or lost on *)
(* its way, say settled of a request that is owed and not paid.             *)
RowsTruth == \A r \in Requests : "settled" \in rows[r] /\ Payout(r) > 0 => paid[r] # <<>>
AuditTruth == LedgerTruth /\ RowsTruth

IInv ==
    /\ TypeOK
    /\ IdsInOrder
    /\ OpenUnpaid
    /\ OnlyDebts
    /\ OnePayoutPerRequest
    /\ RecoveryInStep
    /\ RowsInRecs
    /\ Covered
    /\ AuditTruth

-----------------------------------------------------------------------------
(* Types of the parts that several actions share.                           *)

(* What enqueueWrite is called with is a durable write.                     *)
LEMMA WriteType ==
  ASSUME NEW b \in Ids
  PROVE  /\ \A op \in {"putOpen", "promote", "putBatch", "removeOpen", "removeBatch"} :
               [op |-> op, id |-> b] \in Writes
         /\ [op |-> "removeOpen", id |-> NoId] \in Writes
BY DEF Writes

(* The head of a chain is a write, and all but removeOpen name a payout id. *)
LEMMA ChainHead ==
  ASSUME TypeOK, NEW o \in Operators, chain[o] # <<>>
  PROVE  /\ Head(chain[o]) \in Writes
         /\ Tail(chain[o]) \in Seq(Writes)
         /\ Head(chain[o]).op # "removeOpen" => Head(chain[o]).id \in Ids
<1>1. chain[o] \in Seq(Writes)
  BY DEF TypeOK
<1>2. Head(chain[o]) \in Writes /\ Tail(chain[o]) \in Seq(Writes)
  BY <1>1
<1> QED
  BY <1>2 DEF Writes

(* A write at the end of a chain leaves chains of writes.                   *)
LEMMA EnqueueType ==
  ASSUME TypeOK, NEW o, NEW w \in Writes
  PROVE  [chain EXCEPT ![o] = Append(@, w)] \in [Operators -> Seq(Writes)]
<1>1. chain \in [Operators -> Seq(Writes)]
  BY DEF TypeOK
<1>2. \A p \in Operators : Append(chain[p], w) \in Seq(Writes)
  BY <1>1
<1> QED
  BY <1>1, <1>2

(* The margin floors to at most the charge.                                 *)
LEMMA MarginBound ==
  ASSUME NEW inbound \in Nat, NEW bps, IsMarginBps(bps)
  PROVE  /\ (inbound * bps) \div BPS_DENOMINATOR \in Nat
         /\ (inbound * bps) \div BPS_DENOMINATOR <= inbound
<1>1. bps \in Nat /\ bps <= 10000
  BY DEF IsMarginBps, BPS_DENOMINATOR
<1>2. inbound * bps \in Nat /\ inbound * bps <= inbound * 10000
  BY <1>1
<1> QED
  BY <1>1, <1>2 DEF BPS_DENOMINATOR

(* Every split of a charge satisfies the invariant that openRecord checks   *)
(* again before funds move: no leg is negative and the legs add up.  The    *)
(* branch of settleInbound that refuses to pay a broken split is dead, and  *)
(* Settlement leaves it out.                                                *)
THEOREM SplitNeverRefused ==
  ASSUME NEW inbound \in Nat, NEW bps, IsMarginBps(bps)
  PROVE  assertSplitInvariant(computeSplit(inbound, bps))
<1>1. /\ (inbound * bps) \div BPS_DENOMINATOR \in Nat
      /\ (inbound * bps) \div BPS_DENOMINATOR <= inbound
  BY MarginBound
<1> QED
  BY <1>1 DEF assertSplitInvariant, computeSplit

(* So the operator's leg is a natural number.                               *)
LEMMA PayoutType ==
  \A r \in Requests : Payout(r) \in Nat
<1> SUFFICES ASSUME NEW r \in Requests PROVE Payout(r) \in Nat
  OBVIOUS
<1>1. Inbound[r] \in Nat /\ IsMarginBps(MarginBps)
  BY SettlementAssumption
<1>2. /\ (Inbound[r] * MarginBps) \div BPS_DENOMINATOR \in Nat
      /\ (Inbound[r] * MarginBps) \div BPS_DENOMINATOR <= Inbound[r]
  BY <1>1, MarginBound
<1> QED
  BY <1>1, <1>2 DEF Payout, computeSplit

(* A request covered by one more transfer has been paid.                    *)
LEMMA AppendNonEmpty ==
  ASSUME NEW s \in Seq(Operators), NEW o \in Operators
  PROVE  Append(s, o) # <<>> /\ Append(s, o) \in Seq(Operators)
<1>1. Append(s, o) \in Seq(Operators) /\ Len(Append(s, o)) = Len(s) + 1 /\ Len(s) \in Nat
  OBVIOUS
<1>2. Len(<<>>) = 0
  OBVIOUS
<1> QED
  BY <1>1, <1>2

(* finalizeSettled keeps the types of what it assigns.                      *)
LEMMA SettledType ==
  ASSUME TypeOK, NEW b \in Ids, finalizeSettled(b)
  PROVE  /\ job' \in [Ids -> JobStates] /\ attempt' \in [Ids -> 0 .. Attempts]
         /\ liability' \in [Ids -> {"none", "paying", "stuck"}]
         /\ ledger' \in [Requests -> Status] /\ rows' \in [Requests -> SUBSET Status]
         /\ chain' \in [Operators -> Seq(Writes)]
<1>1. chain' \in [Operators -> Seq(Writes)]
  <2>1. enqueueWrite(owner[b], "removeBatch", b) \in [Operators -> Seq(Writes)]
    BY WriteType, EnqueueType DEF enqueueWrite
  <2> QED
    BY <2>1 DEF finalizeSettled, persistLedger, TypeOK
<1> QED
  BY <1>1 DEF finalizeSettled, persistLedger, TypeOK, JobStates, Status

(* finalizeFailed does.                                                     *)
LEMMA FailedType ==
  ASSUME TypeOK, NEW b \in Ids, finalizeFailed(b)
  PROVE  /\ job' \in [Ids -> JobStates] /\ attempt' \in [Ids -> 0 .. Attempts]
         /\ liability' \in [Ids -> {"none", "paying", "stuck"}]
         /\ ledger' \in [Requests -> Status] /\ rows' \in [Requests -> SUBSET Status]
         /\ chain' \in [Operators -> Seq(Writes)]
BY DEF finalizeFailed, persistLedger, TypeOK, JobStates, Status

(* So does a step to another state of runPayout.                            *)
LEMMA GoToType ==
  ASSUME TypeOK, NEW b \in Ids, NEW state \in JobStates, GoTo(b, state)
  PROVE  /\ job' \in [Ids -> JobStates]
         /\ liability' \in [Ids -> {"none", "paying", "stuck"}]
         /\ ledger' \in [Requests -> Status] /\ rows' \in [Requests -> SUBSET Status]
         /\ chain' \in [Operators -> Seq(Writes)]
BY DEF GoTo, TypeOK, JobStates

(* flushAccrual does, of whatever accruals it is given.                     *)
LEMMA FlushType ==
  ASSUME TypeOK, NEW open \in [Operators -> Ids \cup {NoId}], NEW S \in SUBSET Operators,
         \A o \in S : open[o] \in Ids, flushAccrual(open, S)
  PROVE  /\ accrual' \in [Operators -> Ids \cup {NoId}]
         /\ total' \in [Operators -> Nat]
         /\ job' \in [Ids -> JobStates]
         /\ attempt' \in [Ids -> 0 .. Attempts]
         /\ liability' \in [Ids -> {"none", "paying", "stuck"}]
         /\ chain' \in [Operators -> Seq(Writes)]
<1>1. chain' \in [Operators -> Seq(Writes)]
  <2>1. \A o \in S : Append(chain[o], [op |-> "promote", id |-> open[o]]) \in Seq(Writes)
    <3> SUFFICES ASSUME NEW o \in S
                 PROVE  Append(chain[o], [op |-> "promote", id |-> open[o]]) \in Seq(Writes)
      OBVIOUS
    <3>1. chain[o] \in Seq(Writes) /\ [op |-> "promote", id |-> open[o]] \in Writes
      BY WriteType DEF TypeOK
    <3> QED
      BY <3>1
  <2> QED
    BY <2>1 DEF flushAccrual, TypeOK
<1> QED
  BY <1>1, SettlementAssumption, SMTT(40) DEF flushAccrual, TypeOK, JobStates

(* So does the resumption of a stored row.                                  *)
LEMMA RecoveredType ==
  ASSUME TypeOK, NEW o, NEW b \in Ids, NEW payable \in SUBSET Requests,
         NEW write \in {"promote", "putBatch"}, NEW start \in JobStates,
         payRecovered(o, b, payable, write, start)
  PROVE  /\ claimed' \subseteq Requests /\ handled' \subseteq Requests
         /\ ledger' \in [Requests -> Status] /\ rows' \in [Requests -> SUBSET Status]
         /\ recs' \in [Ids -> SUBSET Requests]
         /\ job' \in [Ids -> JobStates]
         /\ attempt' \in [Ids -> 0 .. Attempts]
         /\ liability' \in [Ids -> {"none", "paying", "stuck"}]
         /\ chain' \in [Operators -> Seq(Writes)]
<1>1. chain' \in [Operators -> Seq(Writes)]
  BY WriteType, EnqueueType DEF payRecovered, enqueueWrite
<1> QED
  BY <1>1, SettlementAssumption DEF payRecovered, persistLedger, TypeOK, Status

-----------------------------------------------------------------------------
(* OnePayoutPerRequest, as the steps that touch what it counts preserve it. *)

(* A request that is not owed yet is in nobody's hands, so it can join one  *)
(* payout.                                                                  *)
LEMMA NewRecordOnce ==
  ASSUME TypeOK, OnlyDebts, OnePayoutPerRequest, NEW r \in Requests, debt[r] = None,
         NEW b \in Ids, recs' = [recs EXCEPT ![b] = @ \cup {r}],
         claimed' = claimed \cup {r}, UNCHANGED batchRow
  PROVE  OnePayoutPerRequest'
<1>1. \A c \in Ids : recs'[c] = IF c = b THEN recs[c] \cup {r} ELSE recs[c]
  BY DEF TypeOK
<1>2. \A c \in Ids : r \notin recs[c] \cup batchRow[c]
  BY DEF OnlyDebts
<1>3. \A c \in Ids : recs'[c] \subseteq claimed'
  BY <1>1 DEF OnePayoutPerRequest
<1>4. ASSUME NEW c \in Ids, NEW d \in Ids, c # d
      PROVE  (recs'[c] \cup batchRow[c]) \cap (recs'[d] \cup batchRow[d]) = {}
  <2>1. (recs[c] \cup batchRow[c]) \cap (recs[d] \cup batchRow[d]) = {}
    BY <1>4 DEF OnePayoutPerRequest
  <2> QED
    BY <1>1, <1>2, <1>4, <2>1
<1> QED
  BY <1>3, <1>4 DEF OnePayoutPerRequest

(* A stored batch may be rewritten with what its payout holds.              *)
LEMMA RowsOnce ==
  ASSUME OnePayoutPerRequest, UNCHANGED <<recs, claimed>>,
         \A c \in Ids : batchRow'[c] \subseteq recs[c] \cup batchRow[c]
  PROVE  OnePayoutPerRequest'
<1>1. ASSUME NEW c \in Ids, NEW d \in Ids, c # d
      PROVE  (recs[c] \cup batchRow'[c]) \cap (recs[d] \cup batchRow'[d]) = {}
  <2>1. (recs[c] \cup batchRow[c]) \cap (recs[d] \cup batchRow[d]) = {}
    BY <1>1 DEF OnePayoutPerRequest
  <2> QED
    BY <2>1
<1> QED
  BY <1>1 DEF OnePayoutPerRequest

-----------------------------------------------------------------------------
(* Intake.                                                                  *)

(* RecordRouting preserves the invariant.                                   *)
LEMMA RecordRoutingInv ==
  ASSUME IInv, NEW r \in Requests, NEW o \in Operators, RecordRouting(r, o)
  PROVE  IInv'
<1> USE SettlementAssumption DEF IInv, RecordRouting, accruing, payouts, recovery,
    store, network, history
<1>1. TypeOK'
  BY SMTT(40) DEF TypeOK, Phases, Serving, Status, JobStates, NoId, Ids
<1>2. OnlyDebts'
  BY DEF TypeOK, OnlyDebts, Serving
<1>3. IdsInOrder' /\ OpenUnpaid' /\ OnePayoutPerRequest' /\ RecoveryInStep'
  BY SMTT(40) DEF IdsInOrder, OpenUnpaid, OnePayoutPerRequest, RecoveryInStep
<1>4. RowsInRecs' /\ Covered' /\ AuditTruth'
  BY DEF RowsInRecs, Covered, AuditTruth, LedgerTruth, RowsTruth
<1> QED
  BY <1>1, <1>2, <1>3, <1>4

(* SettleDuplicate preserves the invariant.                                 *)
LEMMA SettleDuplicateInv ==
  ASSUME IInv, NEW r \in Requests, SettleDuplicate(r)
  PROVE  IInv'
<1> USE SettlementAssumption DEF IInv, SettleDuplicate, accruing, payouts, recovery,
    store, network, history
<1>1. TypeOK'
  BY DEF TypeOK, Phases, Serving, Status, JobStates, NoId, Ids
<1>2. IdsInOrder' /\ OpenUnpaid' /\ OnlyDebts' /\ OnePayoutPerRequest'
  BY DEF IdsInOrder, OpenUnpaid, OnlyDebts, OnePayoutPerRequest
<1>3. RecoveryInStep' /\ RowsInRecs' /\ Covered' /\ AuditTruth'
  BY DEF RecoveryInStep, RowsInRecs, Covered, AuditTruth, LedgerTruth, RowsTruth
<1> QED
  BY <1>1, <1>2, <1>3

(* SettleNothingOwed preserves the invariant.                               *)
LEMMA SettleNothingOwedInv ==
  ASSUME IInv, NEW r \in Requests, SettleNothingOwed(r)
  PROVE  IInv'
<1> USE SettlementAssumption DEF IInv, SettleNothingOwed, Claim, accruing, payouts,
    recovery, store, network
<1>1. TypeOK'
  BY DEF TypeOK, Phases, Serving, Status, JobStates, NoId, Ids, persistLedger
<1>2. OnlyDebts'
  BY DEF TypeOK, OnlyDebts, Serving
<1>3. OnePayoutPerRequest'
  BY DEF TypeOK, OnePayoutPerRequest, OnlyDebts, IdsInOrder, RecoveryInStep, Ids, Serving
<1>4. AuditTruth'
  BY DEF TypeOK, AuditTruth, LedgerTruth, RowsTruth, persistLedger
<1>5. IdsInOrder' /\ OpenUnpaid' /\ RecoveryInStep' /\ RowsInRecs'
  BY DEF IdsInOrder, OpenUnpaid, RecoveryInStep, RowsInRecs, Serving
<1>6. Covered'
  BY DEF Covered
<1> QED
  BY <1>1, <1>2, <1>3, <1>4, <1>5, <1>6

(* SettleUnbatched preserves the invariant.                                 *)
LEMMA SettleUnbatchedInv ==
  ASSUME IInv, NEW r \in Requests, SettleUnbatched(r)
  PROVE  IInv'
<1> USE SettlementAssumption DEF IInv, SettleUnbatched, Claim, recovery, store, network
<1>1. TypeOK'
  BY SMTT(40) DEF TypeOK, Phases, Serving, Status, JobStates, NoId, Ids, persistLedger
<1>2. IdsInOrder'
  BY DEF TypeOK, IdsInOrder, Ids, JobStates, Active
<1>3. OpenUnpaid'
  BY SMTT(40) DEF TypeOK, IdsInOrder, OpenUnpaid, Ids, NoId
<1>4. OnlyDebts'
  BY DEF TypeOK, OnlyDebts, Serving
<1>5. OnePayoutPerRequest'
  <2>1. debt[r] = None
    BY DEF OnlyDebts
  <2>2. recs[nextId] = {}
    BY DEF TypeOK, IdsInOrder
  <2>3. recs' = [recs EXCEPT ![nextId] = {r}] /\ claimed' = claimed \cup {r}
    OBVIOUS
  <2>4. recs[nextId] \cup {r} = {r}
    BY <2>2
  <2>5. TypeOK /\ OnlyDebts /\ OnePayoutPerRequest /\ nextId \in Ids /\ UNCHANGED batchRow
    OBVIOUS
  <2> HIDE SettlementAssumption DEF IInv, SettleUnbatched, Claim, recovery, store, network
  <2> QED
    BY <2>1, <2>3, <2>4, <2>5, NewRecordOnce
<1>6. RecoveryInStep'
  BY DEF TypeOK, RecoveryInStep, Serving
<1>7. RowsInRecs'
  <2>1. batchRow[nextId] = {}
    BY DEF TypeOK, IdsInOrder
  <2>2. /\ TypeOK /\ RowsInRecs /\ UNCHANGED <<batchRow, accrual>>
        /\ job' = [job EXCEPT ![nextId] = "pay"] /\ recs' = [recs EXCEPT ![nextId] = {r}]
    OBVIOUS
  <2> HIDE SettlementAssumption DEF IInv, SettleUnbatched, Claim, recovery, store, network
  <2>3. \A c \in Ids \ {nextId} : job'[c] = job[c] /\ recs'[c] = recs[c]
    BY <2>2 DEF TypeOK
  <2> QED
    BY <2>1, <2>2, <2>3 DEF RowsInRecs
<1>8. Covered'
  <2>1. recs[nextId] = {} /\ batchRow[nextId] = {} /\ pool[nextId] = {} /\ nextId \notin landed
    BY DEF TypeOK, IdsInOrder, Ids
  <2> QED
    BY <2>1 DEF TypeOK, Covered
<1>9. AuditTruth'
  BY DEF TypeOK, AuditTruth, LedgerTruth, RowsTruth, persistLedger
<1> QED
  BY <1>1, <1>2, <1>3, <1>4, <1>5, <1>6, <1>7, <1>8, <1>9

(* accrue preserves the invariant: the accrual a request joins has not been *)
(* paid, whether it was open already or is a new one.                       *)
LEMMA SettleAccruedInv ==
  ASSUME IInv, NEW r \in Requests, SettleAccrued(r)
  PROVE  IInv'
<1> DEFINE o == routing[r]
           b == IF accrual[o] = NoId THEN nextId ELSE accrual[o]
<1> USE DEF IInv
<1>1. o \in Operators /\ b \in Ids /\ req[r] = "live" /\ r \notin claimed /\ debt[r] = None
  BY DEF SettleAccrued, Claim, TypeOK, OnlyDebts
(* Paying b has not begun, whether the accrual is a new one or not. *)
<1>2. /\ job[b] = "none" /\ pool[b] = {} /\ b \notin landed
      /\ batchRow[b] \subseteq recs[b] /\ b <= nextId
  <2>1. CASE accrual[o] = NoId
    BY <1>1, <2>1 DEF TypeOK, IdsInOrder
  <2>2. CASE accrual[o] # NoId
    <3>1. b = accrual[o] /\ b < nextId
      BY <1>1, <2>2 DEF OpenUnpaid
    <3>2. job[b] = "none" /\ pool[b] = {} /\ b \notin landed
      BY <1>1, <2>2, <3>1 DEF OpenUnpaid
    <3>3. batchRow[b] \subseteq recs[b]
      BY <1>1, <3>1 DEF RowsInRecs
    <3> HIDE DEF b
    <3> QED
      BY <1>1, <3>1, <3>2, <3>3 DEF TypeOK, Ids
  <2> QED
    BY <2>1, <2>2
<1>3. /\ nextId' \in 1 .. MaxPayouts + 1 /\ nextId <= nextId' /\ b < nextId'
      /\ \A c \in Ids : c < nextId' => c = b \/ c < nextId
      /\ owner' = [owner EXCEPT ![b] = o]
      /\ recs' = [recs EXCEPT ![b] = @ \cup {r}]
      /\ debt' = [debt EXCEPT ![r] = o]
      /\ ledger' = [ledger EXCEPT ![r] = "accrued"]
      /\ rows' = persistLedger({r}, {"accrued"})
      /\ claimed' = claimed \cup {r} /\ routing' = [routing EXCEPT ![r] = None]
  <2>1. CASE accrual[o] = NoId
    BY <1>1, <2>1, SettlementAssumption DEF SettleAccrued, Claim, TypeOK, Ids
  <2>2. CASE accrual[o] # NoId
    BY <1>1, <2>2 DEF SettleAccrued, Claim, TypeOK, OpenUnpaid
  <2> QED
    BY <2>1, <2>2
<1>4. /\ phase \in Serving
      /\ UNCHANGED <<phase, batchMin, req, unbatched, handled, todoBatch, todoOpen,
                     openRow, batchRow, pool, lease, landed, paid,
                     ends, storeFaults, loadFaults, lookupFaults>>
  BY DEF SettleAccrued, Claim, recovery, store, network
(* Either the accrual stays open or it has become a payout. *)
<1>5. /\ accrual' \in [Operators -> Ids \cup {NoId}]
      /\ total' \in [Operators -> Nat]
      /\ job' \in [Ids -> JobStates]
      /\ attempt' \in [Ids -> 0 .. Attempts]
      /\ liability' \in [Ids -> {"none", "paying", "stuck"}]
      /\ chain' \in [Operators -> Seq(Writes)]
      /\ \A p \in Operators \ {o} : accrual'[p] = accrual[p]
      /\ accrual'[o] = NoId \/ (accrual'[o] = b /\ job'[b] = "none")
      /\ \A c \in Ids \ {b} : job'[c] = job[c]
  <2> DEFINE open == [accrual EXCEPT ![o] = b]
  <2>1. open \in [Operators -> Ids \cup {NoId}] /\ open[o] = b
    BY <1>1 DEF TypeOK
  <2>2. CASE flushAccrual(open, {o})
    <3>1. /\ accrual' \in [Operators -> Ids \cup {NoId}]
          /\ total' \in [Operators -> Nat]
          /\ job' \in [Ids -> JobStates]
          /\ attempt' \in [Ids -> 0 .. Attempts]
          /\ liability' \in [Ids -> {"none", "paying", "stuck"}]
          /\ chain' \in [Operators -> Seq(Writes)]
      <4>1. {o} \in SUBSET Operators /\ \A p \in {o} : open[p] \in Ids
        BY <1>1, <2>1
      <4> HIDE DEF open
      <4> QED
        BY <2>1, <2>2, <4>1, FlushType
    <3> QED
      BY <1>1, <2>1, <2>2, <3>1 DEF flushAccrual, TypeOK
  <2>3. CASE /\ accrual' = open
             /\ total' = [total EXCEPT ![o] = total[o] + Payout(r)]
             /\ chain' = enqueueWrite(o, "putOpen", b)
             /\ UNCHANGED <<job, attempt, liability>>
    <3>1. chain' \in [Operators -> Seq(Writes)]
      BY <1>1, <2>3, WriteType, EnqueueType DEF enqueueWrite
    <3> QED
      BY <1>1, <1>2, <2>1, <2>3, <3>1, PayoutType, SMTT(40) DEF TypeOK
  <2> QED
    BY <2>2, <2>3 DEF SettleAccrued
<1> HIDE DEF b
<1>6. TypeOK'
  BY <1>1, <1>3, <1>4, <1>5 DEF TypeOK, Status, persistLedger
<1>7. IdsInOrder'
  <2>1. \A c \in Ids : c >= nextId' => c # b /\ c >= nextId
    BY <1>1, <1>3 DEF TypeOK, Ids
  <2>2. \A c \in Ids : c < nextId' => owner'[c] \in Operators
    BY <1>1, <1>3 DEF TypeOK, IdsInOrder
  <2> QED
    BY <1>3, <1>4, <1>5, <2>1, <2>2, SMTT(40) DEF TypeOK, IdsInOrder
<1>8. OpenUnpaid'
  <2> SUFFICES ASSUME NEW p \in Operators, accrual'[p] # NoId
               PROVE  /\ accrual'[p] < nextId' /\ owner'[accrual'[p]] = p
                      /\ job'[accrual'[p]] = "none" /\ pool[accrual'[p]] = {}
                      /\ accrual'[p] \notin landed
    BY <1>4 DEF OpenUnpaid
  <2>1. CASE p = o
    BY <1>1, <1>2, <1>3, <1>5, <2>1 DEF TypeOK
  <2>2. CASE p # o
    <3>1. accrual'[p] = accrual[p] /\ accrual[p] \in Ids /\ accrual[p] # b
      BY <1>1, <1>5, <2>2, SMTT(40) DEF TypeOK, OpenUnpaid, b
    <3> QED
      BY <1>3, <1>5, <3>1, SMTT(40) DEF TypeOK, OpenUnpaid, Ids
  <2> QED
    BY <2>1, <2>2
<1>9. OnlyDebts'
  <2>1. Payout(r) > 0
    BY DEF SettleAccrued
  <2>2. \A q \in Requests : debt'[q] # None => q = r \/ debt[q] # None
    BY <1>3 DEF TypeOK
  <2>3. \A q \in Requests : debt'[q] # None => Payout(q) > 0
    BY <2>1, <2>2 DEF OnlyDebts
  <2>4. /\ \A c \in Ids : \A q \in recs'[c] \cup batchRow'[c] : debt'[q] # None
        /\ \A p \in Operators : \A q \in openRow'[p] : debt'[q] # None
        /\ \A q \in Requests : req'[q] = "new" => debt'[q] = None
        /\ \A q \in Requests : req'[q] = "live" /\ q \notin claimed' => debt'[q] = None
    BY <1>1, <1>3, <1>4, SettlementAssumption DEF TypeOK, OnlyDebts
  <2> QED
    BY <2>3, <2>4 DEF OnlyDebts
<1>10. OnePayoutPerRequest'
  BY <1>1, <1>3, <1>4, NewRecordOnce
<1>11. RecoveryInStep'
  BY <1>4 DEF RecoveryInStep, Serving
<1>12. RowsInRecs'
  BY <1>1, <1>2, <1>3, <1>4, <1>5, SMTT(40) DEF TypeOK, RowsInRecs, NoId, Ids
<1>13. Covered'
  BY <1>1, <1>2, <1>3, <1>4 DEF TypeOK, Covered
<1>14. AuditTruth'
  BY <1>3, <1>4 DEF TypeOK, AuditTruth, LedgerTruth, RowsTruth, persistLedger
<1> QED
  BY <1>6, <1>7, <1>8, <1>9, <1>10, <1>11, <1>12, <1>13, <1>14

(* The deadline and the rounds of flushPayouts preserve the invariant: what *)
(* they turn into a payout has not been paid, and belongs to its operator.  *)
LEMMA FlushInv ==
  ASSUME IInv, NEW S \in SUBSET Operators, \A o \in S : accrual[o] # NoId,
         flushAccrual(accrual, S), phase \in Serving, phase' \in Serving,
         UNCHANGED <<intake, ledger, rows, nextId, owner, recs, unbatched, recovery, store,
                     network, history>>
  PROVE  IInv'
<1> USE DEF IInv, intake, recovery, store, network, history
<1>1. \A o \in S : accrual[o] \in Ids
  BY DEF TypeOK
<1>2. /\ accrual' \in [Operators -> Ids \cup {NoId}]
      /\ total' \in [Operators -> Nat]
      /\ job' \in [Ids -> JobStates]
      /\ attempt' \in [Ids -> 0 .. Attempts]
      /\ liability' \in [Ids -> {"none", "paying", "stuck"}]
      /\ chain' \in [Operators -> Seq(Writes)]
  <2>1. accrual \in [Operators -> Ids \cup {NoId}]
    BY DEF TypeOK
  <2> QED
    BY <1>1, <2>1, FlushType
<1>3. /\ \A o \in Operators : accrual'[o] = NoId \/ (accrual'[o] = accrual[o] /\ o \notin S)
      /\ \A b \in Ids : job'[b] = job[b] \/ \E o \in S : accrual[o] = b
  BY <1>1 DEF flushAccrual, TypeOK
<1>4. TypeOK'
  BY <1>2 DEF TypeOK, Phases
<1>5. IdsInOrder'
  BY <1>3 DEF TypeOK, IdsInOrder, OpenUnpaid, Ids
<1>6. OpenUnpaid'
  BY <1>1, <1>3 DEF TypeOK, OpenUnpaid
<1>7. RowsInRecs'
  <2>1. \A b \in Ids : (job'[b] # "none" \/ \E o \in Operators : accrual'[o] = b)
                         => job[b] # "none" \/ \E o \in Operators : accrual[o] = b
    BY <1>3 DEF NoId, Ids
  <2>2. RowsInRecs /\ UNCHANGED <<batchRow, recs>>
    OBVIOUS
  <2> QED
    BY <2>1, <2>2 DEF RowsInRecs
<1>8. RecoveryInStep'
  BY DEF RecoveryInStep, Serving
<1>9. OnlyDebts' /\ OnePayoutPerRequest' /\ Covered' /\ AuditTruth'
  BY DEF OnlyDebts, OnePayoutPerRequest, Covered, AuditTruth, LedgerTruth, RowsTruth
<1> QED
  BY <1>4, <1>5, <1>6, <1>7, <1>8, <1>9

-----------------------------------------------------------------------------
(* The chains of durable writes.                                            *)

(* PutOpen preserves the invariant.                                         *)
LEMMA PutOpenInv ==
  ASSUME IInv, NEW o \in Operators, PutOpen(o)
  PROVE  IInv'
<1> USE SettlementAssumption DEF IInv, PutOpen, Head1, intake, accruing, payouts,
    recovery, network
<1>1. TypeOK'
  <2>1. chain' \in [Operators -> Seq(Writes)]
    BY ChainHead DEF TypeOK
  <2>2. openRow' \in [Operators -> SUBSET Requests]
    BY ChainHead DEF TypeOK
  <2> QED
    BY <2>1, <2>2 DEF TypeOK, Phases, Serving, Status, JobStates, NoId, Ids
<1>2. OnlyDebts'
  BY ChainHead DEF TypeOK, OnlyDebts
<1>3. IdsInOrder' /\ OpenUnpaid' /\ OnePayoutPerRequest' /\ RecoveryInStep'
  BY DEF IdsInOrder, OpenUnpaid, OnePayoutPerRequest, RecoveryInStep
<1>4. RowsInRecs' /\ Covered' /\ AuditTruth'
  BY DEF RowsInRecs, Covered, AuditTruth, LedgerTruth, RowsTruth
<1> QED
  BY <1>1, <1>2, <1>3, <1>4

(* Promote preserves the invariant.                                         *)
LEMMA PromoteInv ==
  ASSUME IInv, NEW o \in Operators, Promote(o)
  PROVE  IInv'
<1> USE SettlementAssumption DEF IInv, Promote, Head1, intake, accruing, payouts,
    recovery, network
<1>1. TypeOK'
  <2>1. Head(chain[o]).id \in Ids /\ Tail(chain[o]) \in Seq(Writes)
    BY ChainHead DEF TypeOK
  <2>2. [op |-> "removeOpen", id |-> Head(chain[o]).id] \in Writes
    BY <2>1, WriteType
  <2>3. <<[op |-> "removeOpen", id |-> Head(chain[o]).id]>> \o Tail(chain[o]) \in Seq(Writes)
    BY <2>1, <2>2
  <2>4. chain' \in [Operators -> Seq(Writes)]
    BY <2>3 DEF TypeOK
  <2> QED
    BY <2>1, <2>2, <2>3, <2>4 DEF TypeOK, Phases, Serving, Status, JobStates, NoId, Ids
<1>2. IdsInOrder'
  BY DEF TypeOK, IdsInOrder, Ids, JobStates, Active
<1>3. OnlyDebts'
  BY DEF TypeOK, OnlyDebts, Serving
<1>4. OnePayoutPerRequest'
  <2>1. Head(chain[o]).id \in Ids
    BY ChainHead
  <2>2. \A c \in Ids : batchRow'[c] \subseteq recs[c] \cup batchRow[c]
    BY <2>1 DEF TypeOK
  <2> QED
    BY <2>2, RowsOnce
<1>5. RecoveryInStep'
  BY DEF TypeOK, RecoveryInStep, Serving
<1>6. RowsInRecs'
  BY DEF TypeOK, RowsInRecs, NoId, Ids
<1>7. Covered'
  BY DEF TypeOK, Covered
<1>8. OpenUnpaid' /\ AuditTruth'
  BY DEF OpenUnpaid, AuditTruth, LedgerTruth, RowsTruth
<1> QED
  BY <1>1, <1>2, <1>3, <1>4, <1>5, <1>6, <1>7, <1>8

(* PutBatch preserves the invariant.                                        *)
LEMMA PutBatchInv ==
  ASSUME IInv, NEW o \in Operators, PutBatch(o)
  PROVE  IInv'
<1> USE SettlementAssumption DEF IInv, PutBatch, Head1, intake, accruing, payouts,
    recovery, network
<1>1. TypeOK'
  <2>1. chain' \in [Operators -> Seq(Writes)]
    BY ChainHead DEF TypeOK
  <2>2. batchRow' \in [Ids -> SUBSET Requests]
    BY ChainHead DEF TypeOK
  <2> QED
    BY <2>1, <2>2 DEF TypeOK, Phases, Serving, Status, JobStates, NoId, Ids
<1>2. IdsInOrder'
  BY DEF TypeOK, IdsInOrder, Ids, JobStates, Active
<1>3. OnlyDebts'
  BY DEF TypeOK, OnlyDebts, Serving
<1>4. OnePayoutPerRequest'
  <2>1. Head(chain[o]).id \in Ids
    BY ChainHead
  <2>2. \A c \in Ids : batchRow'[c] \subseteq recs[c] \cup batchRow[c]
    BY <2>1 DEF TypeOK
  <2> QED
    BY <2>2, RowsOnce
<1>5. RecoveryInStep'
  BY DEF TypeOK, RecoveryInStep, Serving
<1>6. RowsInRecs'
  BY DEF TypeOK, RowsInRecs, NoId, Ids
<1>7. Covered'
  BY DEF TypeOK, Covered
<1>8. OpenUnpaid' /\ AuditTruth'
  BY DEF OpenUnpaid, AuditTruth, LedgerTruth, RowsTruth
<1> QED
  BY <1>1, <1>2, <1>3, <1>4, <1>5, <1>6, <1>7, <1>8

(* RemoveOpen preserves the invariant.                                      *)
LEMMA RemoveOpenInv ==
  ASSUME IInv, NEW o \in Operators, RemoveOpen(o)
  PROVE  IInv'
<1> USE SettlementAssumption DEF IInv, RemoveOpen, Head1, intake, accruing, payouts,
    recovery, network
<1>1. TypeOK'
  <2>1. chain' \in [Operators -> Seq(Writes)]
    BY ChainHead DEF TypeOK
  <2> QED
    BY <2>1 DEF TypeOK, Phases, Serving, Status, JobStates, NoId, Ids
<1>2. OnlyDebts'
  BY DEF TypeOK, OnlyDebts, Serving
<1>3. IdsInOrder' /\ OpenUnpaid'
  BY DEF TypeOK, IdsInOrder, OpenUnpaid
<1>4. UNCHANGED <<claimed, recs, batchRow>> /\ OnePayoutPerRequest
  OBVIOUS
<1>5. OnePayoutPerRequest'
  BY <1>4 DEF OnePayoutPerRequest
<1>6. RecoveryInStep'
  BY DEF RecoveryInStep
<1>7. RowsInRecs' /\ Covered' /\ AuditTruth'
  BY DEF RowsInRecs, Covered, AuditTruth, LedgerTruth, RowsTruth
<1> QED
  BY <1>1, <1>2, <1>3, <1>5, <1>6, <1>7

(* RemoveBatch preserves the invariant.                                     *)
LEMMA RemoveBatchInv ==
  ASSUME IInv, NEW o \in Operators, RemoveBatch(o)
  PROVE  IInv'
<1> USE SettlementAssumption DEF IInv, RemoveBatch, Head1, intake, accruing, payouts,
    recovery, network
<1>1. TypeOK'
  <2>1. chain' \in [Operators -> Seq(Writes)]
    BY ChainHead DEF TypeOK
  <2>2. batchRow' \in [Ids -> SUBSET Requests]
    BY ChainHead DEF TypeOK
  <2> QED
    BY <2>1, <2>2 DEF TypeOK, Phases, Serving, Status, JobStates, NoId, Ids
<1>2. IdsInOrder'
  BY DEF TypeOK, IdsInOrder, Ids, JobStates, Active
<1>3. OnlyDebts'
  BY DEF TypeOK, OnlyDebts, Serving
<1>4. OnePayoutPerRequest'
  BY SMTT(40) DEF TypeOK, OnePayoutPerRequest, OnlyDebts, IdsInOrder, RecoveryInStep, Ids, Serving
<1>5. RecoveryInStep'
  BY DEF TypeOK, RecoveryInStep, Serving
<1>6. RowsInRecs'
  BY DEF TypeOK, RowsInRecs, NoId, Ids
<1>7. Covered'
  BY DEF TypeOK, Covered
<1>8. OpenUnpaid' /\ AuditTruth'
  BY DEF OpenUnpaid, AuditTruth, LedgerTruth, RowsTruth
<1> QED
  BY <1>1, <1>2, <1>3, <1>4, <1>5, <1>6, <1>7, <1>8

(* WriteFails preserves the invariant.                                      *)
LEMMA WriteFailsInv ==
  ASSUME IInv, NEW o \in Operators, WriteFails(o)
  PROVE  IInv'
<1> USE SettlementAssumption DEF IInv, WriteFails, Head1, intake, accruing, payouts,
    recovery, network
<1>1. TypeOK'
  <2>1. chain' \in [Operators -> Seq(Writes)]
    BY ChainHead DEF TypeOK
  <2>2. storeFaults' \in 0 .. MaxStoreFaults
    BY DEF TypeOK
  <2> QED
    BY <2>1, <2>2 DEF TypeOK
<1>2. UNCHANGED <<nextId, owner, accrual, job, pool, lease, landed, debt, req, claimed, recs,
                 openRow, batchRow>>
  OBVIOUS
<1>3. IdsInOrder /\ OpenUnpaid /\ OnlyDebts /\ OnePayoutPerRequest
      /\ RecoveryInStep /\ RowsInRecs /\ Covered /\ AuditTruth
  OBVIOUS
<1>4. UNCHANGED <<phase, handled, todoBatch, ledger, rows, paid>>
  OBVIOUS
<1> HIDE SettlementAssumption DEF IInv, WriteFails
<1>5. IdsInOrder'
  BY <1>2, <1>3 DEF IdsInOrder
<1>6. OpenUnpaid'
  BY <1>2, <1>3 DEF OpenUnpaid
<1>7. OnlyDebts' /\ OnePayoutPerRequest'
  BY <1>2, <1>3, <1>4 DEF OnlyDebts, OnePayoutPerRequest
<1>8. RecoveryInStep'
  BY <1>2, <1>3, <1>4 DEF RecoveryInStep
<1>9. RowsInRecs' /\ Covered' /\ AuditTruth'
  BY <1>2, <1>3, <1>4 DEF RowsInRecs, Covered, AuditTruth, LedgerTruth, RowsTruth
<1> QED
  BY <1>1, <1>5, <1>6, <1>7, <1>8, <1>9 DEF IInv

-----------------------------------------------------------------------------
(* runPayout.                                                               *)

(* CheckLandedFirst preserves the invariant.                                *)
LEMMA CheckLandedFirstInv ==
  ASSUME IInv, NEW b \in Ids, CheckLandedFirst(b)
  PROVE  IInv'
<1> USE SettlementAssumption DEF IInv, CheckLandedFirst, JobAt, findLandedPayout,
    finalizeSettled, GoTo, enqueueWrite, intake, accruing, recovery, store, network
<1>1. TypeOK'
  <2>1. /\ job' \in [Ids -> JobStates] /\ attempt' \in [Ids -> 0 .. Attempts]
        /\ liability' \in [Ids -> {"none", "paying", "stuck"}]
        /\ ledger' \in [Requests -> Status] /\ rows' \in [Requests -> SUBSET Status]
        /\ chain' \in [Operators -> Seq(Writes)]
    BY SettledType, GoToType DEF TypeOK, JobStates
  <2>2. lookupFaults' \in 0 .. MaxLookupFaults
    BY DEF TypeOK
  <2> QED
    BY <2>1, <2>2 DEF TypeOK
<1>2. IdsInOrder'
  BY DEF TypeOK, IdsInOrder, Ids, JobStates, Active
<1>3. OpenUnpaid'
  BY SMTT(40) DEF TypeOK, OpenUnpaid
<1>4. RecoveryInStep'
  BY DEF TypeOK, RecoveryInStep, Serving
<1>5. RowsInRecs'
  BY DEF TypeOK, RowsInRecs, NoId, Ids
<1>6. AuditTruth'
  <2>1. UNCHANGED paid /\ (b \in landed => \A r \in recs[b] : paid[r] # <<>>)
    BY DEF Covered
  <2>2. \A r \in Requests : /\ ledger'[r] = "settled" => ledger[r] = "settled" \/ paid[r] # <<>>
                            /\ "settled" \in rows'[r] => "settled" \in rows[r] \/ paid[r] # <<>>
    <3>1. CASE b \in landed /\ finalizeSettled(b)
      BY <2>1, <3>1 DEF TypeOK, persistLedger
    <3>2. CASE GoTo(b, "pay")
      BY <3>2
    <3> QED
      BY <3>1, <3>2
  <2> QED
    BY <2>1, <2>2 DEF AuditTruth, LedgerTruth, RowsTruth
<1>7. OnlyDebts' /\ OnePayoutPerRequest' /\ Covered'
  BY DEF OnlyDebts, OnePayoutPerRequest, Covered
<1> QED
  BY <1>1, <1>2, <1>3, <1>4, <1>5, <1>6, <1>7

(* Pay preserves the invariant.                                             *)
LEMMA PayInv ==
  ASSUME IInv, NEW b \in Ids, Pay(b)
  PROVE  IInv'
<1> USE SettlementAssumption DEF IInv, Pay, JobAt, GoTo, intake, accruing, recovery,
    store
<1>1. TypeOK'
  <2>1. /\ TypeOK
        /\ UNCHANGED <<phase, intake, accruing, recs, unbatched, recovery, store, debt,
                       ends, storeFaults, loadFaults, liability, ledger, rows, chain,
                       lease, landed, paid, lookupFaults, attempt>>
        /\ \/ job' = [job EXCEPT ![b] = "await"] /\ pool' = [pool EXCEPT ![b] = recs[b]]
           \/ job' = [job EXCEPT ![b] = "look"] /\ pool' = pool
    OBVIOUS
  <2> HIDE SettlementAssumption DEF IInv, Pay, JobAt, GoTo
  <2>2. job' \in [Ids -> JobStates]
    BY <2>1 DEF TypeOK, JobStates
  <2>3. pool' \in [Ids -> SUBSET Requests]
    <3>1. pool \in [Ids -> SUBSET Requests] /\ recs[b] \in SUBSET Requests
      BY <2>1 DEF TypeOK
    <3> QED
      BY <2>1, <3>1
  <2> QED
    BY <2>1, <2>2, <2>3 DEF TypeOK
<1>2. IdsInOrder'
  BY DEF TypeOK, IdsInOrder, Ids, JobStates, Active
<1>3. OpenUnpaid'
  BY DEF TypeOK, OpenUnpaid
<1>4. RecoveryInStep'
  BY DEF TypeOK, RecoveryInStep, Serving
<1>5. RowsInRecs'
  BY DEF TypeOK, RowsInRecs, NoId, Ids
<1>6. Covered'
  <2>1. batchRow[b] \subseteq recs[b]
    BY DEF RowsInRecs
  <2>2. CASE UNCHANGED pool
    BY <2>2 DEF Covered
  <2>3. CASE pool' = [pool EXCEPT ![b] = recs[b]]
    BY <2>1, <2>3 DEF TypeOK, Covered
  <2> QED
    BY <2>2, <2>3
<1>7. OnlyDebts' /\ OnePayoutPerRequest' /\ AuditTruth'
  BY DEF OnlyDebts, OnePayoutPerRequest, AuditTruth, LedgerTruth, RowsTruth
<1> QED
  BY <1>1, <1>2, <1>3, <1>4, <1>5, <1>6, <1>7

(* PayConfirmed preserves the invariant.                                    *)
LEMMA PayConfirmedInv ==
  ASSUME IInv, NEW b \in Ids, PayConfirmed(b)
  PROVE  IInv'
<1> USE SettlementAssumption DEF IInv, PayConfirmed, JobAt, finalizeSettled,
    enqueueWrite, intake, accruing, recovery, store, network
<1>1. TypeOK'
  <2>1. /\ job' \in [Ids -> JobStates] /\ attempt' \in [Ids -> 0 .. Attempts]
        /\ liability' \in [Ids -> {"none", "paying", "stuck"}]
        /\ ledger' \in [Requests -> Status] /\ rows' \in [Requests -> SUBSET Status]
        /\ chain' \in [Operators -> Seq(Writes)]
    BY SettledType
  <2> QED
    BY <2>1 DEF TypeOK
<1>2. IdsInOrder'
  BY DEF TypeOK, IdsInOrder, Ids, JobStates, Active
<1>3. OpenUnpaid'
  BY DEF TypeOK, OpenUnpaid
<1>4. RecoveryInStep'
  BY DEF TypeOK, RecoveryInStep, Serving
<1>5. RowsInRecs'
  BY DEF TypeOK, RowsInRecs, NoId, Ids
<1>6. AuditTruth'
  BY DEF TypeOK, AuditTruth, LedgerTruth, RowsTruth, Covered, IdsInOrder, persistLedger
<1>7. OnlyDebts' /\ OnePayoutPerRequest' /\ Covered'
  BY DEF OnlyDebts, OnePayoutPerRequest, Covered
<1> QED
  BY <1>1, <1>2, <1>3, <1>4, <1>5, <1>6, <1>7

(* PayThrows preserves the invariant.                                       *)
LEMMA PayThrowsInv ==
  ASSUME IInv, NEW b \in Ids, PayThrows(b)
  PROVE  IInv'
<1> USE SettlementAssumption DEF IInv, PayThrows, JobAt, GoTo, intake, accruing,
    recovery, store, network
<1>1. TypeOK'
  BY DEF TypeOK, Phases, Serving, Status, JobStates, NoId, Ids
<1>2. IdsInOrder'
  BY DEF TypeOK, IdsInOrder, Ids, JobStates, Active
<1>3. OpenUnpaid'
  BY DEF TypeOK, IdsInOrder, OpenUnpaid, Ids, NoId
<1>4. RecoveryInStep'
  BY DEF TypeOK, RecoveryInStep, Serving
<1>5. RowsInRecs'
  BY DEF TypeOK, RowsInRecs, NoId, Ids
<1>6. OnlyDebts' /\ OnePayoutPerRequest' /\ Covered' /\ AuditTruth'
  BY DEF OnlyDebts, OnePayoutPerRequest, Covered, AuditTruth, LedgerTruth, RowsTruth
<1> QED
  BY <1>1, <1>2, <1>3, <1>4, <1>5, <1>6

(* LookAfterAttempt preserves the invariant.                                *)
LEMMA LookAfterAttemptInv ==
  ASSUME IInv, NEW b \in Ids, LookAfterAttempt(b)
  PROVE  IInv'
<1> USE SettlementAssumption DEF IInv, LookAfterAttempt, JobAt, findLandedPayout,
    finalizeSettled, GoTo, enqueueWrite, intake, accruing, recovery, store, network
<1>1. TypeOK'
  <2>1. CASE finalizeSettled(b)
    <3>1. /\ job' \in [Ids -> JobStates] /\ attempt' \in [Ids -> 0 .. Attempts]
          /\ liability' \in [Ids -> {"none", "paying", "stuck"}]
          /\ ledger' \in [Requests -> Status] /\ rows' \in [Requests -> SUBSET Status]
          /\ chain' \in [Operators -> Seq(Writes)]
      BY <2>1, SettledType
    <3> QED
      BY <3>1, SMTT(40) DEF TypeOK
  <2>2. CASE GoTo(b, "pay") /\ attempt[b] < Attempts /\ attempt' = [attempt EXCEPT ![b] = @ + 1]
    BY <2>2 DEF TypeOK, JobStates
  <2>3. CASE GoTo(b, "last") /\ UNCHANGED attempt
    BY <2>3 DEF TypeOK, JobStates
  <2> QED
    BY <2>1, <2>2, <2>3
<1>2. IdsInOrder'
  BY DEF TypeOK, IdsInOrder, Ids, JobStates, Active
<1>3. OpenUnpaid'
  BY DEF TypeOK, OpenUnpaid
<1>4. RecoveryInStep'
  BY DEF TypeOK, RecoveryInStep, Serving
<1>5. RowsInRecs'
  BY DEF TypeOK, RowsInRecs, NoId, Ids
<1>6. AuditTruth'
  BY DEF TypeOK, AuditTruth, LedgerTruth, RowsTruth, Covered, IdsInOrder, persistLedger
<1>7. OnlyDebts' /\ OnePayoutPerRequest' /\ Covered'
  BY DEF OnlyDebts, OnePayoutPerRequest, Covered
<1> QED
  BY <1>1, <1>2, <1>3, <1>4, <1>5, <1>6, <1>7

(* LastLook preserves the invariant.                                        *)
LEMMA LastLookInv ==
  ASSUME IInv, NEW b \in Ids, LastLook(b)
  PROVE  IInv'
<1> USE SettlementAssumption DEF IInv, LastLook, JobAt, findLandedPayout,
    finalizeSettled, finalizeFailed, enqueueWrite, intake, accruing, recovery, store,
    network
<1>1. TypeOK'
  <2>1. /\ job' \in [Ids -> JobStates] /\ attempt' \in [Ids -> 0 .. Attempts]
        /\ liability' \in [Ids -> {"none", "paying", "stuck"}]
        /\ ledger' \in [Requests -> Status] /\ rows' \in [Requests -> SUBSET Status]
        /\ chain' \in [Operators -> Seq(Writes)]
    BY SettledType, FailedType DEF TypeOK, JobStates
  <2>2. lookupFaults' \in 0 .. MaxLookupFaults
    BY DEF TypeOK
  <2> QED
    BY <2>1, <2>2 DEF TypeOK
<1>2. IdsInOrder'
  BY DEF TypeOK, IdsInOrder, Ids, JobStates, Active
<1>3. OpenUnpaid'
  BY SMTT(40) DEF TypeOK, OpenUnpaid
<1>4. RecoveryInStep'
  BY DEF TypeOK, RecoveryInStep, Serving
<1>5. RowsInRecs'
  BY DEF TypeOK, RowsInRecs, NoId, Ids
<1>6. AuditTruth'
  <2>1. UNCHANGED paid /\ (b \in landed => \A r \in recs[b] : paid[r] # <<>>)
    BY DEF Covered
  <2>2. \A r \in Requests : /\ ledger'[r] = "settled" => ledger[r] = "settled" \/ paid[r] # <<>>
                            /\ "settled" \in rows'[r] => "settled" \in rows[r] \/ paid[r] # <<>>
    <3>1. CASE b \in landed /\ finalizeSettled(b)
      BY <2>1, <3>1 DEF TypeOK, persistLedger
    <3>2. CASE finalizeFailed(b)
      BY <3>2 DEF TypeOK, persistLedger
    <3> QED
      BY <3>1, <3>2
  <2> QED
    BY <2>1, <2>2 DEF AuditTruth, LedgerTruth, RowsTruth
<1>7. OnlyDebts' /\ OnePayoutPerRequest' /\ Covered'
  BY DEF OnlyDebts, OnePayoutPerRequest, Covered
<1> QED
  BY <1>1, <1>2, <1>3, <1>4, <1>5, <1>6, <1>7

-----------------------------------------------------------------------------
(* The network.                                                             *)

(* Land preserves the invariant.                                            *)
LEMMA LandInv ==
  ASSUME IInv, NEW b \in Ids, Land(b)
  PROVE  IInv'
<1> USE SettlementAssumption DEF IInv, Land, NetworkStep, intake, accruing, payouts,
    recovery, store, history
<1>1. TypeOK'
  <2>1. owner[b] \in Operators
    BY DEF TypeOK, IdsInOrder, Ids
  <2>2. paid' \in [Requests -> Seq(Operators)]
    BY <2>1, AppendNonEmpty DEF TypeOK
  <2> QED
    BY <2>1, <2>2 DEF TypeOK
<1>2. IdsInOrder'
  BY DEF TypeOK, IdsInOrder, Ids, JobStates, Active
<1>3. OpenUnpaid'
  BY DEF TypeOK, IdsInOrder, OpenUnpaid, Ids, NoId
<1>4. Covered'
  <2>1. owner[b] \in Operators
    BY DEF TypeOK, IdsInOrder, Ids
  <2>2. \A r \in Requests : paid[r] # <<>> \/ r \in pool[b] => paid'[r] # <<>>
    BY <2>1, AppendNonEmpty DEF TypeOK
  <2> QED
    BY <2>1, <2>2 DEF TypeOK, Covered
<1>5. AuditTruth'
  <2>1. owner[b] \in Operators
    BY DEF TypeOK, IdsInOrder, Ids
  <2>2. \A r \in Requests : paid[r] # <<>> => paid'[r] # <<>>
    BY <2>1, AppendNonEmpty DEF TypeOK
  <2> QED
    BY <2>1, <2>2 DEF TypeOK, AuditTruth, LedgerTruth, RowsTruth
<1>6. OnlyDebts' /\ OnePayoutPerRequest' /\ RecoveryInStep' /\ RowsInRecs'
  BY DEF OnlyDebts, OnePayoutPerRequest, RecoveryInStep, RowsInRecs
<1> QED
  BY <1>1, <1>2, <1>3, <1>4, <1>5, <1>6

(* Expire preserves the invariant.                                          *)
LEMMA ExpireInv ==
  ASSUME IInv, NEW b \in Ids, Expire(b)
  PROVE  IInv'
<1> USE SettlementAssumption DEF IInv, Expire, NetworkStep, intake, accruing, payouts,
    recovery, store, history
<1>1. TypeOK'
  BY DEF TypeOK, Phases, Serving, Status, JobStates, NoId, Ids
<1>2. IdsInOrder'
  BY DEF TypeOK, IdsInOrder, Ids, JobStates, Active
<1>3. OpenUnpaid'
  BY DEF TypeOK, IdsInOrder, OpenUnpaid, Ids, NoId
<1>4. Covered'
  BY DEF TypeOK, Covered
<1>5. OnlyDebts' /\ OnePayoutPerRequest' /\ RecoveryInStep' /\ RowsInRecs'
  BY DEF OnlyDebts, OnePayoutPerRequest, RecoveryInStep, RowsInRecs
<1>6. AuditTruth'
  BY DEF AuditTruth, LedgerTruth, RowsTruth
<1> QED
  BY <1>1, <1>2, <1>3, <1>4, <1>5, <1>6

(* LeaseEnds preserves the invariant.                                       *)
LEMMA LeaseEndsInv ==
  ASSUME IInv, NEW b \in Ids, LeaseEnds(b)
  PROVE  IInv'
<1> USE SettlementAssumption DEF IInv, LeaseEnds, NetworkStep, intake, accruing,
    payouts, recovery, store, history
<1>1. TypeOK'
  BY DEF TypeOK, Phases, Serving, Status, JobStates, NoId, Ids
<1>2. IdsInOrder'
  BY DEF TypeOK, IdsInOrder, Ids, JobStates, Active
<1>3. OpenUnpaid' /\ OnlyDebts' /\ OnePayoutPerRequest' /\ RecoveryInStep'
  BY DEF OpenUnpaid, OnlyDebts, OnePayoutPerRequest, RecoveryInStep
<1>4. RowsInRecs' /\ Covered' /\ AuditTruth'
  BY DEF RowsInRecs, Covered, AuditTruth, LedgerTruth, RowsTruth
<1> QED
  BY <1>1, <1>2, <1>3, <1>4

-----------------------------------------------------------------------------
(* The end of a process and the recovery of the next.                       *)

(* Shutdown preserves the invariant.                                        *)
LEMMA ShutdownInv ==
  ASSUME IInv, Shutdown
  PROVE  IInv'
<1> USE SettlementAssumption DEF IInv, Shutdown, intake, accruing, payouts, recovery,
    store, network
<1>1. TypeOK'
  BY SMTT(40) DEF TypeOK, Phases, Serving, Status, JobStates, NoId, Ids
<1>2. RecoveryInStep'
  BY DEF TypeOK, RecoveryInStep, Serving
<1>3. IdsInOrder' /\ OpenUnpaid' /\ OnlyDebts' /\ OnePayoutPerRequest'
  BY DEF IdsInOrder, OpenUnpaid, OnlyDebts, OnePayoutPerRequest
<1>4. RowsInRecs' /\ Covered' /\ AuditTruth'
  BY DEF RowsInRecs, Covered, AuditTruth, LedgerTruth, RowsTruth
<1> QED
  BY <1>1, <1>2, <1>3, <1>4

(* Exit preserves the invariant.                                            *)
LEMMA ExitInv ==
  ASSUME IInv, Exit
  PROVE  IInv'
<1> USE SettlementAssumption DEF IInv, Exit, LoseMemory, store, network
<1>1. TypeOK'
  BY DEF TypeOK, Phases, Serving, Status, JobStates, NoId, Ids
<1>2. IdsInOrder'
  BY DEF TypeOK, IdsInOrder, Ids, JobStates, Active
<1>3. OpenUnpaid'
  BY DEF TypeOK, IdsInOrder, OpenUnpaid, Ids, NoId
<1>4. OnlyDebts'
  BY DEF TypeOK, OnlyDebts, Serving
<1>5. OnePayoutPerRequest'
  BY DEF TypeOK, OnePayoutPerRequest, OnlyDebts, IdsInOrder, RecoveryInStep, Ids, Serving
<1>6. RecoveryInStep'
  BY DEF TypeOK, RecoveryInStep, Serving
<1>7. RowsInRecs'
  BY DEF TypeOK, RowsInRecs, NoId, Ids
<1>8. Covered'
  BY DEF TypeOK, Covered
<1>9. AuditTruth'
  BY DEF TypeOK, AuditTruth, LedgerTruth, RowsTruth
<1> QED
  BY <1>1, <1>2, <1>3, <1>4, <1>5, <1>6, <1>7, <1>8, <1>9

(* Crash preserves the invariant.                                           *)
LEMMA CrashInv ==
  ASSUME IInv, Crash
  PROVE  IInv'
<1> USE SettlementAssumption DEF IInv, Crash, LoseMemory, store, network
<1>1. TypeOK'
  BY DEF TypeOK, Phases, Serving, Status, JobStates, NoId, Ids
<1>2. IdsInOrder'
  BY DEF TypeOK, IdsInOrder, Ids, JobStates, Active
<1>3. OpenUnpaid'
  BY DEF TypeOK, IdsInOrder, OpenUnpaid, Ids, NoId
<1>4. OnlyDebts'
  BY DEF TypeOK, OnlyDebts, Serving
<1>5. OnePayoutPerRequest'
  BY DEF TypeOK, OnePayoutPerRequest, OnlyDebts, IdsInOrder, RecoveryInStep, Ids, Serving
<1>6. RecoveryInStep'
  BY DEF TypeOK, RecoveryInStep, Serving
<1>7. RowsInRecs'
  BY DEF TypeOK, RowsInRecs, NoId, Ids
<1>8. Covered'
  BY DEF TypeOK, Covered
<1>9. AuditTruth'
  BY DEF TypeOK, AuditTruth, LedgerTruth, RowsTruth
<1> QED
  BY <1>1, <1>2, <1>3, <1>4, <1>5, <1>6, <1>7, <1>8, <1>9

(* Boot preserves the invariant.                                            *)
LEMMA BootInv ==
  ASSUME IInv, Boot
  PROVE  IInv'
<1> USE SettlementAssumption DEF IInv, Boot, hydrateLedger, accruing, payouts, store, network, history
<1>1. TypeOK'
  BY SMTT(40) DEF TypeOK, Phases, Serving, Status, JobStates, NoId, Ids
<1>2. RecoveryInStep'
  BY DEF TypeOK, RecoveryInStep, Serving
<1>3. IdsInOrder' /\ OpenUnpaid'
  BY DEF IdsInOrder, OpenUnpaid
<1>4. OnlyDebts' /\ OnePayoutPerRequest'
  BY DEF OnlyDebts, OnePayoutPerRequest, RecoveryInStep, TypeOK
<1>5. RowsInRecs' /\ Covered' /\ AuditTruth'
  BY DEF RowsInRecs, Covered, AuditTruth, LedgerTruth, RowsTruth
<1> QED
  BY <1>1, <1>2, <1>3, <1>4, <1>5

(* BootBlind preserves the invariant.                                       *)
LEMMA BootBlindInv ==
  ASSUME IInv, BootBlind
  PROVE  IInv'
<1> USE SettlementAssumption DEF IInv, BootBlind, hydrateLedger, accruing, payouts, recovery, store,
    network
<1>1. TypeOK'
  BY SMTT(40) DEF TypeOK, Phases, Serving, Status, JobStates, NoId, Ids
<1>2. RecoveryInStep'
  BY DEF TypeOK, RecoveryInStep, Serving
<1>3. IdsInOrder' /\ OpenUnpaid'
  BY DEF IdsInOrder, OpenUnpaid
<1>4. OnlyDebts' /\ OnePayoutPerRequest'
  BY DEF OnlyDebts, OnePayoutPerRequest, RecoveryInStep, TypeOK
<1>5. RowsInRecs' /\ Covered' /\ AuditTruth'
  BY DEF RowsInRecs, Covered, AuditTruth, LedgerTruth, RowsTruth
<1> QED
  BY <1>1, <1>2, <1>3, <1>4, <1>5

(* A stored batch that recovery resumes is still whole: nothing before it   *)
(* handled a request of it.                                                 *)
LEMMA RecoverBatchInv ==
  ASSUME IInv, NEW b \in Ids, RecoverBatch(b)
  PROVE  IInv'
<1> DEFINE payable == batchRow[b] \ handled
<1> USE DEF IInv
<1>1. /\ phase = "recovering" /\ b \in todoBatch /\ todoBatch' = todoBatch \ {b}
      /\ UNCHANGED <<phase, batchMin, req, routing, accrual, total, unbatched, openRow,
                     batchRow, pool, lease, landed, paid, debt, ends, storeFaults,
                     loadFaults, lookupFaults, nextId, owner, todoOpen>>
  BY DEF RecoverBatch, Recovering, store, network, history
<1>2. batchRow[b] \cap handled = {} /\ job[b] = "none" /\ payable = batchRow[b]
  BY <1>1 DEF RecoveryInStep
<1>3. CASE dropRecovered(owner[b], "removeBatch", b) /\ payable = {}
  <2>1. UNCHANGED <<claimed, handled, ledger, rows, recs, job, attempt, liability>>
    BY <1>3 DEF dropRecovered
  <2>2. chain' \in [Operators -> Seq(Writes)]
    BY <1>3, WriteType, EnqueueType DEF dropRecovered, enqueueWrite
  <2>3. TypeOK'
    BY <1>1, <2>1, <2>2 DEF TypeOK
  <2>4. RecoveryInStep'
    BY <1>1, <1>2, <1>3, <2>1 DEF RecoveryInStep
  <2>5. IdsInOrder' /\ OpenUnpaid' /\ OnlyDebts' /\ OnePayoutPerRequest'
    BY <1>1, <2>1 DEF IdsInOrder, OpenUnpaid, OnlyDebts, OnePayoutPerRequest
  <2>6. RowsInRecs' /\ Covered' /\ AuditTruth'
    BY <1>1, <2>1 DEF RowsInRecs, Covered, AuditTruth, LedgerTruth, RowsTruth
  <2> QED
    BY <2>3, <2>4, <2>5, <2>6
<1>4. CASE payRecovered(owner[b], b, payable, "putBatch", "check") /\ payable # {}
  <2>1. /\ claimed' = claimed \cup batchRow[b] /\ handled' = handled \cup batchRow[b]
        /\ recs' = [recs EXCEPT ![b] = batchRow[b]]
        /\ job' = [job EXCEPT ![b] = "check"]
        /\ \A r \in Requests : ledger'[r] = "settled" => ledger[r] = "settled"
        /\ \A r \in Requests : "settled" \in rows'[r] => "settled" \in rows[r]
    BY <1>2, <1>4 DEF payRecovered, persistLedger
  <2>2. /\ claimed' \subseteq Requests /\ handled' \subseteq Requests
        /\ ledger' \in [Requests -> Status] /\ rows' \in [Requests -> SUBSET Status]
        /\ recs' \in [Ids -> SUBSET Requests]
        /\ job' \in [Ids -> JobStates]
        /\ attempt' \in [Ids -> 0 .. Attempts]
        /\ liability' \in [Ids -> {"none", "paying", "stuck"}]
        /\ chain' \in [Operators -> Seq(Writes)]
    <3>1. payable \in SUBSET Requests /\ "check" \in JobStates
      BY DEF TypeOK, JobStates
    <3> HIDE DEF payable
    <3> QED
      BY <1>4, <3>1, RecoveredType
  <2>3. TypeOK'
    BY <1>1, <2>2 DEF TypeOK
  <2>4. IdsInOrder'
    BY <1>1, <1>2, <1>4, <2>1 DEF TypeOK, IdsInOrder
  <2>5. OpenUnpaid'
    BY <1>1 DEF RecoveryInStep, OpenUnpaid, Serving
  <2>6. OnlyDebts'
    BY <1>1, <2>1 DEF TypeOK, OnlyDebts
  <2>7. OnePayoutPerRequest'
    BY <1>1, <1>2, <2>1 DEF TypeOK, OnePayoutPerRequest, RecoveryInStep
  <2>8. RecoveryInStep'
    BY <1>1, <1>2, <2>1 DEF TypeOK, OnePayoutPerRequest, RecoveryInStep
  <2>9. RowsInRecs'
    BY <1>1, <2>1 DEF TypeOK, RowsInRecs
  <2>10. Covered'
    BY <1>1, <2>1 DEF TypeOK, Covered
  <2>11. AuditTruth'
    BY <1>1, <2>1 DEF AuditTruth, LedgerTruth, RowsTruth
  <2> QED
    BY <2>3, <2>4, <2>5, <2>6, <2>7, <2>8, <2>9, <2>10, <2>11
<1> QED
  BY <1>3, <1>4 DEF RecoverBatch

(* What recovery pays of an open row is in no payout of the process and in  *)
(* no stored batch, because every batch has been handled before.            *)
LEMMA RecoverOpenInv ==
  ASSUME IInv, NEW o \in Operators, RecoverOpen(o)
  PROVE  IInv'
<1> DEFINE payable == openRow[o] \ handled
<1> USE DEF IInv
<1>1. /\ phase = "recovering" /\ todoBatch = {} /\ todoOpen' = todoOpen \ {o}
      /\ UNCHANGED <<phase, batchMin, req, routing, accrual, total, unbatched, openRow,
                     batchRow, pool, lease, landed, paid, debt, ends, storeFaults,
                     loadFaults, lookupFaults, todoBatch>>
  BY DEF RecoverOpen, Recovering, store, network, history
<1>2. /\ \A b \in Ids : recs[b] \subseteq handled /\ batchRow[b] \subseteq handled
      /\ \A p \in Operators : accrual[p] = NoId
  BY <1>1 DEF RecoveryInStep, Serving
<1>3. CASE dropRecovered(o, "removeOpen", NoId) /\ UNCHANGED <<nextId, owner>>
  <2>1. UNCHANGED <<claimed, handled, ledger, rows, recs, job, attempt, liability>>
    BY <1>3 DEF dropRecovered
  <2>2. chain' \in [Operators -> Seq(Writes)]
    <3>1. [op |-> "removeOpen", id |-> NoId] \in Writes
      BY DEF Writes
    <3> QED
      BY <1>3, <3>1, EnqueueType DEF dropRecovered, enqueueWrite
  <2>3. TypeOK'
    BY <1>1, <1>3, <2>1, <2>2 DEF TypeOK
  <2>4. RecoveryInStep'
    BY <1>1, <2>1 DEF RecoveryInStep
  <2>5. IdsInOrder' /\ OpenUnpaid' /\ OnlyDebts' /\ OnePayoutPerRequest'
    BY <1>1, <1>3, <2>1 DEF IdsInOrder, OpenUnpaid, OnlyDebts, OnePayoutPerRequest
  <2>6. RowsInRecs' /\ Covered' /\ AuditTruth'
    BY <1>1, <2>1 DEF RowsInRecs, Covered, AuditTruth, LedgerTruth, RowsTruth
  <2> QED
    BY <2>3, <2>4, <2>5, <2>6
<1>4. CASE /\ nextId \in Ids /\ nextId' = nextId + 1
           /\ owner' = [owner EXCEPT ![nextId] = o]
           /\ payRecovered(o, nextId, payable, "promote", "pay")
  (* The fresh id is clean, and nothing the process holds or has stored as *)
  (* a batch is left among what the open row has to pay.                   *)
  <2>1. /\ recs[nextId] = {} /\ batchRow[nextId] = {} /\ pool[nextId] = {}
        /\ nextId \notin landed /\ payable \cap handled = {}
        /\ \A r \in payable : r \in Requests /\ debt[r] # None
    BY <1>4 DEF TypeOK, IdsInOrder, OnlyDebts
  <2>2. /\ claimed' = claimed \cup payable /\ handled' = handled \cup payable
        /\ recs' = [recs EXCEPT ![nextId] = payable]
        /\ job' = [job EXCEPT ![nextId] = "pay"]
        /\ \A r \in Requests : ledger'[r] = "settled" => ledger[r] = "settled"
        /\ \A r \in Requests : "settled" \in rows'[r] => "settled" \in rows[r]
    BY <1>4 DEF payRecovered, persistLedger
  <2>3. /\ claimed' \subseteq Requests /\ handled' \subseteq Requests
        /\ ledger' \in [Requests -> Status] /\ rows' \in [Requests -> SUBSET Status]
        /\ recs' \in [Ids -> SUBSET Requests]
        /\ job' \in [Ids -> JobStates]
        /\ attempt' \in [Ids -> 0 .. Attempts]
        /\ liability' \in [Ids -> {"none", "paying", "stuck"}]
        /\ chain' \in [Operators -> Seq(Writes)]
    <3>1. payable \in SUBSET Requests /\ "pay" \in JobStates
      BY DEF TypeOK, JobStates
    <3> HIDE DEF payable
    <3> QED
      BY <1>4, <3>1, RecoveredType
  <2> HIDE DEF payable
  <2>4. TypeOK'
    <3>1. nextId' \in 1 .. MaxPayouts + 1
      BY <1>4, SettlementAssumption DEF Ids
    <3>2. owner' \in [Ids -> Operators \cup {None}]
      BY <1>4 DEF TypeOK
    <3> QED
      BY <1>1, <2>3, <3>1, <3>2 DEF TypeOK
  <2>5. IdsInOrder'
    BY <1>1, <1>4, <2>2 DEF TypeOK, IdsInOrder, Ids
  <2>6. OpenUnpaid'
    BY <1>1, <1>2 DEF OpenUnpaid
  <2>7. OnlyDebts'
    BY <1>1, <2>1, <2>2, <1>4 DEF TypeOK, OnlyDebts
  <2>8. OnePayoutPerRequest'
    BY <1>1, <1>2, <1>4, <2>1, <2>2, SMTT(40) DEF TypeOK, OnePayoutPerRequest
  <2>9. RecoveryInStep'
    BY <1>1, <1>2, <1>4, <2>2 DEF TypeOK, RecoveryInStep
  <2>10. RowsInRecs'
    BY <1>1, <1>2, <1>4, <2>1, <2>2 DEF TypeOK, RowsInRecs, Ids, NoId
  <2>11. Covered'
    BY <1>1, <1>4, <2>1, <2>2 DEF TypeOK, Covered
  <2>12. AuditTruth'
    BY <1>1, <2>2 DEF AuditTruth, LedgerTruth, RowsTruth
  <2> QED
    BY <2>4, <2>5, <2>6, <2>7, <2>8, <2>9, <2>10, <2>11, <2>12
<1> QED
  BY <1>3, <1>4 DEF RecoverOpen

(* Listen preserves the invariant.                                          *)
LEMMA ListenInv ==
  ASSUME IInv, Listen
  PROVE  IInv'
<1> USE SettlementAssumption DEF IInv, Listen, intake, accruing, payouts, store,
    network, history
<1>1. TypeOK'
  BY DEF TypeOK, Phases, Serving, Status, JobStates, NoId, Ids
<1>2. RecoveryInStep'
  BY DEF TypeOK, RecoveryInStep, Serving
<1>3. IdsInOrder' /\ OpenUnpaid' /\ OnlyDebts' /\ OnePayoutPerRequest'
  BY DEF IdsInOrder, OpenUnpaid, OnlyDebts, OnePayoutPerRequest
<1>4. RowsInRecs' /\ Covered' /\ AuditTruth'
  BY DEF RowsInRecs, Covered, AuditTruth, LedgerTruth, RowsTruth
<1> QED
  BY <1>1, <1>2, <1>3, <1>4

-----------------------------------------------------------------------------
(* A gateway that starts on an empty store satisfies the invariant.         *)
LEMMA InitInv == Init => IInv
<1> SUFFICES ASSUME Init PROVE IInv
  OBVIOUS
<1> USE SettlementAssumption DEF Init, IInv
<1>1. TypeOK
  <2>1. nextId \in 1 .. MaxPayouts + 1 /\ 0 \in 0 .. Attempts
    OBVIOUS
  <2>2. /\ ends \in 0 .. MaxEnds /\ storeFaults \in 0 .. MaxStoreFaults
        /\ loadFaults \in 0 .. MaxLoadFaults /\ lookupFaults \in 0 .. MaxLookupFaults
    OBVIOUS
  <2>3. chain \in [Operators -> Seq(Writes)] /\ paid \in [Requests -> Seq(Operators)]
    OBVIOUS
  <2> QED
    BY <2>1, <2>2, <2>3 DEF TypeOK, Phases, Serving, Status, JobStates, NoId
<1>2. IdsInOrder
  BY DEF IdsInOrder, Ids
<1>3. OpenUnpaid /\ OnlyDebts /\ OnePayoutPerRequest
  BY DEF OpenUnpaid, OnlyDebts, OnePayoutPerRequest
<1>4. RecoveryInStep /\ RowsInRecs /\ Covered /\ AuditTruth
  BY DEF RecoveryInStep, RowsInRecs, Covered, AuditTruth, LedgerTruth, RowsTruth, Serving
<1> QED
  BY <1>1, <1>2, <1>3, <1>4

(* One step per action of the settlement service.                           *)
LEMMA NextInv == IInv /\ [Next]_vars => IInv'
<1> SUFFICES ASSUME IInv, [Next]_vars PROVE IInv'
  OBVIOUS
<1>1. ASSUME NEW r \in Requests, NEW o \in Operators, RecordRouting(r, o) PROVE IInv'
  BY <1>1, RecordRoutingInv
<1>2. ASSUME NEW r \in Requests, SettleInbound(r) PROVE IInv'
  BY <1>2, SettleDuplicateInv, SettleNothingOwedInv, SettleUnbatchedInv, SettleAccruedInv
     DEF SettleInbound
<1>3. ASSUME NEW o \in Operators, Deadline(o) PROVE IInv'
  <2>1. {o} \in SUBSET Operators /\ \A p \in {o} : accrual[p] # NoId
    BY <1>3 DEF Deadline
  <2> QED
    BY <1>3, <2>1, FlushInv DEF Deadline
<1>4. ASSUME NEW o \in Operators, StoreStep(o) \/ WriteFails(o) PROVE IInv'
  BY <1>4, PutOpenInv, PromoteInv, PutBatchInv, RemoveOpenInv, RemoveBatchInv, WriteFailsInv
     DEF StoreStep
<1>5. ASSUME NEW b \in Ids, JobStep(b) PROVE IInv'
  BY <1>5, CheckLandedFirstInv, PayInv, PayConfirmedInv, PayThrowsInv, LookAfterAttemptInv,
     LastLookInv DEF JobStep
<1>6. ASSUME NEW b \in Ids, ChainStep(b) PROVE IInv'
  BY <1>6, LandInv, ExpireInv, LeaseEndsInv DEF ChainStep
<1>7. CASE FlushPayouts
  <2>1. /\ Accruing \in SUBSET Operators /\ \A p \in Accruing : accrual[p] # NoId
        /\ phase \in Serving /\ phase' \in Serving
    BY <1>7 DEF FlushPayouts, Accruing, Serving
  <2> QED
    BY <1>7, <2>1, FlushInv DEF FlushPayouts
<1>8. CASE Shutdown \/ Exit \/ Crash \/ BootBlind
  BY <1>8, ShutdownInv, ExitInv, CrashInv, BootBlindInv
<1>9. CASE RecoveryStep
  BY <1>9, BootInv, RecoverBatchInv, RecoverOpenInv, ListenInv DEF RecoveryStep
<1>10. CASE UNCHANGED vars
  <2> USE <1>10 DEF vars, intake, accruing, payouts, recovery, store, network, history
  <2>1. TypeOK'
    BY DEF IInv, TypeOK
  <2>2. IdsInOrder' /\ OpenUnpaid' /\ OnlyDebts' /\ OnePayoutPerRequest'
    BY DEF IInv, IdsInOrder, OpenUnpaid, OnlyDebts, OnePayoutPerRequest
  <2>3. RecoveryInStep' /\ RowsInRecs' /\ Covered' /\ AuditTruth'
    BY DEF IInv, RecoveryInStep, RowsInRecs, Covered, AuditTruth, LedgerTruth, RowsTruth
  <2> QED
    BY <2>1, <2>2, <2>3 DEF IInv
<1> QED
  BY <1>1, <1>2, <1>3, <1>4, <1>5, <1>6, <1>7, <1>8, <1>9, <1>10 DEF Next

(* The strengthened invariant holds in every state the gateway reaches.     *)
THEOREM Inductive == Spec => []IInv
BY InitInv, NextInv, PTL DEF Spec

(* Every variable keeps its type: no write names an unused payout id, no    *)
(* attempt counter passes RetryPolicy.attempts, no balance is negative.     *)
THEOREM TypeCorrect == Spec => []TypeOK
<1>1. IInv => TypeOK
  BY DEF IInv
<1> QED
  BY <1>1, Inductive, PTL

(* settleInbound, flushAccrual and recoverAccruals never put a request into *)
(* two payouts, in memory or in the store, whatever fails.                  *)
THEOREM NoRequestInTwoPayouts == Spec => []OnePayoutPerRequest
<1>1. IInv => OnePayoutPerRequest
  BY DEF IInv
<1> QED
  BY <1>1, Inductive, PTL

(* finalizeSettled is reached only for what is on chain: the audit ledger   *)
(* never says settled of a request whose operator was owed and not paid.    *)
THEOREM SettledMeansPaid == Spec => []LedgerTruth
<1>1. IInv => LedgerTruth
  BY DEF IInv, AuditTruth
<1> QED
  BY <1>1, Inductive, PTL
-----------------------------------------------------------------------------
(* getPendingPayouts.  What it reports is the mirror of the unpaid batches  *)
(* and the open accruals, kept in step with the ledger by every part of the *)
(* service.                                                                 *)

Open(b) == \E o \in Operators : accrual[o] = b

(* A payout of a request of its own is no accrual, and recovery makes none  *)
(* of them; a payout or an accrual that holds requests has a job or is open.*)
HeldInOrder ==
    /\ \A b \in unbatched : b < nextId /\ ~Open(b)
    /\ \A b \in Ids : recs[b] # {} => job[b] # "none" \/ Open(b)
    /\ phase \notin Serving => unbatched = {}

(* A batched request has been settled by this process exactly when its      *)
(* accrual has been closed and its batch is no longer a liability.          *)
Mirrored ==
    \A b \in Ids \ unbatched : \A r \in recs[b] :
        job[b] = "done" /\ ledger[r] = "settled" <=> liability[b] = "none" /\ ~Open(b)

ReportInv == HeldInOrder /\ Mirrored

(* Steps that touch neither the requests held nor the mirror.               *)
LEMMA ReportKept ==
  ASSUME ReportInv, UNCHANGED <<nextId, ledger, recs, unbatched, liability, accrual>>,
         \A b \in Ids : /\ job[b] # "none" => job'[b] # "none"
                        /\ job'[b] = "done" <=> job[b] = "done",
         phase' \notin Serving => phase \notin Serving
  PROVE  ReportInv'
<1>1. \A b : Open(b)' <=> Open(b)
  BY DEF Open
<1>2. HeldInOrder'
  BY <1>1 DEF ReportInv, HeldInOrder
<1>3. Mirrored'
  BY <1>1 DEF ReportInv, Mirrored
<1> QED
  BY <1>2, <1>3 DEF ReportInv

(* The next id has held nothing yet.                                        *)
LEMMA FreshId ==
  ASSUME IInv, ReportInv, nextId \in Ids
  PROVE  recs[nextId] = {} /\ job[nextId] = "none" /\ ~Open(nextId) /\ nextId \notin unbatched
<1>1. nextId \in Nat /\ ~(nextId < nextId) /\ nextId >= nextId /\ nextId # NoId
  BY DEF Ids, NoId
<1>2. recs[nextId] = {} /\ job[nextId] = "none"
  BY <1>1 DEF IInv, IdsInOrder
<1>3. nextId \notin unbatched
  BY <1>1 DEF ReportInv, HeldInOrder
<1>4. \A o \in Operators : accrual[o] # nextId
  BY <1>1 DEF IInv, OpenUnpaid
<1> QED
  BY <1>2, <1>3, <1>4 DEF Open

(* A request to which nothing is owed is not reported.                      *)
LEMMA ReportNothingOwed ==
  ASSUME IInv, ReportInv, NEW r \in Requests, SettleNothingOwed(r)
  PROVE  ReportInv'
<1>1. /\ UNCHANGED <<nextId, recs, job, unbatched, liability, accrual>>
      /\ r \notin claimed
      /\ ledger' = [ledger EXCEPT ![r] = "settled"]
      /\ phase' = phase
  BY DEF SettleNothingOwed, Claim, accruing, payouts
<1>2. \A b : Open(b)' <=> Open(b)
  BY <1>1 DEF Open
<1>3. \A b \in Ids : r \notin recs[b]
  BY <1>1 DEF IInv, OnePayoutPerRequest
<1>4. HeldInOrder'
  BY <1>1, <1>2 DEF ReportInv, HeldInOrder
<1>5. Mirrored'
  <2>1. \A b \in Ids : \A q \in recs[b] : ledger'[q] = ledger[q]
    BY <1>1, <1>3 DEF IInv, TypeOK
  <2> QED
    BY <1>1, <1>2, <2>1 DEF ReportInv, Mirrored
<1> QED
  BY <1>4, <1>5 DEF ReportInv

(* An unbatched payout is not in the batch report.                          *)
LEMMA ReportUnbatched ==
  ASSUME IInv, ReportInv, NEW r \in Requests, SettleUnbatched(r)
  PROVE  ReportInv'
<1>1. /\ UNCHANGED <<liability, accrual>> /\ nextId \in Ids /\ nextId' = nextId + 1
      /\ recs' = [recs EXCEPT ![nextId] = {r}] /\ job' = [job EXCEPT ![nextId] = "pay"]
      /\ unbatched' = unbatched \cup {nextId}
      /\ r \notin claimed
      /\ ledger' = [ledger EXCEPT ![r] = "pending"]
      /\ phase \in Serving /\ phase' = phase
  BY DEF SettleUnbatched, Claim
<1>2. \A b : Open(b)' <=> Open(b)
  BY <1>1 DEF Open
<1>3. \A b \in Ids : r \notin recs[b]
  BY <1>1 DEF IInv, OnePayoutPerRequest
<1>4. /\ ledger \in [Requests -> Status] /\ recs \in [Ids -> SUBSET Requests]
      /\ job \in [Ids -> JobStates] /\ unbatched \subseteq Ids
  BY DEF IInv, TypeOK
<1>5. recs[nextId] = {} /\ ~Open(nextId) /\ nextId \notin unbatched
  BY <1>1, FreshId
<1>6. HeldInOrder'
  <2>1. \A b \in unbatched' : b < nextId' /\ ~Open(b)'
    BY <1>1, <1>2, <1>4, <1>5 DEF ReportInv, HeldInOrder, Ids
  <2>2. \A b \in Ids : recs'[b] # {} => job'[b] # "none" \/ Open(b)'
    BY <1>1, <1>2, <1>4 DEF ReportInv, HeldInOrder
  <2> QED
    BY <1>1, <2>1, <2>2 DEF HeldInOrder
<1>7. Mirrored'
  <2>1. \A b \in Ids \ unbatched' :
           /\ b \in Ids \ unbatched /\ recs'[b] = recs[b] /\ job'[b] = job[b]
           /\ \A q \in recs[b] : ledger'[q] = ledger[q]
    BY <1>1, <1>3, <1>4
  <2> QED
    BY <1>1, <1>2, <2>1 DEF ReportInv, Mirrored
<1> QED
  BY <1>6, <1>7 DEF ReportInv

(* The record joins an accrual that is open, or opens one; either way its   *)
(* id is reported, as an accrual or as a liability.                         *)
LEMMA ReportAccrued ==
  ASSUME IInv, ReportInv, NEW r \in Requests, SettleAccrued(r)
  PROVE  ReportInv'
<1>0. PICK o \in Operators, b \in Ids :
          o = routing[r] /\ b = IF accrual[o] = NoId THEN nextId ELSE accrual[o]
  BY DEF SettleAccrued, Claim, IInv, TypeOK
<1>1. /\ unbatched' = unbatched
      /\ r \notin claimed
      /\ recs' = [recs EXCEPT ![b] = @ \cup {r}]
      /\ ledger' = [ledger EXCEPT ![r] = "accrued"]
      /\ phase \in Serving /\ phase' = phase
  BY <1>0 DEF SettleAccrued, Claim
<1>2. \A c \in Ids : r \notin recs[c]
  BY <1>1 DEF IInv, OnePayoutPerRequest
<1>3. /\ ledger \in [Requests -> Status] /\ recs \in [Ids -> SUBSET Requests]
      /\ job \in [Ids -> JobStates] /\ liability \in [Ids -> {"none", "paying", "stuck"}]
      /\ accrual \in [Operators -> Ids \cup {NoId}] /\ nextId \in Nat
  BY DEF IInv, TypeOK
(* Nobody holds b but o, and it is not being paid. *)
<1>4. /\ b \notin unbatched /\ nextId <= nextId' /\ nextId' \in Nat
      /\ \A p \in Operators \ {o} : accrual[p] # b
      /\ job[b] = "none"
  <2>1. CASE accrual[o] = NoId
    <3>1. b = nextId /\ nextId' = nextId + 1
      BY <1>0, <2>1 DEF SettleAccrued
    <3> QED
      BY <1>1, <1>3, <3>1, FreshId DEF Open
  <2>2. CASE accrual[o] # NoId
    <3>1. b = accrual[o] /\ nextId' = nextId
      BY <1>0, <2>2 DEF SettleAccrued
    <3>2. Open(b) /\ b \notin unbatched
      BY <1>1, <3>1 DEF Open, ReportInv, HeldInOrder
    <3>3. job[b] = "none" /\ \A p \in Operators \ {o} : accrual[p] # b
      BY <1>1, <2>2, <3>1 DEF IInv, OpenUnpaid
    <3> QED
      BY <1>1, <1>3, <3>1, <3>2, <3>3
  <2> QED
    BY <2>1, <2>2
(* What the step makes of b: still open, or a liability. *)
<1>5. /\ \A p \in Operators \ {o} : accrual'[p] = accrual[p]
      /\ \A c \in Ids \ {b} : liability'[c] = liability[c] /\ job'[c] = job[c]
      /\ job'[b] # "done"
      /\ \/ accrual'[o] = b
         \/ accrual'[o] = NoId /\ job'[b] = "pay" /\ liability'[b] = "paying"
  <2> DEFINE open == [accrual EXCEPT ![o] = b]
  <2>1. open[o] = b /\ \A p \in Operators \ {o} : open[p] = accrual[p]
    BY <1>1, <1>3
  <2>2. CASE flushAccrual(open, {o})
    <3> HIDE DEF open
    <3>1. {open[p] : p \in {o}} = {b}
      BY <2>1
    <3> QED
      BY <1>1, <1>3, <2>1, <2>2, <3>1 DEF flushAccrual
  <2>3. CASE accrual' = open /\ UNCHANGED <<job, liability>>
    BY <1>4, <2>1, <2>3
  <2> QED
    BY <1>0, <2>2, <2>3 DEF SettleAccrued
<1>6. \A c \in Ids \ {b} : Open(c)' <=> Open(c)
  <2>1. ASSUME NEW c \in Ids \ {b}, Open(c) PROVE Open(c)'
    <3>1. PICK p \in Operators : accrual[p] = c
      BY <2>1 DEF Open
    <3>2. CASE p # o
      BY <1>5, <3>1, <3>2 DEF Open
    <3>3. CASE p = o
      BY <1>0, <2>1, <3>1, <3>3 DEF NoId, Ids
    <3> QED
      BY <3>2, <3>3
  <2>2. ASSUME NEW c \in Ids \ {b}, Open(c)' PROVE Open(c)
    BY <1>1, <1>5, <2>2 DEF Open, Ids, NoId
  <2> QED
    BY <2>1, <2>2
<1>7. ~(liability'[b] = "none" /\ ~Open(b)') /\ (job'[b] # "none" \/ Open(b)')
  BY <1>1, <1>5 DEF Open
<1>8. HeldInOrder'
  <2>1. \A c \in unbatched : c \in Ids /\ c # b /\ c < nextId /\ ~Open(c)
    BY <1>4 DEF ReportInv, HeldInOrder, IInv, TypeOK
  <2>2. \A c \in unbatched' : c < nextId' /\ ~Open(c)'
    BY <1>1, <1>3, <1>4, <1>6, <2>1 DEF Ids
  <2>3. \A c \in Ids : recs'[c] # {} => job'[c] # "none" \/ Open(c)'
    BY <1>1, <1>3, <1>5, <1>6, <1>7 DEF ReportInv, HeldInOrder
  <2> QED
    BY <1>1, <2>2, <2>3 DEF HeldInOrder
<1>9. Mirrored'
  <2>1. ASSUME NEW c \in Ids \ unbatched, NEW q \in recs'[c], c # b
        PROVE  job'[c] = "done" /\ ledger'[q] = "settled"
                 <=> liability'[c] = "none" /\ ~Open(c)'
    <3>1. q \in recs[c] /\ q # r /\ ledger'[q] = ledger[q]
      BY <1>1, <1>2, <1>3, <2>1
    <3> QED
      BY <1>5, <1>6, <2>1, <3>1 DEF ReportInv, Mirrored
  <2> QED
    BY <1>1, <1>5, <1>7, <2>1 DEF Mirrored
<1> QED
  BY <1>8, <1>9 DEF ReportInv

(* An accrual that becomes a payout becomes a liability in the same turn.   *)
LEMMA ReportFlush ==
  ASSUME IInv, ReportInv, NEW S \in SUBSET Operators, \A o \in S : accrual[o] # NoId,
         flushAccrual(accrual, S), phase \in Serving, phase' \in Serving,
         UNCHANGED <<ledger, nextId, recs, unbatched>>
  PROVE  ReportInv'
<1> DEFINE batches == {accrual[o] : o \in S}
<1>1. /\ accrual \in [Operators -> Ids \cup {NoId}] /\ job \in [Ids -> JobStates]
      /\ liability \in [Ids -> {"none", "paying", "stuck"}] /\ unbatched \subseteq Ids
  BY DEF IInv, TypeOK
<1>2. /\ \A o \in Operators : accrual'[o] = IF o \in S THEN NoId ELSE accrual[o]
      /\ \A b \in Ids : job'[b] = IF b \in batches THEN "pay" ELSE job[b]
      /\ \A b \in Ids : liability'[b] = IF b \in batches THEN "paying" ELSE liability[b]
  BY DEF flushAccrual
<1>3. \A b \in Ids : Open(b)' => Open(b)
  BY <1>2 DEF Open, NoId, Ids
<1>4. \A b \in Ids : Open(b) => Open(b)' \/ b \in batches
  BY <1>2 DEF Open
<1>5. \A b \in batches : Open(b)
  BY DEF Open
<1> HIDE DEF batches
<1>6. HeldInOrder'
  BY <1>1, <1>2, <1>3, <1>4, <1>5 DEF ReportInv, HeldInOrder
<1>7. Mirrored'
  BY <1>1, <1>2, <1>3, <1>4, <1>5 DEF ReportInv, Mirrored
<1> QED
  BY <1>6, <1>7 DEF ReportInv

(* A payout that ends takes its mirror entry, or marks it, and its records  *)
(* with it.                                                                 *)
LEMMA ReportFinal ==
  ASSUME IInv, ReportInv, NEW b \in Ids, job[b] \in Active,
         finalizeSettled(b) \/ finalizeFailed(b),
         UNCHANGED <<phase, nextId, recs, unbatched, accrual>>
  PROVE  ReportInv'
<1>1. /\ ledger \in [Requests -> Status] /\ recs \in [Ids -> SUBSET Requests]
      /\ job \in [Ids -> JobStates] /\ liability \in [Ids -> {"none", "paying", "stuck"}]
  BY DEF IInv, TypeOK
<1>2. \A c : Open(c)' <=> Open(c)
  BY DEF Open
<1>3. ~Open(b)
  BY DEF Open, IInv, OpenUnpaid, NoId, Ids, Active
<1>4. /\ \A c \in Ids : c # b => job'[c] = job[c] /\ liability'[c] = liability[c]
      /\ job'[b] = "done"
      /\ \A q \in Requests : q \notin recs[b] => ledger'[q] = ledger[q]
  BY <1>1 DEF finalizeSettled, finalizeFailed
<1>5. ASSUME b \notin unbatched
      PROVE  \A q \in recs[b] : ledger'[q] = "settled" <=> liability'[b] = "none"
  BY <1>1, <1>5 DEF finalizeSettled, finalizeFailed
<1>6. HeldInOrder'
  BY <1>2, <1>4 DEF ReportInv, HeldInOrder
<1>7. ASSUME NEW c \in Ids \ unbatched, NEW q \in recs[c]
      PROVE  job'[c] = "done" /\ ledger'[q] = "settled"
               <=> liability'[c] = "none" /\ ~Open(c)'
  <2>1. CASE c = b
    BY <1>2, <1>3, <1>4, <1>5, <1>7, <2>1
  <2>2. CASE c # b
    <3>1. q \in Requests /\ q \notin recs[b]
      BY <1>1, <1>7, <2>2 DEF IInv, OnePayoutPerRequest
    <3> QED
      BY <1>2, <1>4, <1>7, <2>2, <3>1 DEF ReportInv, Mirrored
  <2> QED
    BY <2>1, <2>2
<1> QED
  BY <1>6, <1>7 DEF ReportInv, Mirrored

(* The steps of a payout.                                                   *)
LEMMA ReportJob ==
  ASSUME IInv, ReportInv, NEW b \in Ids, JobStep(b)
  PROVE  ReportInv'
<1>1. UNCHANGED <<phase, nextId, recs, unbatched, accrual>> /\ job[b] \in Active
  BY DEF JobStep, CheckLandedFirst, Pay, PayConfirmed, PayThrows, LookAfterAttempt, LastLook,
         JobAt, intake, accruing, recovery, Active
<1>2. \/ finalizeSettled(b) \/ finalizeFailed(b)
      \/ \E state \in Active : GoTo(b, state)
  BY DEF JobStep, CheckLandedFirst, Pay, PayConfirmed, PayThrows, LookAfterAttempt, LastLook,
         Active
<1>3. CASE finalizeSettled(b) \/ finalizeFailed(b)
  BY <1>1, <1>3, ReportFinal
<1>4. CASE \E state \in Active : GoTo(b, state)
  <2>1. \A c \in Ids : /\ job[c] # "none" => job'[c] # "none"
                       /\ job'[c] = "done" <=> job[c] = "done"
    BY <1>1, <1>4 DEF GoTo, IInv, TypeOK, Active
  <2> QED
    BY <1>1, <1>4, <2>1, ReportKept DEF GoTo
<1> QED
  BY <1>2, <1>3, <1>4

(* A process that has ended holds nothing, and neither does one that has    *)
(* only just booted.                                                        *)
LEMMA ReportEmpty ==
  ASSUME IInv, ReportInv, Exit \/ Crash \/ Boot \/ BootBlind
  PROVE  ReportInv'
<1>1. (\A b \in Ids : recs'[b] = {}) /\ unbatched' = {}
  <2>1. CASE Exit \/ Crash
    BY <2>1 DEF Exit, Crash, LoseMemory
  <2>2. CASE Boot \/ BootBlind
    BY <2>2 DEF Boot, BootBlind, payouts, IInv, RecoveryInStep, ReportInv, HeldInOrder, Serving
  <2> QED
    BY <2>1, <2>2
<1> QED
  BY <1>1 DEF ReportInv, HeldInOrder, Mirrored

(* A recovered payout is a liability from the start.                        *)
LEMMA ReportRecovered ==
  ASSUME IInv, ReportInv, phase = "recovering", phase' = phase, NEW b \in Ids, NEW o,
         NEW payable \in SUBSET Requests, payable \cap handled = {}, recs[b] = {},
         NEW write, NEW start \in Active, payRecovered(o, b, payable, write, start),
         nextId <= nextId', nextId' \in Nat, UNCHANGED <<unbatched, accrual>>
  PROVE  ReportInv'
<1>1. /\ ledger \in [Requests -> Status] /\ recs \in [Ids -> SUBSET Requests] /\ nextId \in Nat
      /\ job \in [Ids -> JobStates] /\ liability \in [Ids -> {"none", "paying", "stuck"}]
  BY DEF IInv, TypeOK
<1>2. /\ recs' = [recs EXCEPT ![b] = payable] /\ job' = [job EXCEPT ![b] = start]
      /\ liability' = [liability EXCEPT ![b] = "paying"]
      /\ ledger' = [r \in Requests |->
                      IF r \in payable /\ ledger[r] = "none" THEN "pending" ELSE ledger[r]]
  BY DEF payRecovered
<1>3. \A c : Open(c)' <=> Open(c)
  BY DEF Open
<1>4. unbatched = {} /\ \A c \in Ids : recs[c] \subseteq handled
  BY DEF ReportInv, HeldInOrder, IInv, RecoveryInStep, Serving
<1>5. HeldInOrder'
  BY <1>1, <1>2, <1>3, <1>4 DEF ReportInv, HeldInOrder, Active
<1>6. ASSUME NEW c \in Ids \ unbatched, NEW q \in recs'[c]
      PROVE  job'[c] = "done" /\ ledger'[q] = "settled"
               <=> liability'[c] = "none" /\ ~Open(c)'
  <2>1. CASE c = b
    BY <1>1, <1>2, <2>1 DEF Active
  <2>2. CASE c # b
    <3>1. q \in recs[c] /\ q \notin payable /\ q \in Requests
      BY <1>1, <1>2, <1>4, <1>6, <2>2
    <3> QED
      BY <1>1, <1>2, <1>3, <1>6, <2>2, <3>1 DEF ReportInv, Mirrored
  <2> QED
    BY <2>1, <2>2
<1> QED
  BY <1>5, <1>6 DEF ReportInv, Mirrored

(* Recovery mirrors what it resumes.                                        *)
LEMMA ReportRecovery ==
  ASSUME IInv, ReportInv, RecoveryStep
  PROVE  ReportInv'
<1>1. CASE Listen
  <2>1. /\ UNCHANGED <<nextId, ledger, recs, unbatched, liability, accrual, job>>
        /\ phase' \in Serving
    BY <1>1 DEF Listen, accruing, payouts, Serving
  <2> QED
    BY <2>1, ReportKept
<1>2. ASSUME NEW b \in Ids, RecoverBatch(b) PROVE ReportInv'
  <2> DEFINE payable == batchRow[b] \ handled
  <2>1. /\ phase = "recovering" /\ b \in todoBatch
        /\ UNCHANGED <<phase, accrual, unbatched, nextId>>
    BY <1>2 DEF RecoverBatch, Recovering
  <2>2. CASE dropRecovered(owner[b], "removeBatch", b)
    <3>1. UNCHANGED <<ledger, recs, job, liability>>
      BY <2>2 DEF dropRecovered
    <3> QED
      BY <2>1, <3>1, ReportKept
  <2>3. CASE payRecovered(owner[b], b, payable, "putBatch", "check")
    <3>1. recs[b] = {}
      BY <2>1 DEF IInv, RecoveryInStep, ReportInv, HeldInOrder, Open, Serving, NoId, Ids
    <3>2. payable \in SUBSET Requests /\ payable \cap handled = {} /\ "check" \in Active
      BY DEF IInv, TypeOK, Active
    <3>3. nextId' \in Nat /\ nextId <= nextId'
      BY <2>1 DEF IInv, TypeOK
    <3> HIDE DEF payable
    <3> QED
      BY <2>1, <2>3, <3>1, <3>2, <3>3, ReportRecovered
  <2> QED
    BY <1>2, <2>2, <2>3 DEF RecoverBatch
<1>3. ASSUME NEW o \in Operators, RecoverOpen(o) PROVE ReportInv'
  <2> DEFINE payable == openRow[o] \ handled
  <2>1. phase = "recovering" /\ UNCHANGED <<phase, accrual, unbatched>>
    BY <1>3 DEF RecoverOpen, Recovering
  <2>2. CASE dropRecovered(o, "removeOpen", NoId) /\ UNCHANGED <<nextId, owner>>
    <3>1. UNCHANGED <<ledger, recs, job, liability>>
      BY <2>2 DEF dropRecovered
    <3> QED
      BY <2>1, <2>2, <3>1, ReportKept
  <2>3. CASE /\ nextId \in Ids /\ nextId' = nextId + 1
             /\ payRecovered(o, nextId, payable, "promote", "pay")
    <3>1. PICK b \in Ids : b = nextId
      BY <2>3
    <3>2. recs[b] = {} /\ payRecovered(o, b, payable, "promote", "pay")
      BY <2>3, <3>1, FreshId
    <3>3. payable \in SUBSET Requests /\ payable \cap handled = {} /\ "pay" \in Active
      BY DEF IInv, TypeOK, Active
    <3>4. nextId' \in Nat /\ nextId <= nextId'
      BY <2>3 DEF IInv, TypeOK
    <3> HIDE DEF payable
    <3> QED
      BY <2>1, <3>2, <3>3, <3>4, ReportRecovered
  <2> QED
    BY <1>3, <2>2, <2>3 DEF RecoverOpen
<1> QED
  BY <1>1, <1>2, <1>3, ReportEmpty DEF RecoveryStep

(* Every step keeps the report in step with the ledger.                     *)
LEMMA ReportNext == IInv /\ ReportInv /\ [Next]_vars => ReportInv'
<1> SUFFICES ASSUME IInv, ReportInv, [Next]_vars PROVE ReportInv'
  OBVIOUS
<1>1. ASSUME NEW r \in Requests, NEW o \in Operators, RecordRouting(r, o) PROVE ReportInv'
  <2>1. UNCHANGED <<phase, nextId, ledger, recs, unbatched, liability, accrual, job>>
    BY <1>1 DEF RecordRouting, accruing, payouts
  <2> QED
    BY <2>1, ReportKept
<1>2. ASSUME NEW r \in Requests, SettleInbound(r) PROVE ReportInv'
  <2>1. CASE SettleDuplicate(r)
    <3>1. UNCHANGED <<phase, nextId, ledger, recs, unbatched, liability, accrual, job>>
      BY <2>1 DEF SettleDuplicate, accruing, payouts
    <3> QED
      BY <3>1, ReportKept
  <2> QED
    BY <1>2, <2>1, ReportNothingOwed, ReportUnbatched, ReportAccrued DEF SettleInbound
<1>3. ASSUME NEW o \in Operators, Deadline(o) PROVE ReportInv'
  <2>1. /\ {o} \in SUBSET Operators /\ \A p \in {o} : accrual[p] # NoId
        /\ phase \in Serving /\ phase' \in Serving
        /\ UNCHANGED <<ledger, nextId, recs, unbatched>>
        /\ flushAccrual(accrual, {o})
    BY <1>3 DEF Deadline
  <2> QED
    BY <2>1, ReportFlush
<1>4. CASE FlushPayouts
  <2>1. /\ Accruing \in SUBSET Operators /\ \A p \in Accruing : accrual[p] # NoId
        /\ phase \in Serving /\ phase' \in Serving
        /\ UNCHANGED <<ledger, nextId, recs, unbatched>>
        /\ flushAccrual(accrual, Accruing)
    BY <1>4 DEF FlushPayouts, Accruing, Serving
  <2> QED
    BY <2>1, ReportFlush
<1>5. ASSUME NEW o \in Operators, StoreStep(o) \/ WriteFails(o) PROVE ReportInv'
  <2>1. UNCHANGED <<phase, nextId, ledger, recs, unbatched, liability, accrual, job>>
    BY <1>5 DEF StoreStep, PutOpen, Promote, PutBatch, RemoveOpen, RemoveBatch, WriteFails,
                Head1, accruing, payouts
  <2> QED
    BY <2>1, ReportKept
<1>6. ASSUME NEW b \in Ids, JobStep(b) PROVE ReportInv'
  BY <1>6, ReportJob
<1>7. CASE (\E b \in Ids : ChainStep(b)) \/ UNCHANGED vars
  <2>1. UNCHANGED <<phase, nextId, ledger, recs, unbatched, liability, accrual, job>>
    BY <1>7 DEF ChainStep, Land, Expire, LeaseEnds, NetworkStep, vars, accruing, payouts
  <2> QED
    BY <2>1, ReportKept
<1>8. CASE Shutdown
  <2>1. /\ UNCHANGED <<nextId, ledger, recs, unbatched, liability, accrual, job>>
        /\ phase' \in Serving
    BY <1>8 DEF Shutdown, accruing, payouts, Serving
  <2> QED
    BY <2>1, ReportKept
<1>9. CASE Exit \/ Crash \/ BootBlind
  BY <1>9, ReportEmpty
<1>10. CASE RecoveryStep
  BY <1>10, ReportRecovery
<1> QED
  BY <1>1, <1>2, <1>3, <1>4, <1>5, <1>6, <1>7, <1>8, <1>9, <1>10 DEF Next

(* The report is in step with the accruals, the mirror and the ledger.      *)
LEMMA ReportInStep == Spec => []ReportInv
<1>1. Init => ReportInv
  <2> SUFFICES ASSUME Init PROVE ReportInv
    OBVIOUS
  <2>1. unbatched = {} /\ \A b \in Ids : recs[b] = {}
    BY DEF Init
  <2> QED
    BY <2>1 DEF ReportInv, HeldInOrder, Mirrored
<1> QED
  BY <1>1, Inductive, ReportNext, PTL DEF Spec

(* Where a batched request is, and whether getPendingPayouts has a row of   *)
(* it.                                                                      *)
LEMMA OneRow ==
  ASSUME IInv, ReportInv, NEW b \in Ids \ unbatched, NEW r \in recs[b]
  PROVE  Reported(r) = IF job[b] = "done" /\ ledger[r] = "settled" THEN {} ELSE {b}
<1>1. \A c \in Ids : r \in recs[c] => c = b
  BY DEF IInv, OnePayoutPerRequest
<1>2. b \in {accrual[o] : o \in Operators} <=> Open(b)
  BY DEF Open
<1>3. job[b] = "done" /\ ledger[r] = "settled" <=> liability[b] = "none" /\ ~Open(b)
  BY DEF ReportInv, Mirrored
<1> QED
  BY <1>1, <1>2, <1>3 DEF Reported
-----------------------------------------------------------------------------
(* The abstract debt.  The service implements it for every set of requests  *)
(* and operators, every price, threshold and retry count and any number of  *)
(* payouts and restarts, on the conditions under which it can: a lease      *)
(* outlasts the attempts that follow it, no process ends with a durable     *)
(* write outstanding, and neither the store nor the indexer fails (Orderly).*)
(* That no debt is lost needs other conditions (Durable).  The              *)
(* configurations that expect a violation drop some of them.                *)


(* Boots that cannot read the store are allowed: they forget, and pay       *)
(* nothing twice.                                                           *)
Orderly ==
    /\ LeaseCoversRetry
    /\ CrashMode # "any"
    /\ MaxStoreFaults = 0 /\ MaxLookupFaults = 0

(* What a payout id holds, has stored or has sent is owed to the operator   *)
(* the id pays.                                                             *)
Carries(b) == recs[b] \cup batchRow[b] \cup pool[b]

OwedToOwner ==
    /\ \A b \in Ids : \A r \in Carries(b) : debt[r] = owner[b]
    /\ \A o \in Operators : \A r \in openRow[o] : debt[r] = o

(* A request is carried by one payout id at most, and one that is carried   *)
(* and has been paid was paid by that id's transfer.                        *)
Attributed ==
    /\ \A b, c \in Ids : b # c => Carries(b) \cap Carries(c) = {}
    /\ \A b \in Ids : \A r \in Carries(b) : paid[r] # <<>> => b \in landed
    /\ \A r \in Requests : debt[r] = None => paid[r] = <<>>
    /\ \A r \in Requests : paid[r] = <<>> \/ Len(paid[r]) = 1

(* No second transfer is sent once one has landed: the lease is held as     *)
(* long as attempts are made.                                               *)
OneTransfer ==
    /\ \A b \in Ids : pool[b] # {} => b \notin landed
    /\ \A b \in landed : job[b] \in {"pay", "await", "look", "last"} => b \in lease
    /\ \A o \in Operators : accrual[o] # NoId => batchRow[accrual[o]] = {}

(* A write at index i of a queue is followed by one that clears the row.    *)
Clearing == {"promote", "removeOpen"}
Cleared(q, i) == \E j \in DOMAIN q : j > i /\ q[j].op \in Clearing

(* The open row is only ever written with an accrual that is still open, or *)
(* is cleared later on; only a payout's batch is written.                   *)
WritesOf(o) ==
    \A i \in DOMAIN chain[o] :
        /\ chain[o][i].op = "putOpen" =>
              /\ chain[o][i].id < nextId /\ owner[chain[o][i].id] = o
              /\ accrual[o] = chain[o][i].id \/ Cleared(chain[o], i)
        /\ chain[o][i].op \in {"promote", "putBatch"} => job[chain[o][i].id] # "none"
WritesInOrder == \A o \in Operators : WritesOf(o)

(* What a process has left to write dies with it, so it ends with nothing   *)
(* left; recovery clears an open row only once it has considered it.        *)
NothingLeft ==
    /\ phase \in {"crashed", "exited"} => \A o \in Operators : chain[o] = <<>>
    /\ phase = "recovering" => \A o \in todoOpen : ~Cleared(chain[o], 0)

(* Nothing has been undertaken to pay the request.                          *)
Untouched(r) ==
    /\ paid[r] = <<>>
    /\ \A b \in Ids : r \notin batchRow[b] \cup pool[b] /\ (r \in recs[b] => job[b] = "none")

(* A request in an open row is untouched, or the row is about to go.        *)
OpenRowsUntouched ==
    \A o \in Operators : \A r \in openRow[o] : Cleared(chain[o], 0) \/ Untouched(r)

DebtInv ==
    /\ OwedToOwner
    /\ Attributed
    /\ OneTransfer
    /\ NothingLeft
    /\ OpenRowsUntouched

-----------------------------------------------------------------------------
(* Queues of writes.                                                        *)

(* What one more write at the end of a queue keeps, adds and clears.        *)
LEMMA QueueGrows ==
  ASSUME NEW q \in Seq(Writes), NEW w \in Writes
  PROVE  /\ \A i \in DOMAIN q : i \in DOMAIN Append(q, w) /\ Append(q, w)[i] = q[i]
         /\ \A i \in DOMAIN Append(q, w) : i \in DOMAIN q \/ Append(q, w)[i] = w
         /\ \A i : Cleared(q, i) => Cleared(Append(q, w), i)
         /\ w.op \in Clearing => \A i \in DOMAIN q \cup {0} : Cleared(Append(q, w), i)
         /\ w.op \notin Clearing => \A i : ~Cleared(q, i) => ~Cleared(Append(q, w), i)
         /\ \E i \in DOMAIN Append(q, w) : Append(q, w)[i] = w /\ ~Cleared(Append(q, w), i)
<1>1. /\ Len(q) \in Nat /\ DOMAIN q = 1 .. Len(q)
      /\ DOMAIN Append(q, w) = 1 .. Len(q) + 1
      /\ \A i \in 1 .. Len(q) : Append(q, w)[i] = q[i]
      /\ Append(q, w)[Len(q) + 1] = w
  OBVIOUS
<1>2. \A i \in 1 .. Len(q) + 1 : i \in 1 .. Len(q) \/ i = Len(q) + 1
  BY <1>1
<1> QED
  BY <1>1, <1>2 DEF Cleared

(* What the first write of a queue leaves behind when it has run.           *)
LEMMA QueueShrinks ==
  ASSUME NEW q \in Seq(Writes), q # <<>>
  PROVE  /\ \A i \in DOMAIN Tail(q) : i + 1 \in DOMAIN q /\ Tail(q)[i] = q[i + 1]
         /\ \A i \in DOMAIN Tail(q) \cup {0} : Cleared(q, i + 1) => Cleared(Tail(q), i)
         /\ Cleared(q, 0) => Head(q).op \in Clearing \/ Cleared(Tail(q), 0)
         /\ 1 \in DOMAIN q /\ Head(q) = q[1]
         /\ \A i \in DOMAIN q : i = 1 \/ (i - 1 \in DOMAIN Tail(q) /\ Tail(q)[i - 1] = q[i])
         /\ \A i \in DOMAIN q : ~Cleared(q, i) => ~Cleared(Tail(q), i - 1)
         /\ ~Cleared(q, 0) => ~Cleared(q, 1)
<1>1. /\ Len(q) \in Nat /\ DOMAIN q = 1 .. Len(q) /\ Len(q) > 0 /\ Head(q) = q[1]
      /\ DOMAIN Tail(q) = 1 .. Len(q) - 1
      /\ \A i \in 1 .. Len(q) - 1 : Tail(q)[i] = q[i + 1]
  OBVIOUS
<1>2. ASSUME NEW i \in DOMAIN Tail(q) \cup {0}, Cleared(q, i + 1) PROVE Cleared(Tail(q), i)
  <2>1. PICK j \in DOMAIN q : j > i + 1 /\ q[j].op \in Clearing
    BY <1>2 DEF Cleared
  <2>2. j - 1 \in DOMAIN Tail(q) /\ j - 1 > i /\ Tail(q)[j - 1] = q[j]
    BY <1>1, <2>1
  <2> QED
    BY <2>1, <2>2 DEF Cleared
<1>3. ASSUME Cleared(q, 0), Head(q).op \notin Clearing PROVE Cleared(Tail(q), 0)
  <2>1. PICK j \in DOMAIN q : j > 0 /\ q[j].op \in Clearing
    BY <1>3 DEF Cleared
  <2>2. j > 0 + 1 /\ 0 + 1 = 1
    BY <1>1, <1>3, <2>1
  <2> QED
    BY <1>2, <2>1, <2>2 DEF Cleared
<1>4. ASSUME NEW i \in DOMAIN q, Cleared(Tail(q), i - 1) PROVE Cleared(q, i)
  <2>1. PICK j \in DOMAIN Tail(q) : j > i - 1 /\ Tail(q)[j].op \in Clearing
    BY <1>4 DEF Cleared
  <2>2. j + 1 \in DOMAIN q /\ j + 1 > i /\ q[j + 1] = Tail(q)[j]
    BY <1>1, <2>1
  <2> QED
    BY <2>1, <2>2 DEF Cleared
<1>5. Cleared(q, 1) => Cleared(q, 0)
  BY <1>1 DEF Cleared
<1>6. \A i \in DOMAIN q : i = 1 \/ (i - 1 \in DOMAIN Tail(q) /\ Tail(q)[i - 1] = q[i])
  BY <1>1
<1> QED
  BY <1>1, <1>2, <1>3, <1>4, <1>5, <1>6

(* A promotion half done.                                                   *)
LEMMA QueueHalfDone ==
  ASSUME NEW q \in Seq(Writes), q # <<>>, NEW w \in Writes, w.op = "removeOpen"
  PROVE  LET h == <<w>> \o Tail(q)
         IN  /\ \A i \in DOMAIN h : i \in DOMAIN q /\ (h[i] = w \/ h[i] = q[i])
             /\ \A i \in DOMAIN h : Cleared(q, i) => Cleared(h, i)
             /\ Cleared(h, 0)
             /\ \A i \in DOMAIN q : i # 1 => i \in DOMAIN h /\ h[i] = q[i]
             /\ \A i \in DOMAIN q : ~Cleared(q, i) => ~Cleared(h, i)
<1> DEFINE h == <<w>> \o Tail(q)
<1>1. /\ Len(q) \in Nat /\ DOMAIN q = 1 .. Len(q) /\ Len(q) > 0
      /\ DOMAIN h = 1 .. Len(q) /\ h[1] = w
      /\ \A i \in 1 .. Len(q) : i # 1 => h[i] = q[i]
  <2>1. Tail(q) \in Seq(Writes) /\ <<w>> \in Seq(Writes) /\ Len(<<w>>) = 1
    OBVIOUS
  <2>2. Len(Tail(q)) = Len(q) - 1 /\ Len(q) \in Nat /\ Len(q) > 0 /\ DOMAIN q = 1 .. Len(q)
    OBVIOUS
  <2>3. h \in Seq(Writes) /\ Len(h) = Len(q)
    BY <2>1, <2>2
  <2>4. h[1] = w
    BY <2>1
  <2>5. ASSUME NEW i \in 1 .. Len(q), i # 1 PROVE h[i] = q[i]
    BY <2>1, <2>2, <2>5
  <2> QED
    BY <2>2, <2>3, <2>4, <2>5
<1> HIDE DEF h
<1>2. \A i \in DOMAIN h : Cleared(q, i) => Cleared(h, i)
  BY <1>1 DEF Cleared
<1>3. Cleared(h, 0)
  BY <1>1 DEF Cleared, Clearing
<1>4. \A i \in DOMAIN h : i \in DOMAIN q /\ (h[i] = w \/ h[i] = q[i])
  BY <1>1
<1>5. \A i \in DOMAIN q : i # 1 => i \in DOMAIN h /\ h[i] = q[i]
  BY <1>1
<1>6. \A i \in DOMAIN q : Cleared(h, i) => Cleared(q, i)
  BY <1>1 DEF Cleared
<1> QED
  BY <1>2, <1>3, <1>4, <1>5, <1>6 DEF h

-----------------------------------------------------------------------------
(* The writes stay in order, whatever fails.                                *)

(* Used ids keep their operator, begun jobs stay begun.                     *)
Ageing ==
    /\ nextId' \in Nat /\ nextId <= nextId'
    /\ \A b \in Ids : b < nextId => owner'[b] = owner[b]
    /\ \A b \in Ids : job[b] # "none" => job'[b] # "none"

(* A chain is a queue of writes.                                            *)
LEMMA ChainType == ASSUME TypeOK, NEW o \in Operators PROVE chain[o] \in Seq(Writes)
BY DEF TypeOK

(* All but removeOpen name a payout id.                                     *)
LEMMA WriteId ==
  ASSUME NEW q \in Seq(Writes), NEW i \in DOMAIN q
  PROVE  q[i] \in Writes /\ (q[i].op # "removeOpen" => q[i].id \in Ids)
<1>1. q[i] \in Writes
  OBVIOUS
<1> QED
  BY <1>1 DEF Writes

(* A queue that a step leaves alone.                                        *)
LEMMA WritesStay ==
  ASSUME TypeOK, NEW o \in Operators, WritesOf(o), Ageing, chain'[o] = chain[o],
         accrual'[o] = accrual[o] \/ accrual[o] = NoId
  PROVE  WritesOf(o)'
<1> SUFFICES ASSUME NEW i \in DOMAIN chain[o]
             PROVE  /\ chain[o][i].op = "putOpen" =>
                          /\ chain[o][i].id < nextId' /\ owner'[chain[o][i].id] = o
                          /\ accrual'[o] = chain[o][i].id \/ Cleared(chain[o], i)
                    /\ chain[o][i].op \in {"promote", "putBatch"} => job'[chain[o][i].id] # "none"
  BY DEF WritesOf, Cleared
<1>1. chain[o] \in Seq(Writes) /\ (chain[o][i].op # "removeOpen" => chain[o][i].id \in Ids)
  BY ChainType, WriteId
<1>2. nextId \in Nat
  BY DEF TypeOK
<1>3. CASE chain[o][i].op = "putOpen"
  BY <1>1, <1>2, <1>3 DEF WritesOf, Ageing, NoId, Ids
<1>4. CASE chain[o][i].op \in {"promote", "putBatch"}
  BY <1>1, <1>4 DEF WritesOf, Ageing
<1> QED
  BY <1>3, <1>4

(* A queue that grows by one write.                                         *)
LEMMA WritesGrow ==
  ASSUME TypeOK, NEW o \in Operators, WritesOf(o), Ageing,
         NEW w \in Writes, chain'[o] = Append(chain[o], w),
         accrual'[o] = accrual[o] \/ accrual[o] = NoId \/ w.op \in Clearing,
         w.op = "putOpen" => w.id < nextId' /\ owner'[w.id] = o /\ accrual'[o] = w.id,
         w.op \in {"promote", "putBatch"} => job'[w.id] # "none"
  PROVE  WritesOf(o)'
<1> DEFINE a == Append(chain[o], w)
<1>0. chain[o] \in Seq(Writes) /\ nextId \in Nat
  BY ChainType DEF TypeOK
<1>1. /\ \A i \in DOMAIN chain[o] : i \in DOMAIN a /\ a[i] = chain[o][i]
      /\ \A i \in DOMAIN a : i \in DOMAIN chain[o] \/ a[i] = w
      /\ \A i : Cleared(chain[o], i) => Cleared(a, i)
      /\ w.op \in Clearing => \A i \in DOMAIN chain[o] : Cleared(a, i)
  BY <1>0, QueueGrows
<1> HIDE DEF a
<1> SUFFICES ASSUME NEW i \in DOMAIN a
             PROVE  /\ a[i].op = "putOpen" =>
                          /\ a[i].id < nextId' /\ owner'[a[i].id] = o
                          /\ accrual'[o] = a[i].id \/ Cleared(a, i)
                    /\ a[i].op \in {"promote", "putBatch"} => job'[a[i].id] # "none"
  BY DEF WritesOf, Cleared, a
<1>2. CASE a[i] = w
  BY <1>2
<1>3. CASE i \in DOMAIN chain[o] /\ a[i] = chain[o][i]
  <2>1. a[i].op # "removeOpen" => a[i].id \in Ids
    BY <1>0, <1>3, WriteId
  <2>2. CASE a[i].op = "putOpen"
    BY <1>0, <1>1, <1>3, <2>1, <2>2 DEF WritesOf, Ageing, NoId, Ids
  <2>3. CASE a[i].op \in {"promote", "putBatch"}
    BY <1>3, <2>1, <2>3 DEF WritesOf, Ageing
  <2> QED
    BY <2>2, <2>3
<1> QED
  BY <1>1, <1>2, <1>3

(* A queue whose first write runs leaves the others in order.               *)
LEMMA WritesRun ==
  ASSUME TypeOK, NEW o \in Operators, WritesOf(o), chain[o] # <<>>,
         UNCHANGED <<nextId, owner, accrual, job>>, chain'[o] = Tail(chain[o])
  PROVE  WritesOf(o)'
<1> DEFINE q == chain[o]
           a == Tail(chain[o])
<1>1. /\ \A i \in DOMAIN a : i \in Nat /\ i + 1 \in DOMAIN q /\ a[i] = q[i + 1]
      /\ \A i \in DOMAIN a : Cleared(q, i + 1) => Cleared(a, i)
  BY ChainType, QueueShrinks
<1> HIDE DEF a
<1>2. \A i \in DOMAIN a :
         /\ a[i].op = "putOpen" =>
               /\ a[i].id < nextId /\ owner[a[i].id] = o
               /\ accrual[o] = a[i].id \/ Cleared(a, i)
         /\ a[i].op \in {"promote", "putBatch"} => job[a[i].id] # "none"
  BY <1>1 DEF WritesOf
<1> QED
  BY <1>2 DEF WritesOf, Cleared, a

(* A step of nobody who writes.                                             *)
LEMMA WritesUntouched ==
  ASSUME IInv, WritesInOrder, Ageing, UNCHANGED <<chain, accrual>>
  PROVE  WritesInOrder'
BY WritesStay DEF WritesInOrder, IInv

(* accrue: an open row for an accrual left open, a promotion for a full one.*)
LEMMA WritesAccrued ==
  ASSUME IInv, WritesInOrder, NEW r \in Requests, SettleAccrued(r)
  PROVE  WritesInOrder'
<1>1. PICK o \in Operators : o = routing[r]
  BY DEF SettleAccrued, Claim, IInv, TypeOK
<1>2. PICK b \in Ids : b = IF accrual[o] = NoId THEN nextId ELSE accrual[o]
  BY <1>1 DEF SettleAccrued
<1>3. TypeOK /\ nextId \in Nat
  BY DEF IInv, TypeOK
<1>4. /\ nextId' = (IF accrual[o] = NoId THEN nextId + 1 ELSE nextId)
      /\ owner' = [owner EXCEPT ![b] = o]
      /\ \/ flushAccrual([accrual EXCEPT ![o] = b], {o})
         \/ /\ accrual' = [accrual EXCEPT ![o] = b]
            /\ chain' = enqueueWrite(o, "putOpen", b)
            /\ UNCHANGED job
  BY <1>1, <1>2 DEF SettleAccrued
<1>5. nextId' \in Nat /\ nextId <= nextId' /\ b < nextId' /\ (b < nextId => owner[b] = o)
  <2>1. accrual[o] # NoId => b < nextId /\ owner[b] = o
    BY <1>2 DEF IInv, OpenUnpaid
  <2> QED
    BY <1>2, <1>3, <1>4, <2>1 DEF Ids
<1>6. owner'[b] = o /\ \A c \in Ids : c < nextId => owner'[c] = owner[c]
  BY <1>3, <1>4, <1>5 DEF TypeOK
<1>7. \A c \in Ids : job[c] # "none" => job'[c] # "none"
  BY <1>3, <1>4 DEF flushAccrual, TypeOK
<1>8. Ageing
  BY <1>5, <1>6, <1>7 DEF Ageing
<1>9. \A p \in Operators \ {o} : accrual'[p] = accrual[p] /\ chain'[p] = chain[p]
  BY <1>3, <1>4 DEF flushAccrual, enqueueWrite, TypeOK
<1>10. PICK w \in Writes :
          /\ w.id = b /\ chain'[o] = Append(chain[o], w)
          /\ \/ w.op = "promote" /\ job'[b] # "none"
             \/ w.op = "putOpen" /\ accrual'[o] = b
  <2>1. CASE flushAccrual([accrual EXCEPT ![o] = b], {o})
    <3>1. PICK w \in Writes : w = [op |-> "promote", id |-> b]
      BY WriteType
    <3>2. chain'[o] = Append(chain[o], w) /\ job'[b] # "none"
      BY <1>3, <2>1, <3>1 DEF flushAccrual, TypeOK
    <3> QED
      BY <3>1, <3>2
  <2>2. CASE accrual' = [accrual EXCEPT ![o] = b] /\ chain' = enqueueWrite(o, "putOpen", b)
    <3>1. PICK w \in Writes : w = [op |-> "putOpen", id |-> b]
      BY WriteType
    <3>2. chain'[o] = Append(chain[o], w) /\ accrual'[o] = b
      BY <1>3, <2>2, <3>1 DEF enqueueWrite, TypeOK
    <3> QED
      BY <3>1, <3>2
  <2> QED
    BY <1>4, <2>1, <2>2
<1>11. accrual[o] = NoId \/ accrual'[o] = accrual[o] \/ w.op \in Clearing
  BY <1>2, <1>10 DEF Clearing
<1>12. WritesOf(o)'
  BY <1>3, <1>5, <1>6, <1>8, <1>10, <1>11, WritesGrow DEF WritesInOrder
<1> QED
  BY <1>3, <1>8, <1>9, <1>12, WritesStay DEF WritesInOrder

(* flushAccrual: one promotion for each operator.                           *)
LEMMA WritesFlushed ==
  ASSUME IInv, WritesInOrder, NEW S \in SUBSET Operators, \A o \in S : accrual[o] # NoId,
         flushAccrual(accrual, S), UNCHANGED <<nextId, owner>>
  PROVE  WritesInOrder'
<1>0. TypeOK /\ nextId \in Nat
  BY DEF IInv, TypeOK
<1>1. /\ \A o \in Operators : accrual'[o] = IF o \in S THEN NoId ELSE accrual[o]
      /\ \A b \in Ids : job[b] # "none" => job'[b] # "none"
      /\ \A o \in S : accrual[o] \in Ids /\ job'[accrual[o]] # "none"
      /\ \A o \in Operators :
            chain'[o] = IF o \in S THEN Append(chain[o], [op |-> "promote", id |-> accrual[o]])
                        ELSE chain[o]
  BY <1>0 DEF flushAccrual, TypeOK
<1>2. Ageing
  BY <1>0, <1>1 DEF Ageing
<1>3. ASSUME NEW o \in S PROVE WritesOf(o)'
  <2>1. PICK w \in Writes : w = [op |-> "promote", id |-> accrual[o]]
    BY <1>1, WriteType
  <2>2. /\ w.op = "promote" /\ w.op \in Clearing /\ job'[w.id] # "none"
        /\ chain'[o] = Append(chain[o], w)
    BY <1>1, <2>1 DEF Clearing
  <2> QED
    BY <1>0, <1>2, <2>2, WritesGrow DEF WritesInOrder
<1>4. ASSUME NEW o \in Operators \ S PROVE WritesOf(o)'
  BY <1>0, <1>1, <1>2, WritesStay DEF WritesInOrder
<1> QED
  BY <1>3, <1>4 DEF WritesInOrder

(* The store runs a write, or fails to.                                     *)
LEMMA WritesStored ==
  ASSUME IInv, WritesInOrder, NEW o \in Operators, StoreStep(o) \/ WriteFails(o)
  PROVE  WritesInOrder'
<1>0. TypeOK
  BY DEF IInv
<1>1. PICK op : Head1(o, op) /\ \/ op = "promote" /\ Promote(o)
                                \/ chain' = [chain EXCEPT ![o] = Tail(@)]
  BY DEF StoreStep, PutOpen, Promote, PutBatch, RemoveOpen, RemoveBatch, WriteFails
<1>2. /\ UNCHANGED <<nextId, owner, accrual, job>> /\ chain[o] # <<>>
      /\ chain[o] \in Seq(Writes)
  BY <1>0, <1>1, ChainType DEF Head1, accruing, payouts
<1>3. Ageing
  BY <1>0, <1>2 DEF Ageing, TypeOK
<1>4. \A p \in Operators \ {o} : WritesOf(p)'
  <2>1. \A p \in Operators \ {o} : chain'[p] = chain[p]
    BY <1>0, <1>1 DEF Promote, TypeOK
  <2> QED
    BY <1>0, <1>2, <1>3, <2>1, WritesStay DEF WritesInOrder
<1>5. CASE chain' = [chain EXCEPT ![o] = Tail(@)]
  <2>1. chain'[o] = Tail(chain[o])
    BY <1>0, <1>5 DEF TypeOK
  <2>2. WritesOf(o)'
    BY <1>0, <1>2, <2>1, WritesRun DEF WritesInOrder
  <2> QED
    BY <1>4, <2>2 DEF WritesInOrder
<1>6. CASE op = "promote" /\ Promote(o)
  <2>1. PICK b \in Ids : b = Head(chain[o]).id
    BY <1>0, <1>1, <1>2, <1>6, ChainHead DEF Head1
  <2>2. PICK w \in Writes : w = [op |-> "removeOpen", id |-> b]
    BY WriteType
  <2>3. chain'[o] = <<w>> \o Tail(chain[o]) /\ w.op = "removeOpen"
    BY <1>0, <1>6, <2>1, <2>2 DEF Promote, TypeOK
  <2> DEFINE q == chain[o]
             h == <<w>> \o Tail(q)
  <2>4. /\ \A i \in DOMAIN h : i \in DOMAIN q /\ (h[i] = w \/ h[i] = q[i])
        /\ \A i \in DOMAIN h : Cleared(q, i) => Cleared(h, i)
    BY <1>2, <2>3, QueueHalfDone
  <2> HIDE DEF h
  <2>5. \A i \in DOMAIN h :
           /\ h[i].op = "putOpen" =>
                 /\ h[i].id < nextId /\ owner[h[i].id] = o
                 /\ accrual[o] = h[i].id \/ Cleared(h, i)
           /\ h[i].op \in {"promote", "putBatch"} => job[h[i].id] # "none"
    BY <2>3, <2>4 DEF WritesInOrder, WritesOf
  <2>6. WritesOf(o)'
    BY <1>2, <2>3, <2>5 DEF WritesOf, Cleared, h
  <2> QED
    BY <1>4, <2>6 DEF WritesInOrder
<1> QED
  BY <1>1, <1>5, <1>6

(* runPayout: the removal of a settled batch, or nothing.                   *)
LEMMA WritesPayout ==
  ASSUME IInv, WritesInOrder, NEW b \in Ids, JobStep(b)
  PROVE  WritesInOrder'
<1>0. TypeOK
  BY DEF IInv
<1>1. /\ UNCHANGED <<nextId, owner, accrual>>
      /\ \E next \in {"pay", "await", "look", "last", "done"} : job' = [job EXCEPT ![b] = next]
      /\ UNCHANGED chain \/ chain' = enqueueWrite(owner[b], "removeBatch", b)
  BY DEF JobStep, CheckLandedFirst, Pay, PayConfirmed, PayThrows, LookAfterAttempt, LastLook,
         JobAt, GoTo, finalizeSettled, finalizeFailed, accruing
<1>2. Ageing
  BY <1>0, <1>1 DEF Ageing, TypeOK
<1>3. PICK w \in Writes : w = [op |-> "removeBatch", id |-> b]
  BY WriteType
<1>4. \A o \in Operators : chain'[o] = chain[o] \/ chain'[o] = Append(chain[o], w)
  BY <1>0, <1>1, <1>3 DEF enqueueWrite, TypeOK
<1> QED
  BY <1>0, <1>1, <1>2, <1>3, <1>4, WritesStay, WritesGrow DEF WritesInOrder

(* recoverAccruals: one write for each row it considers.                    *)
LEMMA WritesRecovered ==
  ASSUME IInv, WritesInOrder,
         \/ \E b \in Ids : RecoverBatch(b)
         \/ \E o \in Operators : RecoverOpen(o)
  PROVE  WritesInOrder'
<1>0. TypeOK /\ nextId \in Nat /\ UNCHANGED accrual
  <2>1. UNCHANGED accrual
    BY DEF RecoverBatch, RecoverOpen, Recovering
  <2> QED
    BY <2>1 DEF IInv, TypeOK
<1>1. CASE \E b \in Ids : RecoverBatch(b)
  <2>1. PICK b \in Ids : RecoverBatch(b)
    BY <1>1
  <2>2. PICK op \in {"removeBatch", "putBatch"} :
           /\ chain' = enqueueWrite(owner[b], op, b) /\ UNCHANGED <<nextId, owner>>
           /\ \/ UNCHANGED job /\ op = "removeBatch"
              \/ job' = [job EXCEPT ![b] = "check"]
    BY <2>1 DEF RecoverBatch, dropRecovered, payRecovered
  <2>3. PICK w \in Writes : w = [op |-> op, id |-> b]
    BY WriteType
  <2>4. Ageing /\ (op = "putBatch" => job'[b] # "none")
    BY <1>0, <2>2 DEF Ageing, TypeOK
  <2>5. \A o \in Operators : chain'[o] = chain[o] \/ chain'[o] = Append(chain[o], w)
    BY <1>0, <2>2, <2>3 DEF enqueueWrite, TypeOK
  <2> QED
    BY <1>0, <2>2, <2>3, <2>4, <2>5, WritesStay, WritesGrow DEF WritesInOrder
<1>2. CASE \E o \in Operators : RecoverOpen(o)
  <2>1. PICK o \in Operators : RecoverOpen(o)
    BY <1>2
  <2>2. PICK b \in Ids \cup {NoId}, op \in {"removeOpen", "promote"} :
           /\ chain' = enqueueWrite(o, op, b)
           /\ \/ UNCHANGED <<nextId, owner, job>> /\ op = "removeOpen" /\ b = NoId
              \/ /\ op = "promote" /\ b = nextId /\ b \in Ids /\ nextId' = nextId + 1
                 /\ owner' = [owner EXCEPT ![b] = o] /\ job' = [job EXCEPT ![b] = "pay"]
    BY <2>1 DEF RecoverOpen, dropRecovered, payRecovered
  <2>3. PICK w \in Writes : w = [op |-> op, id |-> b]
    <3>1. [op |-> op, id |-> b] \in Writes
      BY <2>2 DEF Writes
    <3> QED
      BY <3>1
  <2>4. Ageing /\ (op = "promote" => job'[b] # "none")
    BY <1>0, <2>2 DEF Ageing, TypeOK
  <2>5. \A p \in Operators : chain'[p] = chain[p] \/ chain'[p] = Append(chain[p], w)
    BY <1>0, <2>2, <2>3 DEF enqueueWrite, TypeOK
  <2> QED
    BY <1>0, <2>2, <2>3, <2>4, <2>5, WritesStay, WritesGrow DEF WritesInOrder
<1> QED
  BY <1>1, <1>2

(* Every step keeps the order.                                              *)
LEMMA WritesNext == IInv /\ WritesInOrder /\ [Next]_vars => WritesInOrder'
<1> SUFFICES ASSUME IInv, WritesInOrder, [Next]_vars PROVE WritesInOrder'
  OBVIOUS
<1>0. TypeOK /\ nextId \in Nat
  BY DEF IInv, TypeOK
<1>1. CASE \/ \E r \in Requests, o \in Operators : RecordRouting(r, o)
           \/ \E r \in Requests : SettleDuplicate(r) \/ SettleNothingOwed(r)
           \/ \E b \in Ids : ChainStep(b)
           \/ Shutdown \/ Boot \/ BootBlind \/ Listen \/ UNCHANGED vars
  <2>1. UNCHANGED <<nextId, owner, accrual, job, chain>>
    BY <1>1 DEF RecordRouting, SettleDuplicate, SettleNothingOwed, Claim, ChainStep, Land, Expire,
                LeaseEnds, NetworkStep, Shutdown, Boot, BootBlind, Listen, vars, accruing, payouts
  <2>2. Ageing
    BY <1>0, <2>1 DEF Ageing
  <2> QED
    BY <2>1, <2>2, WritesUntouched
<1>2. CASE \E r \in Requests : SettleUnbatched(r)
  <2>1. PICK r \in Requests : SettleUnbatched(r)
    BY <1>2
  <2>2. /\ nextId' = nextId + 1 /\ owner' = [owner EXCEPT ![nextId] = routing[r]]
        /\ job' = [job EXCEPT ![nextId] = "pay"] /\ UNCHANGED <<accrual, chain>>
    BY <2>1 DEF SettleUnbatched
  <2>3. Ageing
    BY <1>0, <2>2 DEF Ageing, TypeOK
  <2> QED
    BY <2>2, <2>3, WritesUntouched
<1>3. CASE \E r \in Requests : SettleAccrued(r)
  BY <1>3, WritesAccrued
<1>4. CASE (\E o \in Operators : Deadline(o)) \/ FlushPayouts
  <2>1. PICK S \in SUBSET Operators :
           /\ \A o \in S : accrual[o] # NoId
           /\ flushAccrual(accrual, S) /\ UNCHANGED <<nextId, owner>>
    BY <1>4 DEF Deadline, FlushPayouts, Accruing
  <2> QED
    BY <2>1, WritesFlushed
<1>5. CASE \E o \in Operators : StoreStep(o) \/ WriteFails(o)
  BY <1>5, WritesStored
<1>6. CASE \E b \in Ids : JobStep(b)
  BY <1>6, WritesPayout
<1>7. CASE Exit \/ Crash
  <2>1. \A o \in Operators : chain'[o] = <<>>
    BY <1>7 DEF Exit, Crash, LoseMemory
  <2> QED
    BY <2>1 DEF WritesInOrder, WritesOf
<1>8. CASE (\E b \in Ids : RecoverBatch(b)) \/ (\E o \in Operators : RecoverOpen(o))
  BY <1>8, WritesRecovered
<1> QED
  BY <1>1, <1>2, <1>3, <1>4, <1>5, <1>6, <1>7, <1>8 DEF Next, RecoveryStep, SettleInbound

(* The writes are in order in every reachable state, whatever fails.        *)
LEMMA WritesAlwaysInOrder == Spec => []WritesInOrder
<1>1. Init => WritesInOrder
  <2> SUFFICES ASSUME Init PROVE WritesInOrder
    OBVIOUS
  <2>1. \A o \in Operators : chain[o] = <<>>
    BY DEF Init
  <2> QED
    BY <2>1 DEF WritesInOrder, WritesOf
<1> QED
  BY <1>1, WritesNext, Inductive, PTL DEF Spec

-----------------------------------------------------------------------------
(* What the steps of the debt have in common.                               *)

(* Less is carried than before, and nothing is paid.                        *)
LEMMA CarriedLess ==
  ASSUME OwedToOwner, Attributed, UNCHANGED <<debt, paid, landed>>,
         \A b \in Ids : Carries(b)' \subseteq Carries(b) /\ (Carries(b) # {} => owner'[b] = owner[b]),
         \A o \in Operators : openRow'[o] \subseteq openRow[o]
  PROVE  OwedToOwner' /\ Attributed'
<1>1. OwedToOwner'
  <2>1. ASSUME NEW b \in Ids, NEW r \in Carries(b)' PROVE debt'[r] = owner'[b]
    BY <2>1 DEF OwedToOwner
  <2>2. \A o \in Operators : \A r \in openRow'[o] : debt'[r] = o
    BY DEF OwedToOwner
  <2> QED
    BY <2>1, <2>2 DEF OwedToOwner
<1>2. Attributed'
  <2>1. \A b, c \in Ids : b # c => Carries(b)' \cap Carries(c)' = {}
    BY DEF Attributed
  <2>2. \A b \in Ids : \A r \in Carries(b)' : paid'[r] # <<>> => b \in landed'
    BY DEF Attributed
  <2> QED
    BY <2>1, <2>2 DEF Attributed
<1> QED
  BY <1>1, <1>2

(* A request that nothing of its own happens to.                            *)
LEMMA UntouchedStays ==
  ASSUME NEW r, Untouched(r), paid'[r] = paid[r],
         \A b \in Ids : r \in batchRow'[b] \cup pool'[b] =>
             r \in batchRow[b] \cup pool[b] \/ (r \in recs[b] /\ job[b] # "none"),
         \A b \in Ids : r \in recs'[b] => r \in recs[b] /\ (job[b] = "none" => job'[b] = "none")
  PROVE  Untouched(r)'
BY DEF Untouched

-----------------------------------------------------------------------------
(* Steps that only move the process, and the accruals that become payouts.  *)

held == <<owner, accrual, recs, job, chain, store, network, debt>>

(* Steps that change neither what is carried nor the rows.                  *)
LEMMA DebtStill ==
  ASSUME IInv, DebtInv, UNCHANGED held, NothingLeft'
  PROVE  DebtInv'
<1>0. UNCHANGED <<owner, accrual, recs, job, chain, openRow, batchRow, pool, lease, landed,
                  paid, debt>>
  BY DEF held, store, network
<1>1. OwedToOwner' /\ Attributed'
  BY <1>0 DEF DebtInv, OwedToOwner, Attributed, Carries
<1>2. OneTransfer'
  BY <1>0 DEF DebtInv, OneTransfer
<1>3. OpenRowsUntouched'
  BY <1>0 DEF DebtInv, OpenRowsUntouched, Untouched, Cleared
<1> QED
  BY <1>1, <1>2, <1>3 DEF DebtInv

(* flushAccrual: accruals become payouts of the same ids.                   *)
LEMMA DebtFlush ==
  ASSUME IInv, DebtInv, NEW S \in SUBSET Operators, \A o \in S : accrual[o] # NoId,
         flushAccrual(accrual, S), phase \in Serving, phase' \in Serving,
         UNCHANGED <<nextId, owner, recs, store, network, debt>>
  PROVE  DebtInv'
<1> DEFINE batches == {accrual[o] : o \in S}
<1>0. /\ UNCHANGED <<openRow, batchRow, pool, lease, landed, paid>> /\ TypeOK
      /\ nextId \in Nat
  BY DEF store, network, IInv, TypeOK
<1>1. /\ \A o \in Operators : accrual'[o] = IF o \in S THEN NoId ELSE accrual[o]
      /\ \A b \in Ids : job'[b] = IF b \in batches THEN "pay" ELSE job[b]
      /\ \A o \in Operators :
            chain'[o] = IF o \in S THEN Append(chain[o], [op |-> "promote", id |-> accrual[o]])
                        ELSE chain[o]
  BY DEF flushAccrual
<1>2. \A o \in S : /\ accrual[o] \in Ids /\ accrual[o] \notin landed
                   /\ owner[accrual[o]] = o /\ accrual[o] \in batches
  BY <1>0 DEF IInv, OpenUnpaid, TypeOK
<1>3. OwedToOwner' /\ Attributed'
  BY <1>0 DEF DebtInv, OwedToOwner, Attributed, Carries
<1>4. OneTransfer'
  BY <1>0, <1>1, <1>2 DEF DebtInv, OneTransfer, TypeOK
<1>5. OpenRowsUntouched'
  <2> SUFFICES ASSUME NEW o \in Operators, NEW r \in openRow[o]
               PROVE  Cleared(chain'[o], 0) \/ Untouched(r)'
    BY <1>0 DEF OpenRowsUntouched, Cleared
  <2>1. CASE o \in S
    <3>1. chain[o] \in Seq(Writes) /\ [op |-> "promote", id |-> accrual[o]] \in Writes
      BY <1>0, <1>2, <2>1, ChainType, WriteType
    <3>2. Cleared(Append(chain[o], [op |-> "promote", id |-> accrual[o]]), 0)
      BY <3>1, QueueGrows DEF Clearing
    <3> QED
      BY <1>1, <2>1, <3>2
  <2>2. CASE o \notin S /\ Untouched(r)
    <3>1. \A b \in Ids : r \in recs[b] => b \notin batches
      BY <1>2, <2>2 DEF DebtInv, OwedToOwner, Carries
    <3> QED
      BY <1>0, <1>1, <2>2, <3>1, UntouchedStays
  <2>3. CASE o \notin S /\ Cleared(chain[o], 0)
    BY <1>1, <2>3
  <2> QED
    BY <2>1, <2>2, <2>3 DEF DebtInv, OpenRowsUntouched
<1>6. NothingLeft'
  BY DEF NothingLeft, Serving
<1> QED
  BY <1>3, <1>4, <1>5, <1>6 DEF DebtInv

-----------------------------------------------------------------------------
(* A request becomes owed.                                                  *)

(* A request that settles for the first time is in nobody's hands.          *)
LEMMA NotYetCarried ==
  ASSUME IInv, DebtInv, NEW r \in Requests, debt[r] = None
  PROVE  /\ \A b \in Ids : r \notin Carries(b)
         /\ \A o \in Operators : r \notin openRow[o]
         /\ paid[r] = <<>>
<1>1. ASSUME NEW b \in Ids, r \in Carries(b) PROVE FALSE
  <2>1. b < nextId
    BY <1>1 DEF IInv, TypeOK, IdsInOrder, Carries, Ids
  <2> QED
    BY <1>1, <2>1, SettlementAssumption DEF IInv, IdsInOrder, DebtInv, OwedToOwner
<1> QED
  BY <1>1, SettlementAssumption DEF DebtInv, OwedToOwner, Attributed

(* It joins an id that pays its operator and that nothing has been done     *)
(* about yet: a fresh one, or the operator's open accrual.                  *)
LEMMA DebtJoins ==
  ASSUME IInv, DebtInv, NEW r \in Requests, debt[r] = None, NEW o \in Operators, NEW b \in Ids,
         b = nextId \/ (b = accrual[o] /\ b < nextId),
         nextId' \in Nat, nextId <= nextId', b < nextId',
         recs' = [recs EXCEPT ![b] = @ \cup {r}], debt' = [debt EXCEPT ![r] = o],
         owner' = [owner EXCEPT ![b] = o], UNCHANGED <<store, network>>,
         \A c \in Ids \ {b} : job'[c] = job[c],
         \A p \in Operators \ {o} : accrual'[p] = accrual[p] /\ chain'[p] = chain[p],
         accrual'[o] \in {NoId, b, accrual[o]},
         phase \in Serving, phase' = phase,
         \/ Cleared(chain'[o], 0)
         \/ /\ Cleared(chain[o], 0) => Cleared(chain'[o], 0)
            /\ b < nextId => job'[b] = "none"
  PROVE  DebtInv'
<1>0. /\ UNCHANGED <<openRow, batchRow, pool, lease, landed, paid>> /\ TypeOK
  BY DEF store, network, IInv
<1>1. /\ \A c \in Ids : r \notin Carries(c)
      /\ \A p \in Operators : r \notin openRow[p]
      /\ paid[r] = <<>>
  BY NotYetCarried
<1>2. /\ \A c \in Ids \ {b} : recs'[c] = recs[c] /\ owner'[c] = owner[c]
      /\ recs'[b] = recs[b] \cup {r} /\ owner'[b] = o
      /\ \A q \in Requests : q # r => debt'[q] = debt[q]
      /\ debt'[r] = o
  BY <1>0 DEF TypeOK
<1>3. \A c \in Ids : Carries(c)' = IF c = b THEN Carries(c) \cup {r} ELSE Carries(c)
  BY <1>0, <1>2 DEF Carries
<1>4. /\ b \notin landed /\ pool[b] = {} /\ batchRow[b] = {} /\ job[b] = "none"
      /\ Carries(b) # {} => owner[b] = o
  <2>1. CASE b = nextId
    <3>1. b >= nextId
      BY <1>0, <2>1 DEF TypeOK
    <3> QED
      BY <3>1 DEF IInv, IdsInOrder, Carries
  <2>2. CASE b = accrual[o] /\ b < nextId
    BY <2>2 DEF IInv, OpenUnpaid, DebtInv, OneTransfer, NoId, Ids
  <2> QED
    BY <2>1, <2>2
<1>5. \A c \in Ids : Carries(c) \subseteq Requests
  BY <1>0 DEF TypeOK, Carries
<1>6. OwedToOwner'
  <2>1. ASSUME NEW c \in Ids, NEW q \in Carries(c)' PROVE debt'[q] = owner'[c]
    <3>1. CASE q = r
      BY <1>1, <1>2, <1>3, <2>1, <3>1
    <3>2. CASE q # r
      BY <1>2, <1>3, <1>4, <1>5, <2>1, <3>2 DEF DebtInv, OwedToOwner
    <3> QED
      BY <3>1, <3>2
  <2>2. \A p \in Operators : \A q \in openRow'[p] : debt'[q] = p
    BY <1>0, <1>1, <1>2 DEF DebtInv, OwedToOwner, TypeOK
  <2> QED
    BY <2>1, <2>2 DEF OwedToOwner
<1>7. Attributed'
  <2>1. \A c, d \in Ids : c # d => Carries(c)' \cap Carries(d)' = {}
    BY <1>1, <1>3 DEF DebtInv, Attributed
  <2>2. \A c \in Ids : \A q \in Carries(c)' : paid'[q] # <<>> => c \in landed'
    BY <1>0, <1>1, <1>3 DEF DebtInv, Attributed
  <2> QED
    BY <1>0, <1>2, <2>1, <2>2, SettlementAssumption DEF DebtInv, Attributed
<1>8. OneTransfer'
  <2>1. \A c \in Ids : pool'[c] # {} => c \notin landed'
    BY <1>0 DEF DebtInv, OneTransfer
  <2>2. \A c \in landed' : job'[c] \in {"pay", "await", "look", "last"} => c \in lease'
    BY <1>0, <1>4 DEF DebtInv, OneTransfer, TypeOK
  <2>3. \A p \in Operators : accrual'[p] # NoId => batchRow'[accrual'[p]] = {}
    BY <1>0, <1>4 DEF DebtInv, OneTransfer
  <2> QED
    BY <2>1, <2>2, <2>3 DEF OneTransfer
<1>9. NothingLeft'
  BY DEF NothingLeft, Serving
<1>10. OpenRowsUntouched'
  <2> SUFFICES ASSUME NEW p \in Operators, NEW q \in openRow[p]
               PROVE  Cleared(chain'[p], 0) \/ Untouched(q)'
    BY <1>0 DEF OpenRowsUntouched, Cleared
  <2>1. CASE Cleared(chain'[p], 0)
    BY <2>1
  <2>2. CASE ~Cleared(chain'[p], 0) /\ Cleared(chain[p], 0)
    BY <2>2
  <2>3. CASE ~Cleared(chain'[p], 0) /\ Untouched(q)
    <3>1. q # r
      BY <1>1
    <3>3. CASE q \in recs[b]
      <4>1. p = o
        BY <1>4, <3>3 DEF DebtInv, OwedToOwner, Carries
      <4>2. b < nextId
        <5>1. nextId \in Nat /\ b \in Nat
          BY <1>0 DEF TypeOK, Ids
        <5>2. ~(b >= nextId)
          BY <3>3 DEF IInv, IdsInOrder
        <5> QED
          BY <5>1, <5>2
      <4>3. job'[b] = job[b]
        BY <1>4, <2>3, <4>1, <4>2
      <4>4. \A c \in Ids : q \in recs'[c] => q \in recs[c] /\ job'[c] = job[c]
        BY <1>2, <3>1, <4>3
      <4> QED
        BY <1>0, <2>3, <4>4, UntouchedStays
    <3>4. CASE q \notin recs[b]
      <4>1. \A c \in Ids : q \in recs'[c] => q \in recs[c] /\ job'[c] = job[c]
        BY <1>2, <3>1, <3>4
      <4> QED
        BY <1>0, <2>3, <4>1, UntouchedStays
    <3> QED
      BY <3>3, <3>4
  <2> QED
    BY <2>1, <2>2, <2>3 DEF DebtInv, OpenRowsUntouched
<1> QED
  BY <1>6, <1>7, <1>8, <1>9, <1>10 DEF DebtInv

(* A request that settles for the first time is not owed yet.               *)
LEMMA SettleStarts ==
  ASSUME IInv, NEW r \in Requests, Claim(r) PROVE debt[r] = None
BY DEF IInv, OnlyDebts, Claim

(* A payout of its own.                                                     *)
LEMMA DebtUnbatched ==
  ASSUME IInv, DebtInv, NEW r \in Requests, SettleUnbatched(r)
  PROVE  DebtInv'
<1>1. debt[r] = None
  BY SettleStarts DEF SettleUnbatched
<1>2. PICK o \in Operators : o = routing[r]
  BY DEF SettleUnbatched, Claim, IInv, TypeOK
<1>3. PICK b \in Ids : b = nextId
  BY DEF SettleUnbatched
<1>4. recs[b] = {}
  BY <1>3 DEF IInv, IdsInOrder, Ids
<1>5. /\ nextId' = b + 1 /\ nextId \in Nat
      /\ debt' = [debt EXCEPT ![r] = o] /\ owner' = [owner EXCEPT ![b] = o]
      /\ recs' = [recs EXCEPT ![b] = @ \cup {r}] /\ job' = [job EXCEPT ![b] = "pay"]
      /\ phase \in Serving
      /\ UNCHANGED <<phase, accrual, chain, store, network>>
  BY <1>2, <1>3, <1>4 DEF SettleUnbatched, Claim, IInv, TypeOK
<1>6. nextId' \in Nat /\ nextId <= nextId' /\ b < nextId' /\ ~(b < nextId)
  BY <1>3, <1>5
<1>7. \A c \in Ids \ {b} : job'[c] = job[c]
  BY <1>5 DEF IInv, TypeOK
<1> QED
  BY <1>1, <1>3, <1>5, <1>6, <1>7, DebtJoins

(* accrue: an accrual joined and left open, or flushed.                     *)
LEMMA DebtAccrued ==
  ASSUME IInv, DebtInv, NEW r \in Requests, SettleAccrued(r)
  PROVE  DebtInv'
<1>1. debt[r] = None
  BY SettleStarts DEF SettleAccrued
<1>2. PICK o \in Operators : o = routing[r]
  BY DEF SettleAccrued, Claim, IInv, TypeOK
<1>3. PICK b \in Ids : b = IF accrual[o] = NoId THEN nextId ELSE accrual[o]
  BY <1>2 DEF SettleAccrued
<1>4. b = nextId \/ (b = accrual[o] /\ b < nextId)
  BY <1>3 DEF IInv, OpenUnpaid
<1>5. /\ nextId' = (IF accrual[o] = NoId THEN nextId + 1 ELSE nextId) /\ nextId \in Nat
      /\ debt' = [debt EXCEPT ![r] = o] /\ owner' = [owner EXCEPT ![b] = o]
      /\ recs' = [recs EXCEPT ![b] = @ \cup {r}]
      /\ phase \in Serving
      /\ UNCHANGED <<phase, store, network>>
      /\ \/ flushAccrual([accrual EXCEPT ![o] = b], {o})
         \/ /\ accrual' = [accrual EXCEPT ![o] = b]
            /\ chain' = enqueueWrite(o, "putOpen", b)
            /\ UNCHANGED job
  BY <1>2, <1>3 DEF SettleAccrued, Claim, IInv, TypeOK
<1>6. nextId' \in Nat /\ nextId <= nextId' /\ b < nextId'
  <2>1. accrual[o] # NoId => b < nextId
    BY <1>3 DEF IInv, OpenUnpaid
  <2> QED
    BY <1>3, <1>5, <2>1 DEF Ids
<1>7. /\ \A c \in Ids \ {b} : job'[c] = job[c]
      /\ \A p \in Operators \ {o} : accrual'[p] = accrual[p] /\ chain'[p] = chain[p]
      /\ accrual'[o] \in {NoId, b} /\ owner'[b] = o
  BY <1>5 DEF flushAccrual, enqueueWrite, IInv, TypeOK
<1>8. TypeOK /\ chain[o] \in Seq(Writes)
  BY ChainType DEF IInv
<1>9. CASE flushAccrual([accrual EXCEPT ![o] = b], {o})
  <2>1. PICK w \in Writes : w = [op |-> "promote", id |-> b]
    BY WriteType
  <2>2. chain'[o] = Append(chain[o], w) /\ w.op \in Clearing
    BY <1>8, <1>9, <2>1 DEF flushAccrual, TypeOK, Clearing
  <2>3. Cleared(chain'[o], 0)
    BY <1>8, <2>2, QueueGrows
  <2> QED
    BY <1>1, <1>4, <1>5, <1>6, <1>7, <2>3, DebtJoins
<1>10. CASE /\ accrual' = [accrual EXCEPT ![o] = b]
            /\ chain' = enqueueWrite(o, "putOpen", b)
            /\ UNCHANGED job
  <2>1. PICK w \in Writes : w = [op |-> "putOpen", id |-> b]
    BY WriteType
  <2>2. chain'[o] = Append(chain[o], w)
    BY <1>8, <1>10, <2>1 DEF enqueueWrite, TypeOK
  <2>3. Cleared(chain[o], 0) => Cleared(chain'[o], 0)
    BY <1>8, <2>2, QueueGrows
  <2>4. b < nextId => job'[b] = "none"
    BY <1>3, <1>4, <1>10 DEF IInv, OpenUnpaid, TypeOK, NoId, Ids
  <2> QED
    BY <1>1, <1>4, <1>5, <1>6, <1>7, <2>3, <2>4, DebtJoins
<1> QED
  BY <1>5, <1>9, <1>10

(* Steps that touch none of it.                                             *)
LEMMA DebtQuiet ==
  ASSUME IInv, DebtInv,
         \/ \E r \in Requests, o \in Operators : RecordRouting(r, o)
         \/ \E r \in Requests : SettleDuplicate(r) \/ SettleNothingOwed(r)
         \/ Shutdown \/ Boot \/ BootBlind \/ Listen \/ UNCHANGED vars
  PROVE  DebtInv'
<1>1. CASE \E r \in Requests, o \in Operators : RecordRouting(r, o)
  <2>1. UNCHANGED held /\ phase' = phase /\ phase \in Serving
    BY <1>1 DEF RecordRouting, held, accruing, payouts, store, network, history, Serving
  <2> QED
    BY <2>1, DebtStill DEF NothingLeft, Serving
<1>2. CASE \E r \in Requests : SettleDuplicate(r) \/ SettleNothingOwed(r)
  <2>1. UNCHANGED held /\ phase' = phase /\ phase \in Serving
    BY <1>2 DEF SettleDuplicate, SettleNothingOwed, Claim, held, accruing, payouts, store,
                network, history
  <2> QED
    BY <2>1, DebtStill DEF NothingLeft, Serving
<1>3. CASE Shutdown \/ BootBlind \/ Listen
  <2>1. UNCHANGED held /\ phase' \in {"up", "closing"}
    BY <1>3 DEF Shutdown, BootBlind, Listen, held, accruing, payouts, store, network, history
  <2> QED
    BY <2>1, DebtStill DEF NothingLeft
<1>4. CASE Boot
  <2>1. /\ UNCHANGED held /\ phase' = "recovering" /\ phase \in {"crashed", "exited"}
        /\ todoOpen' \subseteq Operators
    BY <1>4 DEF Boot, held, accruing, payouts, store, network, history
  <2>2. \A o \in Operators : chain'[o] = <<>>
    BY <2>1 DEF DebtInv, NothingLeft, held
  <2>3. \A o \in Operators : ~Cleared(chain'[o], 0)
    BY <2>2 DEF Cleared
  <2> QED
    BY <2>1, <2>3, DebtStill DEF NothingLeft
<1>5. CASE UNCHANGED vars
  <2>1. UNCHANGED held /\ UNCHANGED <<phase, todoOpen>>
    BY <1>5 DEF vars, held, accruing, payouts, recovery, store, network, history
  <2>2. NothingLeft'
    BY <2>1 DEF DebtInv, NothingLeft, held
  <2> QED
    BY <2>1, <2>2, DebtStill
<1> QED
  BY <1>1, <1>2, <1>3, <1>4, <1>5

-----------------------------------------------------------------------------
(* The durable writes.                                                      *)

(* What the store's steps have in common: the head of one queue runs, and   *)
(* rows and queues of other operators stay.                                 *)
LEMMA DebtWrite ==
  ASSUME IInv, DebtInv, NEW o \in Operators, NEW op, Head1(o, op),
         \A p \in Operators \ {o} : chain'[p] = chain[p] /\ openRow'[p] = openRow[p],
         OwedToOwner', Attributed',
         \A p \in Operators : accrual[p] # NoId => batchRow'[accrual[p]] = {},
         \A b \in Ids : batchRow'[b] \subseteq batchRow[b] \/ (batchRow'[b] = recs[b] /\ job[b] # "none"),
         \A r \in openRow'[o] : Cleared(chain'[o], 0) \/ Untouched(r)
  PROVE  DebtInv'
<1>0. /\ UNCHANGED <<phase, nextId, owner, accrual, recs, job, pool, lease, landed, paid, debt>>
      /\ TypeOK /\ phase \in Serving
  BY DEF Head1, accruing, payouts, network, IInv
<1>1. OneTransfer'
  BY <1>0 DEF DebtInv, OneTransfer
<1>2. NothingLeft'
  BY <1>0 DEF NothingLeft, Serving
<1>3. OpenRowsUntouched'
  <2>1. ASSUME NEW r, Untouched(r) PROVE Untouched(r)'
    <3>1. \A b \in Ids : r \in batchRow'[b] => r \in batchRow[b] \/ (r \in recs[b] /\ job[b] # "none")
      OBVIOUS
    <3> QED
      BY <1>0, <2>1, <3>1, UntouchedStays
  <2>2. ASSUME NEW p \in Operators, NEW r \in openRow'[p]
        PROVE  Cleared(chain'[p], 0) \/ Untouched(r)
    BY <2>2 DEF DebtInv, OpenRowsUntouched
  <2> QED
    BY <2>1, <2>2 DEF OpenRowsUntouched, Cleared
<1> QED
  BY <1>1, <1>2, <1>3 DEF DebtInv

(* The open row is written: with the open accrual, or with one whose        *)
(* promotion is still to come.                                              *)
LEMMA DebtPutOpen ==
  ASSUME IInv, WritesInOrder, DebtInv, NEW o \in Operators, PutOpen(o)
  PROVE  DebtInv'
<1>1. PICK b \in Ids : b = Head(chain[o]).id
  BY ChainHead DEF PutOpen, Head1, IInv
<1>2. /\ Head1(o, "putOpen") /\ chain[o] # <<>> /\ chain[o] \in Seq(Writes)
      /\ openRow' = [openRow EXCEPT ![o] = recs[b]] /\ chain' = [chain EXCEPT ![o] = Tail(@)]
      /\ UNCHANGED <<batchRow, owner, nextId, accrual, recs, job, pool, landed, paid, debt>>
      /\ TypeOK
  BY <1>1, ChainType DEF PutOpen, Head1, accruing, payouts, network, IInv
<1>3. /\ chain'[o] = Tail(chain[o]) /\ openRow'[o] = recs[b]
      /\ \A p \in Operators \ {o} : chain'[p] = chain[p] /\ openRow'[p] = openRow[p]
  BY <1>2 DEF TypeOK
<1>4. 1 \in DOMAIN chain[o] /\ chain[o][1].op = "putOpen" /\ chain[o][1].id = b
  BY <1>1, <1>2, QueueShrinks DEF Head1
<1>5. owner[b] = o /\ (accrual[o] = b \/ Cleared(chain[o], 1))
  BY <1>4 DEF WritesInOrder, WritesOf
<1>6. OwedToOwner'
  <2>1. \A p \in Operators : \A r \in openRow'[p] : debt'[r] = p
    BY <1>2, <1>3, <1>5 DEF DebtInv, OwedToOwner, Carries
  <2> QED
    BY <1>2, <2>1 DEF DebtInv, OwedToOwner, Carries
<1>7. Attributed'
  BY <1>2 DEF DebtInv, Attributed, Carries
<1>8. ASSUME NEW r \in recs[b] PROVE Cleared(chain'[o], 0) \/ Untouched(r)
  <2>1. CASE Cleared(chain[o], 1)
    <3>1. \A i \in DOMAIN Tail(chain[o]) \cup {0} : Cleared(chain[o], i + 1) => Cleared(Tail(chain[o]), i)
      BY <1>2, QueueShrinks
    <3>2. Cleared(chain[o], 0 + 1)
      BY <2>1
    <3> QED
      BY <1>3, <3>1, <3>2
  <2>2. CASE accrual[o] = b
    <3>1. job[b] = "none" /\ pool[b] = {} /\ b \notin landed
      BY <2>2 DEF IInv, OpenUnpaid, NoId, Ids
    <3>2. batchRow[b] = {}
      BY <2>2 DEF DebtInv, OneTransfer, NoId, Ids
    <3>3. r \in Requests /\ r \in Carries(b)
      BY <1>2, <1>8 DEF TypeOK, Carries
    <3>4. paid[r] = <<>>
      BY <3>1, <3>3 DEF DebtInv, Attributed
    <3>5. \A c \in Ids : c # b => r \notin Carries(c)
      BY <3>3 DEF DebtInv, Attributed
    <3> QED
      BY <3>1, <3>2, <3>4, <3>5 DEF Untouched, Carries
  <2> QED
    BY <1>5, <2>1, <2>2
<1>9. \A p \in Operators : accrual[p] # NoId => batchRow'[accrual[p]] = {}
  BY <1>2 DEF DebtInv, OneTransfer
<1> QED
  BY <1>2, <1>3, <1>6, <1>7, <1>8, <1>9, DebtWrite

(* The batch row is written with what its payout holds.                     *)
LEMMA DebtPutRow ==
  ASSUME IInv, WritesInOrder, DebtInv, NEW o \in Operators, NEW op \in {"promote", "putBatch"},
         Head1(o, op), UNCHANGED openRow,
         batchRow' = [batchRow EXCEPT ![Head(chain[o]).id] = recs[Head(chain[o]).id]],
         \A p \in Operators \ {o} : chain'[p] = chain[p],
         Cleared(chain[o], 0) => Cleared(chain'[o], 0)
  PROVE  DebtInv'
<1>1. PICK b \in Ids : b = Head(chain[o]).id
  BY ChainHead DEF Head1, IInv
<1>2. /\ chain[o] # <<>> /\ chain[o] \in Seq(Writes) /\ TypeOK
      /\ UNCHANGED <<owner, accrual, recs, job, pool, landed, paid, debt>>
      /\ \A c \in Ids : batchRow'[c] = IF c = b THEN recs[b] ELSE batchRow[c]
  BY <1>1, ChainType DEF Head1, accruing, payouts, network, IInv, TypeOK
<1>3. job[b] # "none"
  <2>1. 1 \in DOMAIN chain[o] /\ chain[o][1].op = op /\ chain[o][1].id = b
    BY <1>1, <1>2, QueueShrinks DEF Head1
  <2> QED
    BY <2>1 DEF WritesInOrder, WritesOf
<1>4. \A c \in Ids : Carries(c)' \subseteq Carries(c)
  BY <1>2 DEF Carries
<1>5. OwedToOwner' /\ Attributed'
  BY <1>2, <1>4, CarriedLess DEF DebtInv
<1>6. \A p \in Operators : accrual[p] # NoId => batchRow'[accrual[p]] = {}
  BY <1>2, <1>3 DEF DebtInv, OneTransfer, IInv, OpenUnpaid, TypeOK
<1>7. \A r \in openRow'[o] : Cleared(chain'[o], 0) \/ Untouched(r)
  BY DEF DebtInv, OpenRowsUntouched
<1> QED
  BY <1>2, <1>3, <1>5, <1>6, <1>7, DebtWrite

(* The first half of a promotion writes the batch row.                      *)
LEMMA DebtPromote ==
  ASSUME IInv, WritesInOrder, DebtInv, NEW o \in Operators, Promote(o)
  PROVE  DebtInv'
<1>1. PICK b \in Ids : b = Head(chain[o]).id
  BY ChainHead DEF Promote, Head1, IInv
<1>2. PICK w \in Writes : w = [op |-> "removeOpen", id |-> b]
  BY WriteType
<1>3. /\ Head1(o, "promote") /\ chain[o] # <<>> /\ chain[o] \in Seq(Writes) /\ TypeOK
      /\ UNCHANGED <<openRow, owner, nextId, accrual, job>>
      /\ chain'[o] = <<w>> \o Tail(chain[o])
      /\ \A p \in Operators \ {o} : chain'[p] = chain[p]
  BY <1>1, <1>2, ChainType DEF Promote, Head1, accruing, payouts, IInv, TypeOK
<1>4. Cleared(<<w>> \o Tail(chain[o]), 0)
  <2>1. w.op = "removeOpen"
    BY <1>2
  <2> QED
    BY <1>3, <2>1, QueueHalfDone
<1> QED
  BY <1>3, <1>4, DebtPutRow DEF Promote

(* Recovery writes a batch row again.                                       *)
LEMMA DebtPutBatch ==
  ASSUME IInv, WritesInOrder, DebtInv, NEW o \in Operators, PutBatch(o)
  PROVE  DebtInv'
<1>1. /\ Head1(o, "putBatch") /\ chain[o] # <<>> /\ chain[o] \in Seq(Writes) /\ TypeOK
      /\ UNCHANGED <<openRow, owner, nextId, accrual, job>>
      /\ chain'[o] = Tail(chain[o])
      /\ \A p \in Operators \ {o} : chain'[p] = chain[p]
  BY ChainType DEF PutBatch, Head1, accruing, payouts, IInv, TypeOK
<1>2. Cleared(chain[o], 0) => Cleared(chain'[o], 0)
  BY <1>1, QueueShrinks DEF Head1, Clearing
<1> QED
  BY <1>1, <1>2, DebtPutRow DEF PutBatch

(* An open row that is removed carries nothing.                             *)
LEMMA DebtRemoveOpen ==
  ASSUME IInv, DebtInv, NEW o \in Operators, RemoveOpen(o)
  PROVE  DebtInv'
<1>1. /\ Head1(o, "removeOpen") /\ chain[o] # <<>> /\ chain[o] \in Seq(Writes) /\ TypeOK
      /\ UNCHANGED <<batchRow, owner, nextId, accrual, recs, job, pool, landed, paid, debt>>
      /\ chain'[o] = Tail(chain[o]) /\ openRow'[o] = {}
      /\ \A p \in Operators \ {o} : chain'[p] = chain[p] /\ openRow'[p] = openRow[p]
  BY ChainType DEF RemoveOpen, Head1, accruing, payouts, network, IInv, TypeOK
<1>2. OwedToOwner' /\ Attributed'
  <2>1. \A c \in Ids : Carries(c)' \subseteq Carries(c)
    BY <1>1 DEF Carries
  <2>2. \A p \in Operators : openRow'[p] \subseteq openRow[p]
    BY <1>1
  <2> QED
    BY <1>1, <2>1, <2>2, CarriedLess DEF DebtInv
<1>3. \A p \in Operators : accrual[p] # NoId => batchRow'[accrual[p]] = {}
  BY <1>1 DEF DebtInv, OneTransfer
<1> QED
  BY <1>1, <1>2, <1>3, DebtWrite

(* A batch row that is removed carries nothing.                             *)
LEMMA DebtRemoveBatch ==
  ASSUME IInv, DebtInv, NEW o \in Operators, RemoveBatch(o)
  PROVE  DebtInv'
<1>1. PICK b \in Ids : b = Head(chain[o]).id
  BY ChainHead DEF RemoveBatch, Head1, IInv
<1>2. /\ Head1(o, "removeBatch") /\ chain[o] # <<>> /\ chain[o] \in Seq(Writes) /\ TypeOK
      /\ UNCHANGED <<openRow, owner, nextId, accrual, recs, job, pool, landed, paid, debt>>
      /\ chain'[o] = Tail(chain[o])
      /\ \A p \in Operators \ {o} : chain'[p] = chain[p]
      /\ \A c \in Ids : batchRow'[c] = IF c = b THEN {} ELSE batchRow[c]
  BY <1>1, ChainType DEF RemoveBatch, Head1, accruing, payouts, network, IInv, TypeOK
<1>3. OwedToOwner' /\ Attributed'
  <2>1. \A c \in Ids : Carries(c)' \subseteq Carries(c)
    BY <1>2 DEF Carries
  <2> QED
    BY <1>2, <2>1, CarriedLess DEF DebtInv
<1>4. \A p \in Operators : accrual[p] # NoId => batchRow'[accrual[p]] = {}
  BY <1>2 DEF DebtInv, OneTransfer, TypeOK
<1>5. \A r \in openRow'[o] : Cleared(chain'[o], 0) \/ Untouched(r)
  <2>1. Cleared(chain[o], 0) => Cleared(chain'[o], 0)
    BY <1>2, QueueShrinks DEF Head1, Clearing
  <2> QED
    BY <1>2, <2>1 DEF DebtInv, OpenRowsUntouched
<1> QED
  BY <1>2, <1>3, <1>4, <1>5, DebtWrite

(* No store command fails on the conditions of this module.                 *)
LEMMA NoWriteFails ==
  ASSUME Orderly, TypeOK, NEW o \in Operators, WriteFails(o) PROVE FALSE
BY SettlementAssumption DEF Orderly, TypeOK, WriteFails

-----------------------------------------------------------------------------
(* runPayout.  Until it gives up, either no transfer has landed or the last *)
(* one's lease is still held.                                               *)

(* What the steps of a payout have in common.                               *)
LEMMA DebtJob ==
  ASSUME IInv, DebtInv, NEW b \in Ids, NEW state \in Active, JobAt(b, state),
         UNCHANGED <<lease, landed, paid>>,
         NEW next, next # "none", job' = [job EXCEPT ![b] = next],
         next \in {"pay", "await", "look", "last"} => b \notin landed \/ b \in lease,
         UNCHANGED pool \/ (b \notin landed /\ pool' = [pool EXCEPT ![b] = recs[b]]),
         UNCHANGED chain \/ chain' = enqueueWrite(owner[b], "removeBatch", b)
  PROVE  DebtInv'
<1>0. /\ UNCHANGED <<phase, nextId, owner, accrual, recs, openRow, batchRow, debt>>
      /\ TypeOK /\ phase \in Serving /\ job[b] \notin {"none", "done"}
  BY DEF JobAt, accruing, store, IInv, Active
<1>1. /\ \A c \in Ids : job'[c] = IF c = b THEN next ELSE job[c]
      /\ \A c \in Ids : pool'[c] = pool[c] \/ (c = b /\ pool'[c] = recs[c] /\ b \notin landed)
  BY <1>0 DEF TypeOK
<1>2. OwedToOwner' /\ Attributed'
  <2>1. \A c \in Ids : Carries(c)' \subseteq Carries(c)
    BY <1>0, <1>1 DEF Carries
  <2> QED
    BY <1>0, <2>1, CarriedLess DEF DebtInv
<1>3. OneTransfer'
  BY <1>0, <1>1 DEF DebtInv, OneTransfer
<1>4. PICK w \in Writes : w = [op |-> "removeBatch", id |-> b]
  BY WriteType
<1>5. ASSUME NEW o \in Operators
      PROVE  chain'[o] = chain[o] \/ chain'[o] = Append(chain[o], w)
  BY <1>0, <1>4 DEF enqueueWrite, TypeOK
<1>6. NothingLeft'
  BY <1>0 DEF NothingLeft, Serving
<1>7. OpenRowsUntouched'
  <2>1. ASSUME NEW r, Untouched(r) PROVE Untouched(r)'
    BY <1>0, <1>1, <2>1, UntouchedStays
  <2>2. ASSUME NEW o \in Operators, Cleared(chain[o], 0) PROVE Cleared(chain'[o], 0)
    <3>1. chain[o] \in Seq(Writes)
      BY <1>0, ChainType
    <3>2. Cleared(Append(chain[o], w), 0)
      BY <2>2, <3>1, QueueGrows
    <3> QED
      BY <1>5, <2>2, <3>2
  <2> QED
    BY <1>0, <2>1, <2>2 DEF DebtInv, OpenRowsUntouched, Cleared
<1> QED
  BY <1>2, <1>3, <1>6, <1>7 DEF DebtInv

(* What finalizeSettled assigns.                                            *)
LEMMA SettledStep ==
  ASSUME NEW b, finalizeSettled(b)
  PROVE  /\ job' = [job EXCEPT ![b] = "done"]
         /\ UNCHANGED chain \/ chain' = enqueueWrite(owner[b], "removeBatch", b)
BY DEF finalizeSettled

(* Every step of a payout: it submits only while no transfer has landed.    *)
LEMMA DebtJobStep ==
  ASSUME Orderly, IInv, DebtInv, NEW b \in Ids, JobStep(b)
  PROVE  DebtInv'
<1>0. /\ b \in landed /\ job[b] \in {"pay", "await", "look", "last"} => b \in lease
      /\ TypeOK
  BY DEF DebtInv, OneTransfer, IInv
<1>1. ASSUME NEW found \in BOOLEAN, findLandedPayout(b, found) PROVE found = (b \in landed)
  BY <1>0, <1>1, SettlementAssumption DEF findLandedPayout, Orderly, TypeOK
<1>2. ASSUME NEW state \in Active, JobAt(b, state), UNCHANGED network, finalizeSettled(b)
      PROVE  DebtInv'
  BY <1>2, SettledStep, DebtJob DEF network
<1>3. ASSUME NEW state \in Active, JobAt(b, state), UNCHANGED network,
             NEW next \in Active, GoTo(b, next), b \notin landed \/ b \in lease
      PROVE  DebtInv'
  BY <1>3, DebtJob DEF network, GoTo, Active
<1>4. CASE CheckLandedFirst(b)
  <2>1. PICK found \in BOOLEAN : findLandedPayout(b, found)
                                 /\ IF found THEN finalizeSettled(b) ELSE GoTo(b, "pay")
    BY <1>4 DEF CheckLandedFirst
  <2>2. JobAt(b, "check") /\ UNCHANGED network /\ found = (b \in landed)
    BY <1>1, <1>4, <2>1 DEF CheckLandedFirst
  <2> QED
    BY <1>2, <1>3, <2>1, <2>2 DEF Active
<1>5. CASE Pay(b)
  <2>1. /\ JobAt(b, "pay") /\ UNCHANGED <<lease, landed, paid>> /\ job[b] = "pay"
        /\ \/ b \notin lease /\ pool' = [pool EXCEPT ![b] = recs[b]] /\ GoTo(b, "await")
           \/ UNCHANGED pool /\ GoTo(b, "look")
    BY <1>5 DEF Pay, JobAt
  <2> QED
    BY <1>0, <2>1, DebtJob DEF GoTo, Active
<1>6. CASE PayConfirmed(b)
  BY <1>2, <1>6 DEF PayConfirmed, Active
<1>7. CASE PayThrows(b)
  BY <1>0, <1>3, <1>7 DEF PayThrows, JobAt, Active
<1>8. CASE LookAfterAttempt(b)
  <2>1. PICK found \in BOOLEAN :
           findLandedPayout(b, found)
           /\ (finalizeSettled(b) \/ (~found /\ \E next \in {"pay", "last"} : GoTo(b, next)))
    BY <1>8 DEF LookAfterAttempt
  <2>2. JobAt(b, "look") /\ UNCHANGED network /\ found = (b \in landed)
    BY <1>1, <1>8, <2>1 DEF LookAfterAttempt
  <2> QED
    BY <1>2, <1>3, <2>1, <2>2 DEF Active
<1>9. CASE LastLook(b)
  <2>1. JobAt(b, "last") /\ UNCHANGED network /\ (finalizeSettled(b) \/ finalizeFailed(b))
    BY <1>9 DEF LastLook
  <2>2. CASE finalizeFailed(b)
    BY <2>1, <2>2, DebtJob DEF finalizeFailed, network, Active
  <2> QED
    BY <1>2, <2>1, <2>2 DEF Active
<1> QED
  BY <1>4, <1>5, <1>6, <1>7, <1>8, <1>9 DEF JobStep

-----------------------------------------------------------------------------
(* The network.                                                             *)

(* A transfer that lands is the first of its id, and covers only requests   *)
(* owed to the operator it pays and not paid before.                        *)
LEMMA LandDischarges ==
  ASSUME IInv, DebtInv, NEW b \in Ids, Land(b)
  PROVE  /\ pool[b] # {} /\ pool[b] \subseteq Requests /\ b \notin landed
         /\ owner[b] \in Operators
         /\ \A r \in pool[b] : debt[r] = owner[b] /\ paid[r] = <<>>
         /\ paid' = [r \in Requests |-> IF r \in pool[b] THEN <<owner[b]>> ELSE paid[r]]
<1>1. pool[b] # {} /\ TypeOK
  BY DEF Land, IInv
<1>2. pool[b] \subseteq Requests
  BY <1>1 DEF TypeOK
<1>3. owner[b] \in Operators
  BY <1>1 DEF IInv, TypeOK, IdsInOrder, Ids
<1>4. b \notin landed
  BY <1>1 DEF DebtInv, OneTransfer
<1>5. \A r \in pool[b] : debt[r] = owner[b] /\ paid[r] = <<>>
  BY <1>4 DEF DebtInv, OwedToOwner, Attributed, Carries
<1>6. Append(<<>>, owner[b]) = <<owner[b]>>
  OBVIOUS
<1>7. \A r \in Requests : (IF r \in pool[b] THEN Append(paid[r], owner[b]) ELSE paid[r])
                         = (IF r \in pool[b] THEN <<owner[b]>> ELSE paid[r])
  BY <1>5, <1>6
<1> QED
  BY <1>1, <1>2, <1>3, <1>4, <1>5, <1>7 DEF Land

(* A transfer that lands pays each request it covers, for the first time.   *)
LEMMA DebtLand ==
  ASSUME IInv, DebtInv, NEW b \in Ids, Land(b)
  PROVE  DebtInv'
<1>0. /\ UNCHANGED <<phase, nextId, owner, accrual, recs, job, chain, todoOpen, openRow,
                     batchRow, debt>>
      /\ TypeOK
  BY DEF Land, NetworkStep, accruing, payouts, recovery, store, history, IInv
<1>1. /\ pool[b] \subseteq Requests /\ b \notin landed
      /\ \A r \in pool[b] : debt[r] # None /\ paid[r] = <<>>
      /\ paid' = [r \in Requests |-> IF r \in pool[b] THEN <<owner[b]>> ELSE paid[r]]
  BY LandDischarges, SettlementAssumption
<1>2. /\ landed' = landed \cup {b} /\ lease' = lease \cup {b}
      /\ \A c \in Ids : pool'[c] = IF c = b THEN {} ELSE pool[c]
  BY <1>0 DEF Land, TypeOK
<1>3. \A c \in Ids : Carries(c)' \subseteq Carries(c)
  BY <1>0, <1>2 DEF Carries
<1>4. OwedToOwner'
  BY <1>0, <1>3 DEF DebtInv, OwedToOwner
<1>5. Attributed'
  <2>1. \A c, d \in Ids : c # d => Carries(c)' \cap Carries(d)' = {}
    BY <1>3 DEF DebtInv, Attributed
  <2>2. ASSUME NEW c \in Ids, NEW r \in Carries(c)', paid'[r] # <<>> PROVE c \in landed'
    <3>1. r \in Carries(c) /\ r \in Requests
      BY <1>0, <1>3 DEF Carries, TypeOK
    <3>2. CASE r \in pool[b]
      BY <1>2, <3>1, <3>2 DEF DebtInv, Attributed, Carries
    <3>3. CASE r \notin pool[b]
      BY <1>1, <1>2, <2>2, <3>1, <3>3 DEF DebtInv, Attributed
    <3> QED
      BY <3>2, <3>3
  <2>3. \A r \in Requests : debt'[r] = None => paid'[r] = <<>>
    BY <1>0, <1>1 DEF DebtInv, Attributed
  <2>4. \A r \in Requests : paid'[r] = <<>> \/ Len(paid'[r]) = 1
    <3>1. Len(<<owner[b]>>) = 1
      OBVIOUS
    <3> QED
      BY <1>1, <3>1 DEF DebtInv, Attributed
  <2> QED
    BY <2>1, <2>2, <2>3, <2>4 DEF Attributed
<1>6. OneTransfer'
  BY <1>0, <1>2 DEF DebtInv, OneTransfer
<1>7. NothingLeft'
  BY <1>0 DEF DebtInv, NothingLeft, Cleared
<1>8. OpenRowsUntouched'
  <2>1. ASSUME NEW r \in Requests, Untouched(r) PROVE Untouched(r)'
    <3>1. paid'[r] = paid[r]
      BY <1>1, <2>1 DEF Untouched
    <3> QED
      BY <1>0, <1>2, <2>1, <3>1, UntouchedStays
  <2> QED
    BY <1>0, <2>1 DEF DebtInv, OpenRowsUntouched, Cleared, TypeOK
<1> QED
  BY <1>4, <1>5, <1>6, <1>7, <1>8 DEF DebtInv

(* A transfer that expires paid nothing; a lease outlasts the attempts.     *)
LEMMA DebtExpires ==
  ASSUME Orderly, IInv, DebtInv, NEW b \in Ids, Expire(b) \/ LeaseEnds(b)
  PROVE  DebtInv'
<1>0. /\ UNCHANGED <<phase, nextId, owner, accrual, recs, job, chain, todoOpen, openRow,
                     batchRow, debt, landed, paid>>
      /\ TypeOK
  BY DEF Expire, LeaseEnds, NetworkStep, accruing, payouts, recovery, store, history, IInv
<1>1. \A c \in Ids : pool'[c] \subseteq pool[c]
  BY <1>0 DEF Expire, LeaseEnds, TypeOK
<1>2. \A c \in lease : c \in lease' \/ job[c] \notin {"pay", "await", "look", "last"}
  BY DEF Expire, LeaseEnds, Orderly
<1>3. OwedToOwner' /\ Attributed'
  <2>1. \A c \in Ids : Carries(c)' \subseteq Carries(c)
    BY <1>0, <1>1 DEF Carries
  <2> QED
    BY <1>0, <2>1, CarriedLess DEF DebtInv
<1>4. OneTransfer'
  BY <1>0, <1>1, <1>2 DEF DebtInv, OneTransfer
<1>5. NothingLeft'
  BY <1>0 DEF DebtInv, NothingLeft, Cleared
<1>6. OpenRowsUntouched'
  <2>1. ASSUME NEW r, Untouched(r) PROVE Untouched(r)'
    BY <1>0, <1>1, <2>1, UntouchedStays
  <2> QED
    BY <1>0, <2>1 DEF DebtInv, OpenRowsUntouched, Cleared
<1> QED
  BY <1>3, <1>4, <1>5, <1>6 DEF DebtInv

-----------------------------------------------------------------------------
(* The end of a process and the recovery of the next.                       *)

(* What a process forgets was stored, sent or unpaid; on these conditions   *)
(* it leaves no write behind.                                               *)
LEMMA DebtForgotten ==
  ASSUME Orderly, IInv, DebtInv, Exit \/ Crash
  PROVE  DebtInv'
<1>0. /\ UNCHANGED <<owner, nextId, openRow, batchRow, pool, lease, landed, paid, debt>>
      /\ TypeOK
      /\ accrual' = [o \in Operators |-> NoId]
      /\ recs' = [b \in Ids |-> {}] /\ job' = [b \in Ids |-> "none"]
      /\ chain' = [o \in Operators |-> <<>>] /\ phase' \in {"exited", "crashed"}
  BY DEF Exit, Crash, LoseMemory, store, network, IInv
<1>1. \A o \in Operators : chain[o] = <<>>
  BY SettlementAssumption DEF Exit, Crash, Idle, Orderly
<1>2. OwedToOwner' /\ Attributed'
  <2>1. \A c \in Ids : Carries(c)' \subseteq Carries(c)
    BY <1>0 DEF Carries
  <2> QED
    BY <1>0, <2>1, CarriedLess DEF DebtInv
<1>3. OneTransfer'
  BY <1>0 DEF DebtInv, OneTransfer, TypeOK
<1>4. NothingLeft'
  BY <1>0 DEF NothingLeft
<1>5. OpenRowsUntouched'
  <2>1. ASSUME NEW r, Untouched(r) PROVE Untouched(r)'
    BY <1>0, <2>1, UntouchedStays
  <2>2. \A o \in Operators : ~Cleared(chain[o], 0)
    BY <1>1 DEF Cleared
  <2> QED
    BY <1>0, <2>1, <2>2 DEF DebtInv, OpenRowsUntouched
<1> QED
  BY <1>2, <1>3, <1>4, <1>5 DEF DebtInv

(* A stored batch becomes a payout of its own id again.                     *)
LEMMA DebtRecoverBatch ==
  ASSUME IInv, DebtInv, NEW b \in Ids, RecoverBatch(b)
  PROVE  DebtInv'
<1> DEFINE payable == batchRow[b] \ handled
<1>0. /\ phase = "recovering" /\ job[b] = "none"
      /\ UNCHANGED <<phase, nextId, owner, accrual, openRow, batchRow, pool, lease, landed,
                     paid, debt, todoOpen>>
      /\ TypeOK
  BY DEF RecoverBatch, Recovering, store, network, history, IInv, RecoveryInStep
<1>1. PICK op \in {"removeBatch", "putBatch"} :
         /\ chain' = enqueueWrite(owner[b], op, b)
         /\ \/ UNCHANGED <<recs, job>> /\ op = "removeBatch"
            \/ recs' = [recs EXCEPT ![b] = payable] /\ job' = [job EXCEPT ![b] = "check"]
  BY DEF RecoverBatch, dropRecovered, payRecovered
<1>2. PICK w \in Writes : w = [op |-> op, id |-> b]
  BY WriteType
<1>3. w.op = op /\ w.id = b /\ w.op \notin Clearing /\ w.op # "putOpen"
  BY <1>2 DEF Clearing
<1>4. /\ \A c \in Ids : c # b => recs'[c] = recs[c] /\ job'[c] = job[c]
      /\ recs'[b] \subseteq recs[b] \cup batchRow[b]
      /\ job'[b] = "none" \/ (job'[b] = "check" /\ recs'[b] \subseteq batchRow[b])
      /\ op = "putBatch" => job'[b] # "none"
  BY <1>0, <1>1 DEF TypeOK
<1> HIDE DEF payable
<1>5. ASSUME NEW o \in Operators
      PROVE  chain'[o] = chain[o] \/ chain'[o] = Append(chain[o], w)
  BY <1>0, <1>1, <1>2 DEF enqueueWrite, TypeOK
<1>6. OwedToOwner' /\ Attributed'
  <2>1. \A c \in Ids : Carries(c)' \subseteq Carries(c)
    BY <1>0, <1>4 DEF Carries
  <2> QED
    BY <1>0, <2>1, CarriedLess DEF DebtInv
<1>7. OneTransfer'
  BY <1>0, <1>4 DEF DebtInv, OneTransfer, TypeOK
<1>8. ASSUME NEW o \in Operators
       PROVE  Cleared(chain[o], 0) <=> Cleared(chain'[o], 0)
  <2>1. chain[o] \in Seq(Writes)
    BY <1>0, ChainType
  <2>2. Cleared(chain[o], 0) <=> Cleared(Append(chain[o], w), 0)
    BY <1>3, <2>1, QueueGrows
  <2> QED
    BY <1>5, <2>2
<1>9. NothingLeft'
  BY <1>0, <1>8 DEF DebtInv, NothingLeft, TypeOK
<1>10. OpenRowsUntouched'
  <2>1. ASSUME NEW r, Untouched(r) PROVE Untouched(r)'
    <3>1. \A c \in Ids : r \in recs'[c] => r \in recs[c] /\ (job[c] = "none" => job'[c] = "none")
      BY <1>4, <2>1 DEF Untouched
    <3> QED
      BY <1>0, <2>1, <3>1, UntouchedStays
  <2> QED
    BY <1>0, <1>8, <2>1 DEF DebtInv, OpenRowsUntouched, Cleared
<1> QED
  BY <1>6, <1>7, <1>9, <1>10 DEF DebtInv

(* An open row that recovery considers is untouched: its requests become a  *)
(* payout under a fresh id.                                                 *)
LEMMA DebtRecoverOpen ==
  ASSUME IInv, DebtInv, NEW o \in Operators, RecoverOpen(o)
  PROVE  DebtInv'
<1> DEFINE payable == openRow[o] \ handled
<1>0. /\ phase = "recovering" /\ o \in todoOpen /\ todoOpen' = todoOpen \ {o}
      /\ UNCHANGED <<phase, accrual, openRow, batchRow, pool, lease, landed, paid, debt>>
      /\ TypeOK
  BY DEF RecoverOpen, Recovering, store, network, history, IInv
<1>1. PICK b \in Ids \cup {NoId}, op \in {"removeOpen", "promote"} :
         /\ chain' = enqueueWrite(o, op, b)
         /\ \/ UNCHANGED <<nextId, owner, recs, job>> /\ op = "removeOpen" /\ b = NoId
            \/ /\ op = "promote" /\ b = nextId /\ b \in Ids /\ nextId' = nextId + 1
               /\ owner' = [owner EXCEPT ![b] = o]
               /\ recs' = [recs EXCEPT ![b] = payable] /\ job' = [job EXCEPT ![b] = "pay"]
  BY DEF RecoverOpen, dropRecovered, payRecovered
<1>2. PICK w \in Writes : w = [op |-> op, id |-> b]
  <2>1. [op |-> op, id |-> b] \in Writes
    BY <1>1 DEF Writes
  <2> QED
    BY <2>1
<1>3. w.op = op /\ w.id = b /\ w.op \in Clearing
  BY <1>2 DEF Clearing
<1>4. ~Cleared(chain[o], 0)
  BY <1>0 DEF DebtInv, NothingLeft
<1>5. /\ \A r \in openRow[o] : Untouched(r) /\ debt[r] = o
      /\ openRow[o] \subseteq Requests
  BY <1>0, <1>4 DEF DebtInv, OpenRowsUntouched, OwedToOwner, TypeOK
<1>6. \A r \in payable : \A c \in Ids : r \notin Carries(c)
  BY <1>0, <1>5 DEF IInv, RecoveryInStep, Untouched, Carries
<1>7. Cleared(chain'[o], 0) /\ chain'[o] = Append(chain[o], w)
  <2>1. chain[o] \in Seq(Writes) /\ chain'[o] = Append(chain[o], w)
    BY <1>0, <1>1, <1>2, ChainType DEF enqueueWrite, TypeOK
  <2>2. Cleared(Append(chain[o], w), 0)
    BY <1>3, <2>1, QueueGrows
  <2> QED
    BY <2>1, <2>2
<1>8. \A p \in Operators \ {o} : chain'[p] = chain[p]
  BY <1>0, <1>1 DEF enqueueWrite, TypeOK
<1>9. NothingLeft'
  BY <1>0, <1>8 DEF DebtInv, NothingLeft, TypeOK
<1>10. CASE UNCHANGED <<nextId, owner, recs, job>> /\ op = "removeOpen"
  <2>1. OwedToOwner' /\ Attributed'
    BY <1>0, <1>10 DEF DebtInv, OwedToOwner, Attributed, Carries
  <2>2. OneTransfer'
    BY <1>0, <1>10 DEF DebtInv, OneTransfer
  <2>3. OpenRowsUntouched'
    <3>1. ASSUME NEW r, Untouched(r) PROVE Untouched(r)'
      BY <1>0, <1>10, <3>1, UntouchedStays
    <3> QED
      BY <1>0, <1>7, <1>8, <3>1 DEF DebtInv, OpenRowsUntouched, Cleared
  <2> QED
    BY <1>9, <2>1, <2>2, <2>3 DEF DebtInv
<1>11. CASE /\ op = "promote" /\ b = nextId /\ b \in Ids /\ nextId' = nextId + 1
            /\ owner' = [owner EXCEPT ![b] = o]
            /\ recs' = [recs EXCEPT ![b] = payable] /\ job' = [job EXCEPT ![b] = "pay"]
  <2> HIDE DEF payable
  <2>1. /\ nextId \in Nat /\ recs[b] = {} /\ batchRow[b] = {} /\ pool[b] = {}
        /\ job[b] = "none" /\ b \notin landed
    BY <1>0, <1>11 DEF IInv, IdsInOrder, TypeOK, Ids
  <2>2. /\ recs'[b] = payable /\ job'[b] = "pay" /\ owner'[b] = o
        /\ \A c \in Ids : c # b => recs'[c] = recs[c] /\ job'[c] = job[c] /\ owner'[c] = owner[c]
    BY <1>0, <1>11 DEF TypeOK
  <2>3. \A c \in Ids : Carries(c)' = IF c = b THEN payable ELSE Carries(c)
    BY <1>0, <2>1, <2>2 DEF Carries
  <2>4. payable \subseteq openRow[o]
    BY DEF payable
  <2>5. OwedToOwner'
    <3>1. \A c \in Ids : \A r \in Carries(c)' : debt'[r] = owner'[c]
      BY <1>0, <1>5, <2>2, <2>3, <2>4 DEF DebtInv, OwedToOwner
    <3> QED
      BY <1>0, <3>1 DEF DebtInv, OwedToOwner
  <2>6. Attributed'
    <3>1. \A c, d \in Ids : c # d => Carries(c)' \cap Carries(d)' = {}
      BY <1>6, <2>3 DEF DebtInv, Attributed
    <3>2. \A c \in Ids : \A r \in Carries(c)' : paid'[r] # <<>> => c \in landed'
      BY <1>0, <1>5, <2>3, <2>4 DEF DebtInv, Attributed, Untouched
    <3> QED
      BY <1>0, <3>1, <3>2 DEF DebtInv, Attributed
  <2>7. OneTransfer'
    <3>1. \A c \in landed' : job'[c] = job[c]
      BY <1>0, <2>1, <2>2 DEF TypeOK
    <3> QED
      BY <1>0, <3>1 DEF DebtInv, OneTransfer
  <2>8. OpenRowsUntouched'
    <3>1. ASSUME NEW p \in Operators, p # o, NEW r \in openRow[p], Untouched(r) PROVE Untouched(r)'
      <4>1. r \notin payable
        BY <1>5, <2>4, <3>1 DEF DebtInv, OwedToOwner
      <4>2. \A c \in Ids : r \in recs'[c] => r \in recs[c] /\ job'[c] = job[c]
        BY <2>2, <4>1
      <4> QED
        BY <1>0, <3>1, <4>2, UntouchedStays
    <3> QED
      BY <1>0, <1>7, <1>8, <3>1 DEF DebtInv, OpenRowsUntouched, Cleared
  <2> QED
    BY <1>9, <2>5, <2>6, <2>7, <2>8 DEF DebtInv
<1> QED
  BY <1>1, <1>10, <1>11

-----------------------------------------------------------------------------
(* A service that starts on an empty store satisfies the invariant.         *)
LEMMA DebtInit == Init => DebtInv
<1> SUFFICES ASSUME Init PROVE DebtInv
  OBVIOUS
<1>1. OwedToOwner /\ Attributed
  BY DEF Init, OwedToOwner, Attributed, Carries
<1>2. OneTransfer /\ OpenRowsUntouched
  BY DEF Init, OneTransfer, OpenRowsUntouched, NoId
<1>3. \A o \in Operators : chain[o] = <<>>
  BY DEF Init
<1>4. NothingLeft
  BY <1>3 DEF Init, NothingLeft
<1> QED
  BY <1>1, <1>2, <1>4 DEF DebtInv

(* Every step preserves the invariant.                                      *)
LEMMA DebtNext ==
  ASSUME Orderly, IInv, WritesInOrder, DebtInv, [Next]_vars
  PROVE  DebtInv'
<1>1. CASE \E r \in Requests : SettleInbound(r)
  BY <1>1, DebtUnbatched, DebtAccrued, DebtQuiet DEF SettleInbound
<1>2. CASE \E o \in Operators : Deadline(o) \/ StoreStep(o) \/ WriteFails(o)
  <2>1. PICK o \in Operators : Deadline(o) \/ StoreStep(o) \/ WriteFails(o)
    BY <1>2
  <2>2. CASE Deadline(o)
    <3>1. /\ {o} \in SUBSET Operators /\ (\A p \in {o} : accrual[p] # NoId)
          /\ flushAccrual(accrual, {o}) /\ phase \in Serving /\ phase' \in Serving
          /\ UNCHANGED <<nextId, owner, recs, store, network, debt>>
      BY <2>2 DEF Deadline, history
    <3> QED
      BY <3>1, DebtFlush
  <2>3. CASE StoreStep(o)
    BY <2>3, DebtPutOpen, DebtPromote, DebtPutBatch, DebtRemoveOpen, DebtRemoveBatch
       DEF StoreStep
  <2>4. ~WriteFails(o)
    BY NoWriteFails DEF IInv
  <2> QED
    BY <2>1, <2>2, <2>3, <2>4
<1>3. CASE \E b \in Ids : JobStep(b) \/ ChainStep(b)
  BY <1>3, DebtJobStep, DebtLand, DebtExpires DEF ChainStep
<1>4. CASE FlushPayouts
  <2>1. PICK S \in SUBSET Operators : S = Accruing
    BY DEF Accruing
  <2>2. /\ \A p \in S : accrual[p] # NoId
        /\ flushAccrual(accrual, S) /\ phase \in Serving /\ phase' \in Serving
        /\ UNCHANGED <<nextId, owner, recs, store, network, debt>>
    BY <1>4, <2>1 DEF FlushPayouts, Accruing, Serving, history
  <2> QED
    BY <2>2, DebtFlush
<1>5. CASE Exit \/ Crash
  BY <1>5, DebtForgotten
<1>6. CASE \/ \E b \in Ids : RecoverBatch(b)
           \/ \E o \in Operators : RecoverOpen(o)
  BY <1>6, DebtRecoverBatch, DebtRecoverOpen
<1>7. CASE \/ \E r \in Requests, o \in Operators : RecordRouting(r, o)
           \/ Shutdown \/ Boot \/ BootBlind \/ Listen \/ UNCHANGED vars
  BY <1>7, DebtQuiet
<1> QED
  BY <1>1, <1>2, <1>3, <1>4, <1>5, <1>6, <1>7 DEF Next, RecoveryStep

-----------------------------------------------------------------------------
(* The refinement.                                                          *)

(* A step incurs a debt, discharges the debts of one operator, or changes   *)
(* neither what is owed nor what is paid.                                   *)
LEMMA StepRefines ==
  ASSUME IInv, DebtInv, [Next]_vars
  PROVE  [Abstract!Next]_<<debt, paid>>
<1>1. CASE \E r \in Requests : SettleUnbatched(r) \/ SettleAccrued(r)
  <2>1. PICK r \in Requests : SettleUnbatched(r) \/ SettleAccrued(r)
    BY <1>1
  <2>2. Claim(r) /\ debt' = [debt EXCEPT ![r] = routing[r]]
    BY <2>1 DEF SettleUnbatched, SettleAccrued
  <2>3. debt[r] = None /\ routing[r] \in Operators /\ UNCHANGED paid
    BY <2>2, SettleStarts DEF Claim, network, IInv, TypeOK
  <2>4. Abstract!Incur(r, routing[r])
    BY <2>2, <2>3 DEF Abstract!Incur
  <2> QED
    BY <2>3, <2>4 DEF Abstract!Next
<1>2. CASE \E b \in Ids : Land(b)
  <2>1. PICK b \in Ids : Land(b)
    BY <1>2
  <2>2. Abstract!Discharge(owner[b], pool[b])
    BY <2>1, LandDischarges DEF Abstract!Discharge, Land, NetworkStep, history
  <2> QED
    BY <2>1, <2>2, LandDischarges DEF Abstract!Next
<1>3. CASE \/ \E r \in Requests, o \in Operators : RecordRouting(r, o)
           \/ \E r \in Requests : SettleDuplicate(r) \/ SettleNothingOwed(r)
           \/ \E o \in Operators : Deadline(o) \/ StoreStep(o) \/ WriteFails(o)
           \/ Shutdown \/ FlushPayouts \/ Exit \/ Crash
           \/ RecoveryStep \/ BootBlind \/ UNCHANGED vars
  <2>1. CASE \/ \E r \in Requests, o \in Operators : RecordRouting(r, o)
             \/ \E r \in Requests : SettleDuplicate(r) \/ SettleNothingOwed(r)
             \/ \E o \in Operators : Deadline(o) \/ WriteFails(o)
    BY <2>1 DEF RecordRouting, SettleDuplicate, SettleNothingOwed, Claim, Deadline, WriteFails,
                Head1, network, history
  <2>2. CASE \E o \in Operators : StoreStep(o)
    BY <2>2 DEF StoreStep, PutOpen, Promote, PutBatch, RemoveOpen, RemoveBatch, Head1, network
  <2>3. CASE Shutdown \/ FlushPayouts \/ Exit \/ Crash \/ BootBlind \/ UNCHANGED vars
    BY <2>3 DEF Shutdown, FlushPayouts, Exit, Crash, BootBlind, LoseMemory, vars, network, history
  <2>4. CASE RecoveryStep
    BY <2>4 DEF RecoveryStep, Boot, RecoverBatch, RecoverOpen, Recovering, Listen, network, history
  <2> QED
    BY <1>3, <2>1, <2>2, <2>3, <2>4
<1>4. CASE \E b \in Ids : JobStep(b) \/ Expire(b) \/ LeaseEnds(b)
  BY <1>4 DEF JobStep, CheckLandedFirst, Pay, PayConfirmed, PayThrows, LookAfterAttempt, LastLook,
              JobAt, Expire, LeaseEnds, NetworkStep, network, history
<1> QED
  BY <1>1, <1>2, <1>3, <1>4 DEF Next, SettleInbound, ChainStep

(* The service implements the abstract debt (runPayout, flushAccrual,       *)
(* recoverAccruals and the lease): whatever interleaving of requests,       *)
(* payouts, writes, network and restarts, a request becomes owed once, to   *)
(* one operator, and one transfer to that operator, covering only its       *)
(* unpaid requests, discharges it.                                          *)
THEOREM DebtImplemented ==
  ASSUME Orderly PROVE Spec => ImplementsDebt
<1>1. Init => Abstract!Init
  BY DEF Init, Abstract!Init
<1>2. Orderly /\ IInv /\ WritesInOrder /\ DebtInv /\ [Next]_vars => DebtInv'
  BY DebtNext
<1>3. IInv /\ DebtInv /\ [Next]_vars => [Abstract!Next]_<<debt, paid>>
  BY StepRefines
<1> QED
  BY <1>1, <1>2, <1>3, DebtInit, Inductive, WritesAlwaysInOrder, PTL DEF Spec, ImplementsDebt, Abstract!Spec

(* No request is paid for twice, whatever is retried and whatever is        *)
(* recovered (claimed, the lease, findLandedPayout).                        *)
THEOREM NoDoublePayment ==
  ASSUME Orderly PROVE Spec => []PaidAtMostOnce
<1>1. Orderly /\ IInv /\ WritesInOrder /\ DebtInv /\ [Next]_vars => DebtInv'
  BY DebtNext
<1>2. DebtInv => PaidAtMostOnce
  <2> SUFFICES ASSUME DebtInv, NEW r \in Requests PROVE Len(paid[r]) <= 1
    BY DEF PaidAtMostOnce
  <2>1. CASE paid[r] = <<>>
    BY <2>1
  <2>2. CASE Len(paid[r]) = 1
    BY <2>2
  <2> QED
    BY <2>1, <2>2 DEF DebtInv, Attributed
<1> QED
  BY <1>1, <1>2, DebtInit, Inductive, WritesAlwaysInOrder, PTL DEF Spec

-----------------------------------------------------------------------------
(* No debt is lost.  What this needs of the deployment is not what paying   *)
(* once needs: leases may lapse and the indexer may fail, but payouts are   *)
(* batched, and a process that starts can read the store.                   *)
Durable ==
    /\ 0 \notin BatchMins
    /\ CrashMode # "any"
    /\ MaxStoreFaults = 0 /\ MaxLoadFaults = 0

Unpaid(r) == debt[r] # None /\ paid[r] = <<>>

(* The row of payout b is about to be written.                              *)
Storing(b) ==
    \E o \in Operators : \E i \in DOMAIN chain[o] :
        chain[o][i].op \in {"promote", "putBatch"} /\ chain[o][i].id = b

Kept(r) == \E b \in Ids : r \in batchRow[b] \/ (r \in recs[b] /\ Storing(b))
Accrued(r) == \E o \in Operators : accrual[o] # NoId /\ r \in recs[accrual[o]]

(* While a process serves, a debt is in an open accrual or has its batch    *)
(* row; when none runs it is in the store; recovery works through the rows. *)
HeldByPhase ==
    \A r \in Requests : Unpaid(r) =>
        /\ phase \in Serving => Kept(r) \/ Accrued(r)
        /\ phase \in {"crashed", "exited"} => Recorded(r)
        /\ phase = "recovering" =>
              /\ Kept(r) \/ \E o \in todoOpen : r \in openRow[o]
              /\ r \in handled => Kept(r)

(* The open row has, or is about to have, all that an open accrual holds.   *)
RowFollows(o) ==
    accrual[o] # NoId => \A r \in recs[accrual[o]] :
        \/ r \in openRow[o] /\ ~Cleared(chain[o], 0)
        \/ \E i \in DOMAIN chain[o] :
              chain[o][i].op = "putOpen" /\ chain[o][i].id = accrual[o] /\ ~Cleared(chain[o], i)

(* Only the row of a payout that landed is removed.                         *)
RemovedLanded ==
    /\ \A o \in Operators : \A i \in DOMAIN chain[o] :
          chain[o][i].op = "removeBatch" => chain[o][i].id \in landed
    /\ phase = "recovering" => \A b \in todoBatch : batchRow[b] # {}

HeldInv ==
    /\ HeldByPhase
    /\ \A o \in Operators : RowFollows(o)
    /\ RemovedLanded

(* A queue that grows by w or not at all.                                   *)
Grows(o, w) == chain'[o] = chain[o] \/ chain'[o] = Append(chain[o], w)

(* A row about to be written stays so when a queue grows.                   *)
LEMMA StoringGrows ==
  ASSUME TypeOK, \A o \in Operators : \E w \in Writes : Grows(o, w), NEW b, Storing(b)
  PROVE  Storing(b)'
<1>1. PICK o \in Operators : \E i \in DOMAIN chain[o] :
         chain[o][i].op \in {"promote", "putBatch"} /\ chain[o][i].id = b
  BY DEF Storing
<1>2. PICK i \in DOMAIN chain[o] :
         chain[o][i].op \in {"promote", "putBatch"} /\ chain[o][i].id = b
  BY <1>1
<1>3. PICK w \in Writes : Grows(o, w)
  OBVIOUS
<1>4. i \in DOMAIN Append(chain[o], w) /\ Append(chain[o], w)[i] = chain[o][i]
  BY <1>2, ChainType, QueueGrows
<1>5. i \in DOMAIN chain'[o] /\ chain'[o][i] = chain[o][i]
  BY <1>2, <1>3, <1>4 DEF Grows
<1> QED
  BY <1>2, <1>5 DEF Storing

(* An open row stays followed while no write that clears it joins.          *)
LEMMA RowStays ==
  ASSUME TypeOK, NEW o \in Operators, RowFollows(o), NEW w \in Writes, Grows(o, w),
         w.op \notin Clearing, openRow'[o] = openRow[o],
         accrual'[o] # NoId => accrual'[o] = accrual[o] /\ recs'[accrual[o]] = recs[accrual[o]]
  PROVE  RowFollows(o)'
<1>1. CASE chain'[o] = chain[o]
  BY <1>1 DEF RowFollows, Cleared
<1>2. CASE chain'[o] = Append(chain[o], w)
  <2> DEFINE a == Append(chain[o], w)
  <2>1. /\ \A i \in DOMAIN chain[o] : i \in DOMAIN a /\ a[i] = chain[o][i]
        /\ \A i \in DOMAIN chain[o] \cup {0} : ~Cleared(chain[o], i) => ~Cleared(a, i)
    BY ChainType, QueueGrows
  <2>2. chain'[o] = a
    BY <1>2
  <2> HIDE DEF a
  <2> SUFFICES ASSUME accrual'[o] # NoId, NEW r \in recs[accrual[o]]
               PROVE  \/ r \in openRow[o] /\ ~Cleared(a, 0)
                      \/ \E i \in DOMAIN a : /\ a[i].op = "putOpen" /\ a[i].id = accrual[o]
                                             /\ ~Cleared(a, i)
    BY <2>2 DEF RowFollows, Cleared
  <2> QED
    BY <2>1 DEF RowFollows
<1> QED
  BY <1>1, <1>2 DEF Grows

(* Removals stay those of payouts that landed.                              *)
LEMMA RemovalsStay ==
  ASSUME TypeOK, RemovedLanded, landed \subseteq landed',
         \A o \in Operators : \E w \in Writes :
             Grows(o, w) /\ (w.op = "removeBatch" => w.id \in landed'),
         phase' = "recovering" => phase = phase' /\ todoBatch' \subseteq todoBatch,
         UNCHANGED batchRow
  PROVE  RemovedLanded'
<1>1. ASSUME NEW o \in Operators, NEW i \in DOMAIN chain'[o], chain'[o][i].op = "removeBatch"
      PROVE  chain'[o][i].id \in landed'
  <2>0. PICK w \in Writes : Grows(o, w) /\ (w.op = "removeBatch" => w.id \in landed')
    OBVIOUS
  <2>1. CASE chain'[o] = chain[o]
    BY <1>1, <2>1 DEF RemovedLanded
  <2>2. CASE chain'[o] = Append(chain[o], w)
    <3>1. i \in DOMAIN Append(chain[o], w)
      BY <2>2
    <3>2. \/ i \in DOMAIN chain[o] /\ Append(chain[o], w)[i] = chain[o][i]
          \/ Append(chain[o], w)[i] = w
      BY <3>1, ChainType, QueueGrows
    <3> QED
      BY <1>1, <2>0, <2>2, <3>2 DEF RemovedLanded
  <2> QED
    BY <2>0, <2>1, <2>2 DEF Grows
<1>2. phase' = "recovering" => \A b \in todoBatch' : batchRow'[b] # {}
  BY DEF RemovedLanded
<1> QED
  BY <1>1, <1>2 DEF RemovedLanded

(* Steps that hold on to what there is: payments, and the removal of a      *)
(* batch that was paid.                                                     *)
LEMMA HeldStill ==
  ASSUME IInv, HeldInv, UNCHANGED <<debt, accrual, recs, batchRow, openRow, recovery>>,
         phase' = phase \/ (phase \in Serving /\ phase' \in Serving),
         \A r \in Requests : paid'[r] = <<>> => paid[r] = <<>>,
         landed \subseteq landed',
         NEW w \in Writes, w.op = "removeBatch", \A o \in Operators : Grows(o, w),
         UNCHANGED chain \/ w.id \in landed
  PROVE  HeldInv'
<1>0. TypeOK /\ UNCHANGED <<handled, todoBatch, todoOpen>>
  BY DEF IInv, recovery
<1>1. \A r \in Requests : Kept(r) => Kept(r)'
  BY <1>0, StoringGrows DEF Kept
<1>2. \A r \in Requests : Accrued(r) => Accrued(r)'
  BY DEF Accrued
<1>3. HeldByPhase'
  BY <1>0, <1>1, <1>2 DEF HeldInv, HeldByPhase, Unpaid, Recorded, Serving
<1>4. \A o \in Operators : RowFollows(o)'
  BY <1>0, RowStays DEF HeldInv, Clearing
<1>5. RemovedLanded'
  <2>1. CASE UNCHANGED chain
    BY <1>0, <2>1 DEF HeldInv, RemovedLanded, Serving
  <2>2. CASE w.id \in landed
    BY <1>0, <2>2, RemovalsStay DEF HeldInv, Serving
  <2> QED
    BY <2>1, <2>2
<1> QED
  BY <1>3, <1>4, <1>5 DEF HeldInv

(* accrue: the request is in an open accrual that its row follows, or its   *)
(* batch row is about to be written.                                        *)
LEMMA HeldAccrued ==
  ASSUME IInv, HeldInv, NEW r \in Requests, SettleAccrued(r)
  PROVE  HeldInv'
<1>1. PICK o \in Operators : o = routing[r]
  BY DEF SettleAccrued, Claim, IInv, TypeOK
<1>2. PICK b \in Ids : b = IF accrual[o] = NoId THEN nextId ELSE accrual[o]
  BY <1>1 DEF SettleAccrued
<1>3. TypeOK /\ nextId \in Nat /\ chain[o] \in Seq(Writes)
  <2>1. TypeOK
    BY DEF IInv
  <2>2. nextId \in Nat
    BY <2>1 DEF TypeOK
  <2> QED
    BY <2>1, <2>2, ChainType
<1>4. /\ recs' = [recs EXCEPT ![b] = @ \cup {r}] /\ debt' = [debt EXCEPT ![r] = o]
      /\ phase \in Serving
      /\ UNCHANGED <<phase, batchRow, openRow, todoBatch, landed, paid>>
      /\ \/ flushAccrual([accrual EXCEPT ![o] = b], {o})
         \/ /\ accrual' = [accrual EXCEPT ![o] = b]
            /\ chain' = enqueueWrite(o, "putOpen", b)
  BY <1>1, <1>2 DEF SettleAccrued, Claim, store, network, recovery
<1>5. \A p \in Operators \ {o} : /\ accrual'[p] = accrual[p] /\ chain'[p] = chain[p]
                                 /\ accrual[p] # NoId => accrual[p] # b
  <2>1. ASSUME NEW p \in Operators \ {o}, accrual[p] # NoId PROVE accrual[p] # b
    <3>1. accrual[p] < nextId /\ owner[accrual[p]] = p
      BY <2>1 DEF IInv, OpenUnpaid
    <3>2. CASE accrual[o] = NoId
      BY <1>2, <1>3, <3>1, <3>2
    <3>3. CASE accrual[o] # NoId
      BY <1>2, <3>1, <3>3 DEF IInv, OpenUnpaid
    <3> QED
      BY <3>2, <3>3
  <2> QED
    BY <1>3, <1>4, <2>1 DEF flushAccrual, enqueueWrite, TypeOK
<1>6. PICK w \in Writes :
          /\ w.id = b /\ chain'[o] = Append(chain[o], w)
          /\ \/ w.op = "promote" /\ accrual'[o] = NoId
             \/ w.op = "putOpen" /\ accrual'[o] = b
  <2>1. CASE flushAccrual([accrual EXCEPT ![o] = b], {o})
    <3>1. PICK w \in Writes : w = [op |-> "promote", id |-> b]
      BY WriteType
    <3>2. chain'[o] = Append(chain[o], w) /\ accrual'[o] = NoId
      BY <1>3, <2>1, <3>1 DEF flushAccrual, TypeOK
    <3> QED
      BY <3>1, <3>2
  <2>2. CASE accrual' = [accrual EXCEPT ![o] = b] /\ chain' = enqueueWrite(o, "putOpen", b)
    <3>1. PICK w \in Writes : w = [op |-> "putOpen", id |-> b]
      BY WriteType
    <3>2. chain'[o] = Append(chain[o], w) /\ accrual'[o] = b
      BY <1>3, <2>2, <3>1 DEF enqueueWrite, TypeOK
    <3> QED
      BY <3>1, <3>2
  <2> QED
    BY <1>4, <2>1, <2>2
<1>7. \A p \in Operators : Grows(p, w)
  BY <1>5, <1>6 DEF Grows
<1>8. /\ \A c \in Ids : recs[c] \subseteq recs'[c] /\ (c # b => recs'[c] = recs[c])
      /\ r \in recs'[b]
  BY <1>3, <1>4 DEF TypeOK
<1>9. \E i \in DOMAIN chain'[o] : chain'[o][i] = w /\ ~Cleared(chain'[o], i)
  <2>1. \E i \in DOMAIN Append(chain[o], w) :
           Append(chain[o], w)[i] = w /\ ~Cleared(Append(chain[o], w), i)
    BY <1>3, QueueGrows
  <2> QED
    BY <1>6, <2>1
<1>10. HeldByPhase'
  <2> SUFFICES ASSUME NEW q \in Requests, Unpaid(q)' PROVE Kept(q)' \/ Accrued(q)'
    BY <1>4 DEF HeldByPhase, Serving
  <2>1. CASE q \in recs'[b]
    <3>1. CASE w.op = "promote"
      <4>1. Storing(b)'
        BY <1>6, <1>9, <3>1 DEF Storing
      <4> QED
        BY <2>1, <4>1 DEF Kept
    <3>2. CASE w.op = "putOpen"
      BY <1>6, <2>1, <3>2 DEF Accrued, NoId, Ids
    <3> QED
      BY <1>6, <3>1, <3>2
  <2>2. CASE q \notin recs'[b]
    <3>1. q # r /\ Unpaid(q)
      BY <1>3, <1>4, <1>8, <2>2 DEF Unpaid, TypeOK
    <3>2. CASE Kept(q)
      BY <1>3, <1>4, <1>7, <1>8, <3>2, StoringGrows DEF Kept
    <3>3. CASE Accrued(q)
      <4>1. PICK p \in Operators : accrual[p] # NoId /\ q \in recs[accrual[p]]
        BY <3>3 DEF Accrued
      <4>2. accrual[p] \in Ids
        BY <1>3, <4>1 DEF TypeOK
      <4>3. p # o
        BY <1>2, <1>8, <2>2, <4>1, <4>2
      <4> QED
        BY <1>5, <1>8, <4>1, <4>2, <4>3 DEF Accrued
    <3> QED
      BY <1>4, <3>1, <3>2, <3>3 DEF HeldInv, HeldByPhase
  <2> QED
    BY <2>1, <2>2
<1>11. ASSUME NEW p \in Operators PROVE RowFollows(p)'
  <2>1. CASE p = o
    BY <1>6, <1>9, <2>1 DEF RowFollows
  <2>2. CASE p # o
    <3>1. chain'[p] = chain[p] /\ openRow'[p] = openRow[p] /\ accrual'[p] = accrual[p]
      BY <1>4, <1>5, <2>2
    <3>2. accrual[p] # NoId => recs'[accrual[p]] = recs[accrual[p]]
      BY <1>3, <1>5, <1>8, <2>2 DEF TypeOK
    <3>3. RowFollows(p)
      BY DEF HeldInv
    <3> QED
      BY <3>1, <3>2, <3>3 DEF RowFollows, Cleared
  <2> QED
    BY <2>1, <2>2
<1>12. RemovedLanded'
  <2>1. \A p \in Operators : Grows(p, w) /\ (w.op = "removeBatch" => w.id \in landed')
    BY <1>6, <1>7
  <2>2. phase' # "recovering" /\ landed \subseteq landed' /\ UNCHANGED batchRow
    BY <1>4 DEF Serving
  <2> QED
    BY <1>3, <2>1, <2>2, RemovalsStay DEF HeldInv
<1> QED
  BY <1>10, <1>11, <1>12 DEF HeldInv

(* flushAccrual: what was in an open accrual is about to have its batch row.*)
LEMMA HeldFlush ==
  ASSUME IInv, HeldInv, NEW S \in SUBSET Operators, \A o \in S : accrual[o] # NoId,
         flushAccrual(accrual, S), phase \in Serving, phase' \in Serving,
         UNCHANGED <<recs, store, network, debt>>
  PROVE  HeldInv'
<1>0. TypeOK /\ UNCHANGED <<openRow, batchRow, landed, paid>>
  BY DEF IInv, store, network
<1>1. /\ \A o \in Operators : accrual'[o] = IF o \in S THEN NoId ELSE accrual[o]
      /\ \A o \in Operators :
            chain'[o] = IF o \in S THEN Append(chain[o], [op |-> "promote", id |-> accrual[o]])
                        ELSE chain[o]
      /\ \A o \in S : accrual[o] \in Ids
  BY <1>0 DEF flushAccrual, TypeOK
<1>2. \A o \in Operators : \E w \in Writes : Grows(o, w) /\ w.op # "removeBatch"
  <2> SUFFICES ASSUME NEW o \in Operators
               PROVE  \E w \in Writes : Grows(o, w) /\ w.op # "removeBatch"
    OBVIOUS
  <2>1. CASE o \in S
    <3>1. PICK w \in Writes : w = [op |-> "promote", id |-> accrual[o]]
      BY <1>1, <2>1, WriteType
    <3>2. w.op # "removeBatch" /\ chain'[o] = Append(chain[o], w)
      BY <1>1, <2>1, <3>1
    <3> QED
      BY <3>2 DEF Grows
  <2>2. CASE o \notin S
    <3>1. PICK w \in Writes : w = [op |-> "removeOpen", id |-> NoId]
      BY DEF Writes
    <3>2. w.op # "removeBatch" /\ chain'[o] = chain[o]
      BY <1>1, <2>2, <3>1
    <3> QED
      BY <3>2 DEF Grows
  <2> QED
    BY <2>1, <2>2
<1>3. \A o \in S : \A b \in Ids : b = accrual[o] => Storing(b)'
  <2> SUFFICES ASSUME NEW o \in S, NEW b \in Ids, b = accrual[o] PROVE Storing(b)'
    OBVIOUS
  <2>1. PICK w \in Writes : w = [op |-> "promote", id |-> b]
    BY WriteType
  <2>2. \E i \in DOMAIN Append(chain[o], w) : Append(chain[o], w)[i] = w
    BY <1>0, ChainType, QueueGrows
  <2>3. \E i \in DOMAIN chain'[o] : chain'[o][i] = w
    BY <1>1, <2>1, <2>2
  <2> QED
    BY <2>1, <2>3 DEF Storing
<1>4. HeldByPhase'
  <2> SUFFICES ASSUME NEW r \in Requests, Unpaid(r) PROVE Kept(r)' \/ Accrued(r)'
    BY <1>0 DEF HeldByPhase, Serving, Unpaid
  <2>1. CASE Kept(r)
    BY <1>0, <1>2, <2>1, StoringGrows DEF Kept
  <2>2. CASE Accrued(r)
    <3>1. PICK o \in Operators : accrual[o] # NoId /\ r \in recs[accrual[o]]
      BY <2>2 DEF Accrued
    <3>2. CASE o \in S
      <4>1. PICK b \in Ids : b = accrual[o]
        BY <1>1, <3>2
      <4>2. Storing(b)' /\ r \in recs'[b]
        BY <1>3, <3>1, <3>2, <4>1
      <4> QED
        BY <4>2 DEF Kept
    <3>3. CASE o \notin S
      BY <1>1, <3>1, <3>3 DEF Accrued
    <3> QED
      BY <3>2, <3>3
  <2> QED
    BY <2>1, <2>2 DEF HeldInv, HeldByPhase
<1>5. \A o \in Operators : RowFollows(o)'
  <2>1. ASSUME NEW o \in S PROVE RowFollows(o)'
    BY <1>1 DEF RowFollows
  <2>2. ASSUME NEW o \in Operators, o \notin S PROVE RowFollows(o)'
    <3>1. chain'[o] = chain[o] /\ openRow'[o] = openRow[o] /\ accrual'[o] = accrual[o]
      BY <1>0, <1>1, <2>2
    <3> QED
      BY <3>1 DEF HeldInv, RowFollows, Cleared
  <2> QED
    BY <2>1, <2>2
<1>6. RemovedLanded'
  <2>1. phase' # "recovering" /\ landed \subseteq landed' /\ UNCHANGED batchRow
    BY <1>0 DEF Serving
  <2> QED
    BY <1>0, <1>2, <2>1, RemovalsStay DEF HeldInv
<1> QED
  BY <1>4, <1>5, <1>6 DEF HeldInv

(* A write that runs is no longer in its queue; the others still are.       *)
LEMMA StoringRuns ==
  ASSUME TypeOK, NEW o \in Operators, chain[o] # <<>>,
         \A p \in Operators \ {o} : chain'[p] = chain[p],
         \A i \in DOMAIN chain[o] : i = 1 \/ \E j \in DOMAIN chain'[o] : chain'[o][j] = chain[o][i],
         NEW b, Storing(b)
  PROVE  Storing(b)' \/ (Head(chain[o]).op \in {"promote", "putBatch"} /\ Head(chain[o]).id = b)
<1>1. PICK p \in Operators : \E i \in DOMAIN chain[p] :
         chain[p][i].op \in {"promote", "putBatch"} /\ chain[p][i].id = b
  BY DEF Storing
<1>2. PICK i \in DOMAIN chain[p] :
         chain[p][i].op \in {"promote", "putBatch"} /\ chain[p][i].id = b
  BY <1>1
<1>3. CASE p # o
  BY <1>2, <1>3 DEF Storing
<1>4. CASE p = o /\ i # 1
  BY <1>2, <1>4 DEF Storing
<1>5. CASE p = o /\ i = 1
  <2>1. Head(chain[o]) = chain[o][1]
    BY ChainType, QueueShrinks
  <2> QED
    BY <1>2, <1>5, <2>1
<1> QED
  BY <1>3, <1>4, <1>5

(* What the store's steps have in common.                                   *)
LEMMA HeldWrite ==
  ASSUME IInv, HeldInv, NEW o \in Operators, NEW op, Head1(o, op),
         \A p \in Operators \ {o} : chain'[p] = chain[p] /\ openRow'[p] = openRow[p],
         \A i \in DOMAIN chain[o] : i = 1 \/ \E j \in DOMAIN chain'[o] : chain'[o][j] = chain[o][i],
         \A i \in DOMAIN chain'[o] :
             chain'[o][i].op # "removeBatch" \/ \E j \in DOMAIN chain[o] : chain'[o][i] = chain[o][j],
         RowFollows(o)',
         \A b \in Ids : \A r \in batchRow[b] : r \in batchRow'[b] \/ paid[r] # <<>>,
         op \in {"promote", "putBatch"} =>
             \A b \in Ids : b = Head(chain[o]).id => recs[b] \subseteq batchRow'[b]
  PROVE  HeldInv'
<1>0. /\ UNCHANGED <<phase, accrual, recs, debt, paid, landed>>
      /\ TypeOK /\ phase \in Serving /\ chain[o] # <<>> /\ Head(chain[o]).op = op
  BY DEF Head1, accruing, payouts, network, IInv
<1>1. ASSUME NEW r \in Requests, paid[r] = <<>>, Kept(r) PROVE Kept(r)'
  <2>1. PICK b \in Ids : r \in batchRow[b] \/ (r \in recs[b] /\ Storing(b))
    BY <1>1 DEF Kept
  <2>2. CASE r \in batchRow[b]
    BY <1>1, <2>2 DEF Kept
  <2>3. CASE r \in recs[b] /\ Storing(b)'
    BY <1>0, <2>3 DEF Kept
  <2>4. CASE r \in recs[b] /\ op \in {"promote", "putBatch"} /\ Head(chain[o]).id = b
    BY <2>4 DEF Kept
  <2> QED
    BY <1>0, <2>1, <2>2, <2>3, <2>4, StoringRuns
<1>2. HeldByPhase'
  <2>1. \A r \in Requests : Accrued(r) => Accrued(r)'
    BY <1>0 DEF Accrued
  <2> QED
    BY <1>0, <1>1, <2>1 DEF HeldInv, HeldByPhase, Unpaid, Serving
<1>3. ASSUME NEW p \in Operators \ {o} PROVE RowFollows(p)'
  <2>1. chain'[p] = chain[p] /\ openRow'[p] = openRow[p] /\ RowFollows(p)
    BY DEF HeldInv
  <2> QED
    BY <1>0, <2>1 DEF RowFollows, Cleared
<1>4. RemovedLanded'
  <2>1. ASSUME NEW p \in Operators, NEW i \in DOMAIN chain'[p], chain'[p][i].op = "removeBatch"
        PROVE  chain'[p][i].id \in landed
    BY <2>1 DEF HeldInv, RemovedLanded
  <2> QED
    BY <1>0, <2>1 DEF RemovedLanded, Serving
<1> QED
  BY <1>2, <1>3, <1>4 DEF HeldInv

(* An open row that stays, or that goes, when a write that leaves it alone, *)
(* or removes it, has run.                                                  *)
LEMMA RowRuns ==
  ASSUME TypeOK, NEW o \in Operators, RowFollows(o), chain[o] # <<>>,
         UNCHANGED <<accrual, recs>>, chain'[o] = Tail(chain[o]),
         Head(chain[o]).op # "putOpen",
         openRow'[o] = openRow[o] \/ Head(chain[o]).op \in Clearing
  PROVE  RowFollows(o)'
<1> DEFINE q == chain[o]
           a == Tail(chain[o])
<1>1. /\ 1 \in DOMAIN q /\ Head(q) = q[1] /\ \A i \in DOMAIN q : i \in Nat
      /\ \A i \in DOMAIN q : i = 1 \/ (i - 1 \in DOMAIN a /\ a[i - 1] = q[i])
      /\ \A i \in DOMAIN q : ~Cleared(q, i) => ~Cleared(a, i - 1)
      /\ ~Cleared(q, 0) => ~Cleared(q, 1) /\ Head(q).op \notin Clearing
  BY ChainType, QueueShrinks DEF Cleared
<1>2. ~Cleared(q, 0) => ~Cleared(a, 0)
  <2>1. ~Cleared(q, 1) => ~Cleared(a, 1 - 1)
    BY <1>1
  <2> QED
    BY <1>1, <2>1
<1> SUFFICES ASSUME accrual[o] # NoId, NEW r \in recs[accrual[o]]
             PROVE  \/ r \in openRow'[o] /\ ~Cleared(a, 0)
                    \/ \E i \in DOMAIN a : /\ a[i].op = "putOpen" /\ a[i].id = accrual[o]
                                           /\ ~Cleared(a, i)
  BY DEF RowFollows, Cleared
<1> HIDE DEF a
<1>3. CASE r \in openRow[o] /\ ~Cleared(q, 0)
  BY <1>1, <1>2, <1>3
<1>4. CASE \E i \in DOMAIN q : q[i].op = "putOpen" /\ q[i].id = accrual[o] /\ ~Cleared(q, i)
  <2>1. PICK i \in DOMAIN q : q[i].op = "putOpen" /\ q[i].id = accrual[o] /\ ~Cleared(q, i)
    BY <1>4
  <2>2. i # 1
    BY <1>1, <2>1
  <2> QED
    BY <1>1, <2>1, <2>2
<1> QED
  BY <1>3, <1>4 DEF RowFollows

(* The open row is written with the open accrual, or a promotion is still   *)
(* to come.                                                                 *)
LEMMA HeldPutOpen ==
  ASSUME IInv, WritesInOrder, HeldInv, NEW o \in Operators, PutOpen(o)
  PROVE  HeldInv'
<1> DEFINE q == chain[o]
           a == Tail(chain[o])
<1>1. /\ Head1(o, "putOpen") /\ q # <<>> /\ q \in Seq(Writes) /\ TypeOK
      /\ UNCHANGED <<batchRow, accrual, recs>>
      /\ chain'[o] = a /\ openRow'[o] = recs[Head(q).id]
      /\ \A p \in Operators \ {o} : chain'[p] = chain[p] /\ openRow'[p] = openRow[p]
  BY ChainType DEF PutOpen, Head1, accruing, payouts, IInv, TypeOK
<1>2. /\ 1 \in DOMAIN q /\ Head(q) = q[1] /\ q[1].op = "putOpen" /\ \A i \in DOMAIN q : i \in Nat
      /\ \A i \in DOMAIN q : i = 1 \/ (i - 1 \in DOMAIN a /\ a[i - 1] = q[i])
      /\ \A i \in DOMAIN q : ~Cleared(q, i) => ~Cleared(a, i - 1)
      /\ ~Cleared(q, 0) => ~Cleared(q, 1)
      /\ \A i \in DOMAIN a : i + 1 \in DOMAIN q /\ a[i] = q[i + 1]
  BY <1>1, QueueShrinks DEF Head1
<1>3. ~Cleared(q, 1) => accrual[o] = q[1].id /\ ~Cleared(a, 0)
  <2>1. ~Cleared(q, 1) => ~Cleared(a, 1 - 1)
    BY <1>2
  <2>2. WritesOf(o)
    BY DEF WritesInOrder
  <2> QED
    BY <1>2, <2>1, <2>2 DEF WritesOf
<1>4. RowFollows(o)'
  <2> HIDE DEF a
  <2> SUFFICES ASSUME accrual[o] # NoId, NEW r \in recs[accrual[o]]
               PROVE  \/ r \in openRow'[o] /\ ~Cleared(a, 0)
                      \/ \E i \in DOMAIN a : /\ a[i].op = "putOpen" /\ a[i].id = accrual[o]
                                             /\ ~Cleared(a, i)
    BY <1>1 DEF RowFollows, Cleared
  <2>1. CASE ~Cleared(q, 1)
    BY <1>1, <1>2, <1>3, <2>1
  <2>2. CASE Cleared(q, 1)
    <3>1. PICK i \in DOMAIN q : q[i].op = "putOpen" /\ q[i].id = accrual[o] /\ ~Cleared(q, i)
      BY <1>2, <2>2 DEF HeldInv, RowFollows
    <3> QED
      BY <1>2, <2>2, <3>1
  <2> QED
    BY <2>1, <2>2
<1>5. /\ \A i \in DOMAIN q : i = 1 \/ \E j \in DOMAIN chain'[o] : chain'[o][j] = q[i]
      /\ \A i \in DOMAIN chain'[o] :
            chain'[o][i].op # "removeBatch" \/ \E j \in DOMAIN q : chain'[o][i] = q[j]
  <2>1. \A i \in DOMAIN q : i = 1 \/ \E j \in DOMAIN a : a[j] = q[i]
    BY <1>2
  <2>2. \A i \in DOMAIN a : \E j \in DOMAIN q : a[i] = q[j]
    BY <1>2
  <2> HIDE DEF a
  <2> QED
    BY <1>1, <2>1, <2>2
<1> QED
  BY <1>1, <1>4, <1>5, HeldWrite

(* The batch row written is that of a payout, and holds all it held before. *)
LEMMA RowComplete ==
  ASSUME IInv, WritesInOrder, NEW o \in Operators, NEW op \in {"promote", "putBatch"}, Head1(o, op),
         batchRow' = [batchRow EXCEPT ![Head(chain[o]).id] = recs[Head(chain[o]).id]]
  PROVE  /\ \A b \in Ids : batchRow[b] \subseteq batchRow'[b]
         /\ \A b \in Ids : b = Head(chain[o]).id => recs[b] \subseteq batchRow'[b]
<1>1. chain[o] # <<>> /\ chain[o] \in Seq(Writes) /\ TypeOK
  BY ChainType DEF Head1, IInv
<1>2. PICK b \in Ids : b = Head(chain[o]).id
  BY ChainHead DEF Head1, IInv
<1>3. 1 \in DOMAIN chain[o] /\ chain[o][1].op = op /\ chain[o][1].id = b
  BY <1>1, <1>2, QueueShrinks DEF Head1
<1>4. batchRow[b] \subseteq recs[b]
  BY <1>3 DEF WritesInOrder, WritesOf, IInv, RowsInRecs
<1> QED
  BY <1>1, <1>2, <1>4 DEF TypeOK

(* The first half of a promotion: the accrual it takes is no longer open.   *)
LEMMA HeldPromote ==
  ASSUME IInv, WritesInOrder, HeldInv, NEW o \in Operators, Promote(o)
  PROVE  HeldInv'
<1>1. PICK b \in Ids : b = Head(chain[o]).id
  BY ChainHead DEF Promote, Head1, IInv
<1>2. PICK w \in Writes : w = [op |-> "removeOpen", id |-> b]
  BY WriteType
<1> DEFINE q == chain[o]
           h == <<w>> \o Tail(chain[o])
<1>3. /\ Head1(o, "promote") /\ q # <<>> /\ q \in Seq(Writes) /\ TypeOK
      /\ UNCHANGED <<openRow, accrual, recs>> /\ w.op = "removeOpen"
      /\ chain'[o] = h
      /\ \A p \in Operators \ {o} : chain'[p] = chain[p]
  BY <1>1, <1>2, ChainType DEF Promote, Head1, accruing, payouts, IInv, TypeOK
<1>4. /\ \A i \in DOMAIN h : i \in DOMAIN q /\ (h[i] = w \/ h[i] = q[i])
      /\ \A i \in DOMAIN q : i # 1 => i \in DOMAIN h /\ h[i] = q[i]
      /\ \A i \in DOMAIN q : ~Cleared(q, i) => ~Cleared(h, i)
  BY <1>3, QueueHalfDone
<1>5. 1 \in DOMAIN q /\ q[1].op = "promote" /\ Cleared(q, 0)
  <2>1. 1 \in DOMAIN q /\ q[1].op = "promote"
    BY <1>3, QueueShrinks DEF Head1
  <2> QED
    BY <2>1 DEF Cleared, Clearing
<1>6. RowFollows(o)'
  <2> HIDE DEF h
  <2> SUFFICES ASSUME accrual[o] # NoId, NEW r \in recs[accrual[o]]
               PROVE  \E i \in DOMAIN h : /\ h[i].op = "putOpen" /\ h[i].id = accrual[o]
                                          /\ ~Cleared(h, i)
    BY <1>3 DEF RowFollows, Cleared
  <2>1. PICK i \in DOMAIN q : q[i].op = "putOpen" /\ q[i].id = accrual[o] /\ ~Cleared(q, i)
    BY <1>5 DEF HeldInv, RowFollows
  <2>2. i # 1
    BY <1>5, <2>1
  <2> QED
    BY <1>4, <2>1, <2>2
<1>7. /\ \A i \in DOMAIN q : i = 1 \/ \E j \in DOMAIN chain'[o] : chain'[o][j] = q[i]
      /\ \A i \in DOMAIN chain'[o] :
            chain'[o][i].op # "removeBatch" \/ \E j \in DOMAIN q : chain'[o][i] = q[j]
  <2> HIDE DEF h
  <2> QED
    BY <1>3, <1>4
<1>8. /\ \A c \in Ids : batchRow[c] \subseteq batchRow'[c]
      /\ \A c \in Ids : c = Head(q).id => recs[c] \subseteq batchRow'[c]
  <2>1. batchRow' = [batchRow EXCEPT ![Head(chain[o]).id] = recs[Head(chain[o]).id]]
    BY DEF Promote
  <2> QED
    BY <1>3, <2>1, RowComplete
<1> QED
  BY <1>3, <1>6, <1>7, <1>8, HeldWrite

(* A write that leaves the open rows alone, or removes one, has run.        *)
LEMMA HeldTail ==
  ASSUME IInv, HeldInv, NEW o \in Operators, NEW op, op # "putOpen", Head1(o, op),
         chain' = [chain EXCEPT ![o] = Tail(@)],
         \A p \in Operators \ {o} : openRow'[p] = openRow[p],
         openRow'[o] = openRow[o] \/ op \in Clearing,
         \A b \in Ids : \A r \in batchRow[b] : r \in batchRow'[b] \/ paid[r] # <<>>,
         op \in {"promote", "putBatch"} =>
             \A b \in Ids : b = Head(chain[o]).id => recs[b] \subseteq batchRow'[b]
  PROVE  HeldInv'
<1> DEFINE q == chain[o]
           a == Tail(chain[o])
<1>1. /\ q # <<>> /\ q \in Seq(Writes) /\ TypeOK /\ RowFollows(o) /\ Head(q).op = op
      /\ UNCHANGED <<accrual, recs>> /\ chain'[o] = a
      /\ \A p \in Operators \ {o} : chain'[p] = chain[p]
  BY ChainType DEF Head1, accruing, payouts, HeldInv, IInv, TypeOK
<1>2. /\ \A i \in DOMAIN q : i = 1 \/ (i - 1 \in DOMAIN a /\ a[i - 1] = q[i])
      /\ \A i \in DOMAIN a : i + 1 \in DOMAIN q /\ a[i] = q[i + 1]
  BY <1>1, QueueShrinks
<1>3. RowFollows(o)'
  BY <1>1, RowRuns
<1> HIDE DEF q, a
<1>4. \A i \in DOMAIN q : i = 1 \/ \E j \in DOMAIN chain'[o] : chain'[o][j] = q[i]
  BY <1>1, <1>2
<1>5. \A i \in DOMAIN chain'[o] :
         chain'[o][i].op # "removeBatch" \/ \E j \in DOMAIN q : chain'[o][i] = q[j]
  BY <1>1, <1>2
<1> QED
  BY <1>1, <1>3, <1>4, <1>5, HeldWrite DEF q

(* The other writes; a batch row is removed only once its payout landed.    *)
LEMMA HeldStore ==
  ASSUME IInv, WritesInOrder, HeldInv, NEW o \in Operators,
         PutBatch(o) \/ RemoveOpen(o) \/ RemoveBatch(o)
  PROVE  HeldInv'
<1>0. TypeOK
  BY DEF IInv
<1>1. CASE PutBatch(o)
  <2>1. /\ Head1(o, "putBatch") /\ chain' = [chain EXCEPT ![o] = Tail(@)] /\ UNCHANGED openRow
        /\ batchRow' = [batchRow EXCEPT ![Head(chain[o]).id] = recs[Head(chain[o]).id]]
    BY <1>1 DEF PutBatch
  <2>2. /\ \A c \in Ids : batchRow[c] \subseteq batchRow'[c]
        /\ \A c \in Ids : c = Head(chain[o]).id => recs[c] \subseteq batchRow'[c]
    BY <2>1, RowComplete
  <2> QED
    BY <2>1, <2>2, HeldTail
<1>2. CASE RemoveOpen(o)
  <2>1. /\ Head1(o, "removeOpen") /\ chain' = [chain EXCEPT ![o] = Tail(@)] /\ UNCHANGED batchRow
        /\ \A p \in Operators \ {o} : openRow'[p] = openRow[p]
        /\ "removeOpen" \in Clearing
    BY <1>0, <1>2 DEF RemoveOpen, TypeOK, Clearing
  <2> QED
    BY <2>1, HeldTail
<1>3. CASE RemoveBatch(o)
  <2>1. PICK b \in Ids : b = Head(chain[o]).id
    BY <1>0, <1>3, ChainHead DEF RemoveBatch, Head1
  <2>2. /\ Head1(o, "removeBatch") /\ chain' = [chain EXCEPT ![o] = Tail(@)] /\ UNCHANGED openRow
        /\ \A c \in Ids : batchRow'[c] = IF c = b THEN {} ELSE batchRow[c]
    BY <1>0, <1>3, <2>1 DEF RemoveBatch, TypeOK
  <2>3. chain[o] # <<>> /\ chain[o] \in Seq(Writes)
    BY <1>0, <2>2, ChainType DEF Head1
  <2>4. 1 \in DOMAIN chain[o] /\ chain[o][1].op = "removeBatch" /\ chain[o][1].id = b
    BY <2>1, <2>2, <2>3, QueueShrinks DEF Head1
  <2>5. b \in landed
    BY <2>4 DEF HeldInv, RemovedLanded
  <2>6. \A c \in Ids : \A r \in batchRow[c] : r \in batchRow'[c] \/ paid[r] # <<>>
    BY <2>2, <2>5 DEF IInv, Covered
  <2> QED
    BY <2>2, <2>6, HeldTail
<1> QED
  BY <1>1, <1>2, <1>3

(* Steps that enqueue nothing and take nothing away.                        *)
LEMMA HeldQuiet ==
  ASSUME IInv, HeldInv,
         UNCHANGED <<debt, accrual, recs, batchRow, openRow, recovery, chain>>,
         phase' = phase \/ (phase \in Serving /\ phase' \in Serving),
         \A r \in Requests : paid'[r] = <<>> => paid[r] = <<>>,
         landed \subseteq landed'
  PROVE  HeldInv'
<1>0. UNCHANGED <<handled, todoBatch, todoOpen>>
  BY DEF recovery
<1>1. \A r \in Requests : (Kept(r) => Kept(r)') /\ (Accrued(r) => Accrued(r)')
                          /\ (Recorded(r) => Recorded(r)')
  BY DEF Kept, Accrued, Recorded, Storing
<1>2. HeldByPhase'
  BY <1>0, <1>1 DEF HeldInv, HeldByPhase, Unpaid, Serving
<1>3. \A o \in Operators : RowFollows(o)'
  BY DEF HeldInv, RowFollows, Cleared
<1>4. RemovedLanded'
  BY <1>0 DEF HeldInv, RemovedLanded, Serving
<1> QED
  BY <1>2, <1>3, <1>4 DEF HeldInv

(* Payments: only that of a payout that landed removes a row.               *)
LEMMA HeldJobStep ==
  ASSUME IInv, HeldInv, NEW b \in Ids, JobStep(b)
  PROVE  HeldInv'
<1>0. /\ UNCHANGED <<phase, debt, accrual, recs, batchRow, openRow, recovery, landed, paid>>
      /\ TypeOK
  BY DEF JobStep, CheckLandedFirst, Pay, PayConfirmed, PayThrows, LookAfterAttempt, LastLook,
         JobAt, accruing, store, network, IInv
<1>1. UNCHANGED chain \/ (b \in landed /\ finalizeSettled(b))
  <2>1. ASSUME NEW found \in BOOLEAN, findLandedPayout(b, found), found PROVE b \in landed
    BY <2>1 DEF findLandedPayout
  <2>2. CASE CheckLandedFirst(b) \/ LookAfterAttempt(b) \/ LastLook(b)
    BY <2>1, <2>2 DEF CheckLandedFirst, LookAfterAttempt, LastLook, finalizeFailed, GoTo
  <2>3. CASE PayConfirmed(b)
    BY <2>3 DEF PayConfirmed, IInv, IdsInOrder
  <2>4. CASE Pay(b) \/ PayThrows(b)
    BY <2>4 DEF Pay, PayThrows, GoTo
  <2> QED
    BY <2>2, <2>3, <2>4 DEF JobStep
<1>2. CASE UNCHANGED chain
  BY <1>0, <1>2, HeldQuiet
<1>3. CASE b \in landed /\ finalizeSettled(b)
  <2>1. PICK w \in Writes : w = [op |-> "removeBatch", id |-> b]
    BY WriteType
  <2>2. w.op = "removeBatch" /\ w.id \in landed
    BY <1>3, <2>1
  <2>3. \A o \in Operators : Grows(o, w)
    BY <1>0, <1>3, <2>1 DEF finalizeSettled, enqueueWrite, Grows, TypeOK
  <2> QED
    BY <1>0, <2>2, <2>3, HeldStill
<1> QED
  BY <1>1, <1>2, <1>3

(* The network only adds to what is paid.                                   *)
LEMMA HeldChainStep ==
  ASSUME IInv, HeldInv, NEW b \in Ids, ChainStep(b)
  PROVE  HeldInv'
<1>1. UNCHANGED <<debt, accrual, recs, batchRow, openRow, recovery, chain, phase>>
  BY DEF ChainStep, Land, Expire, LeaseEnds, NetworkStep, accruing, payouts, store, history
<1>2. landed \subseteq landed'
  BY DEF ChainStep, Land, Expire, LeaseEnds
<1>3. ASSUME NEW r \in Requests, paid'[r] = <<>> PROVE paid[r] = <<>>
  <2>1. paid[r] \in Seq(Operators)
    BY DEF IInv, TypeOK
  <2>2. paid'[r] = paid[r] \/ paid'[r] = Append(paid[r], owner[b])
    BY DEF ChainStep, Land, Expire, LeaseEnds
  <2> QED
    BY <1>3, <2>1, <2>2, AppendNonEmpty
<1> QED
  BY <1>1, <1>2, <1>3, HeldQuiet

(* What a process forgets it had stored: nothing is left to write.          *)
LEMMA HeldForgotten ==
  ASSUME Durable, IInv, HeldInv, Exit \/ Crash
  PROVE  HeldInv'
<1>0. /\ UNCHANGED <<openRow, batchRow, paid, debt>>
      /\ accrual' = [o \in Operators |-> NoId]
      /\ chain' = [o \in Operators |-> <<>>] /\ phase' \in {"exited", "crashed"}
      /\ phase \in Serving \cup {"recovering"}
  BY DEF Exit, Crash, LoseMemory, store, network, Serving
<1>1. \A o \in Operators : chain[o] = <<>> /\ DOMAIN chain[o] = {}
  <2>1. CASE Exit
    BY <2>1 DEF Exit, Idle
  <2>2. CASE Crash
    <3>1. CrashMode = "drained"
      BY <2>2, SettlementAssumption DEF Crash, Durable
    <3> QED
      BY <2>2, <3>1 DEF Crash
  <2> QED
    BY <2>1, <2>2
<1>2. \A b : ~Storing(b)
  BY <1>1 DEF Storing
<1>3. ASSUME NEW r \in Requests, Unpaid(r) PROVE Recorded(r)
  <2>1. CASE Kept(r)
    BY <1>2, <2>1 DEF Kept, Recorded
  <2>2. CASE Accrued(r)
    BY <1>1, <2>2 DEF Accrued, HeldInv, RowFollows, Recorded
  <2>3. CASE \E o \in todoOpen : r \in openRow[o]
    BY <2>3 DEF Recorded, IInv, TypeOK
  <2> QED
    BY <1>0, <1>3, <2>1, <2>2, <2>3 DEF HeldInv, HeldByPhase
<1>4. HeldByPhase'
  BY <1>0, <1>3 DEF HeldByPhase, Unpaid, Recorded, Serving
<1>5. \A o \in Operators : RowFollows(o)'
  BY <1>0 DEF RowFollows
<1>6. RemovedLanded'
  <2>1. \A o \in Operators : DOMAIN chain'[o] = {}
    BY <1>0
  <2> QED
    BY <1>0, <2>1 DEF RemovedLanded
<1> QED
  BY <1>4, <1>5, <1>6 DEF HeldInv

(* Recovery sees every row of the store, and starts serving when it has     *)
(* considered them all.                                                     *)
LEMMA HeldBootListen ==
  ASSUME IInv, HeldInv, Boot \/ Listen
  PROVE  HeldInv'
<1>0. /\ UNCHANGED <<accrual, recs, chain, openRow, batchRow, landed, paid, debt>>
      /\ \A o \in Operators : accrual[o] = NoId
  BY DEF Boot, Listen, accruing, payouts, store, network, history, IInv, RecoveryInStep, Serving
<1>1. CASE Boot
  <2>1. /\ phase \in {"crashed", "exited"} /\ phase' = "recovering" /\ handled' = {}
        /\ todoBatch' = {b \in Ids : batchRow[b] # {}}
        /\ todoOpen' = {o \in Operators : openRow[o] # {}}
    BY <1>1 DEF Boot, IInv, RecoveryInStep
  <2>2. ASSUME NEW r \in Requests, Unpaid(r) PROVE Kept(r)' \/ \E o \in todoOpen' : r \in openRow[o]
    <3>1. Recorded(r)
      BY <2>1, <2>2 DEF HeldInv, HeldByPhase
    <3>2. CASE \E b \in Ids : r \in batchRow[b]
      BY <1>0, <3>2 DEF Kept
    <3>3. CASE \E o \in Operators : r \in openRow[o]
      BY <2>1, <3>3
    <3> QED
      BY <3>1, <3>2, <3>3 DEF Recorded
  <2>3. HeldByPhase'
    BY <1>0, <2>1, <2>2 DEF HeldByPhase, Unpaid, Serving
  <2>4. RemovedLanded'
    BY <1>0, <2>1 DEF HeldInv, RemovedLanded
  <2> QED
    BY <1>0, <2>3, <2>4 DEF HeldInv, RowFollows
<1>2. CASE Listen
  <2>1. phase = "recovering" /\ todoOpen = {} /\ phase' = "up"
    BY <1>2 DEF Listen
  <2>2. \A r \in Requests : Kept(r) => Kept(r)'
    BY <1>0 DEF Kept, Storing
  <2>3. HeldByPhase'
    BY <1>0, <2>1, <2>2 DEF HeldInv, HeldByPhase, Unpaid, Serving
  <2>4. RemovedLanded'
    BY <1>0, <2>1 DEF HeldInv, RemovedLanded
  <2> QED
    BY <1>0, <2>3, <2>4 DEF HeldInv, RowFollows
<1> QED
  BY <1>1, <1>2

(* A stored batch is to be written again, with what is left to pay of it:   *)
(* all of it, for no earlier row named any of its requests.                 *)
LEMMA HeldRecoverBatch ==
  ASSUME IInv, WritesInOrder, HeldInv, NEW b \in Ids, RecoverBatch(b)
  PROVE  HeldInv'
<1>0. /\ phase = "recovering" /\ b \in todoBatch /\ todoBatch' \subseteq todoBatch
      /\ UNCHANGED <<phase, accrual, openRow, batchRow, landed, paid, debt, todoOpen>>
      /\ TypeOK /\ \A o \in Operators : accrual[o] = NoId
  BY DEF RecoverBatch, Recovering, store, network, history, IInv, RecoveryInStep, Serving
<1>1. batchRow[b] \ handled # {} /\ job[b] = "none"
  BY <1>0 DEF IInv, RecoveryInStep, HeldInv, RemovedLanded
<1>2. /\ chain' = enqueueWrite(owner[b], "putBatch", b)
      /\ recs' = [recs EXCEPT ![b] = batchRow[b] \ handled]
      /\ handled' = handled \cup (batchRow[b] \ handled)
  BY <1>1 DEF RecoverBatch, payRecovered
<1>3. PICK w \in Writes : w = [op |-> "putBatch", id |-> b]
  BY WriteType
<1>4. \A o \in Operators : Grows(o, w)
  BY <1>0, <1>2, <1>3 DEF enqueueWrite, Grows, TypeOK
<1>5. ~Storing(b)
  <2> SUFFICES ASSUME Storing(b) PROVE FALSE
    OBVIOUS
  <2>1. PICK o \in Operators : \E i \in DOMAIN chain[o] :
           chain[o][i].op \in {"promote", "putBatch"} /\ chain[o][i].id = b
    BY DEF Storing
  <2> QED
    BY <1>1, <2>1 DEF WritesInOrder, WritesOf
<1>6. \A r \in Requests : Kept(r) => Kept(r)'
  <2> SUFFICES ASSUME NEW r \in Requests, Kept(r) PROVE Kept(r)'
    OBVIOUS
  <2>1. PICK c \in Ids : r \in batchRow[c] \/ (r \in recs[c] /\ Storing(c))
    BY DEF Kept
  <2>2. CASE r \in batchRow[c]
    BY <1>0, <2>2 DEF Kept
  <2>3. CASE r \in recs[c] /\ Storing(c)
    <3>1. c # b /\ r \in recs'[c]
      BY <1>0, <1>2, <1>5, <2>3 DEF TypeOK
    <3>2. Storing(c)'
      BY <1>0, <1>4, <2>3, StoringGrows
    <3> QED
      BY <3>1, <3>2 DEF Kept
  <2> QED
    BY <2>1, <2>2, <2>3
<1>7. \A r \in batchRow[b] : Kept(r)'
  BY <1>0 DEF Kept
<1>8. HeldByPhase'
  BY <1>0, <1>2, <1>6, <1>7 DEF HeldInv, HeldByPhase, Unpaid, Serving
<1>9. \A o \in Operators : RowFollows(o)'
  BY <1>0 DEF RowFollows
<1>10. RemovedLanded'
  <2>1. w.op # "removeBatch"
    BY <1>3
  <2> QED
    BY <1>0, <1>4, <2>1, RemovalsStay DEF HeldInv
<1> QED
  BY <1>8, <1>9, <1>10 DEF HeldInv

(* What an open row holds beyond the batches becomes a batch of its own.    *)
LEMMA HeldRecoverOpen ==
  ASSUME IInv, HeldInv, NEW o \in Operators, RecoverOpen(o)
  PROVE  HeldInv'
<1> DEFINE payable == openRow[o] \ handled
<1>0. /\ phase = "recovering" /\ todoOpen' = todoOpen \ {o}
      /\ UNCHANGED <<phase, accrual, openRow, batchRow, landed, paid, debt, todoBatch>>
      /\ TypeOK /\ \A p \in Operators : accrual[p] = NoId
  BY DEF RecoverOpen, Recovering, store, network, history, IInv, RecoveryInStep, Serving
<1>1. PICK b \in Ids \cup {NoId}, op \in {"removeOpen", "promote"} :
         /\ chain' = enqueueWrite(o, op, b)
         /\ \/ UNCHANGED <<recs, handled>> /\ payable = {}
            \/ /\ op = "promote" /\ b = nextId /\ b \in Ids
               /\ recs' = [recs EXCEPT ![b] = payable] /\ handled' = handled \cup payable
         /\ op = "promote" => b \in Ids
  BY DEF RecoverOpen, dropRecovered, payRecovered
<1>2. PICK w \in Writes : w = [op |-> op, id |-> b]
  <2>1. [op |-> op, id |-> b] \in Writes
    BY <1>1 DEF Writes
  <2> QED
    BY <2>1
<1>3. chain'[o] = Append(chain[o], w) /\ \A p \in Operators : Grows(p, w)
  <2>1. chain' = [chain EXCEPT ![o] = Append(@, w)]
    BY <1>1, <1>2 DEF enqueueWrite
  <2>2. o \in DOMAIN chain /\ DOMAIN chain = Operators
    BY <1>0 DEF TypeOK
  <2> QED
    BY <2>1, <2>2 DEF Grows
<1>4. \A c \in Ids : recs[c] \subseteq recs'[c]
  <2>1. CASE UNCHANGED recs
    BY <2>1
  <2>2. CASE b = nextId /\ b \in Ids /\ recs' = [recs EXCEPT ![b] = payable]
    <3>1. IdsInOrder /\ nextId \in Nat /\ b \in Ids /\ b >= nextId
      BY <1>0, <2>2 DEF IInv, TypeOK, Ids
    <3>2. recs[b] = {}
      BY <3>1 DEF IdsInOrder
    <3> QED
      BY <1>0, <2>2, <3>2 DEF TypeOK
  <2> QED
    BY <1>1, <2>1, <2>2
<1>5. \A r \in payable : Kept(r)'
  <2> SUFFICES ASSUME NEW r \in payable PROVE Kept(r)'
    OBVIOUS
  <2>1. op = "promote" /\ b \in Ids /\ r \in recs'[b]
    BY <1>0, <1>1 DEF TypeOK
  <2>2. \E i \in DOMAIN Append(chain[o], w) : Append(chain[o], w)[i] = w
    BY <1>0, ChainType, QueueGrows
  <2>3. \E i \in DOMAIN chain'[o] : chain'[o][i] = w
    BY <1>3, <2>2
  <2> QED
    BY <1>2, <2>1, <2>3 DEF Kept, Storing
<1>6. \A r \in Requests : Kept(r) => Kept(r)'
  BY <1>0, <1>3, <1>4, StoringGrows DEF Kept
<1>7. HeldByPhase'
  <2>1. handled' \subseteq handled \cup payable
    BY <1>1
  <2> SUFFICES ASSUME NEW r \in Requests, Unpaid(r)
               PROVE  /\ Kept(r)' \/ \E p \in todoOpen' : r \in openRow[p]
                      /\ r \in handled' => Kept(r)'
    BY <1>0 DEF HeldByPhase, Unpaid, Serving
  <2>2. /\ Kept(r) \/ \E p \in todoOpen : r \in openRow[p]
        /\ r \in handled => Kept(r)
    BY <1>0 DEF HeldInv, HeldByPhase
  <2>3. r \in openRow[o] => r \in payable \/ r \in handled
    OBVIOUS
  <2> HIDE DEF payable
  <2> QED
    BY <1>0, <1>5, <1>6, <2>1, <2>2, <2>3
<1>8. \A p \in Operators : RowFollows(p)'
  BY <1>0 DEF RowFollows
<1>9. RemovedLanded'
  <2>1. w.op # "removeBatch"
    BY <1>1, <1>2
  <2> QED
    BY <1>0, <1>3, <2>1, RemovalsStay DEF HeldInv
<1> QED
  BY <1>7, <1>8, <1>9 DEF HeldInv

-----------------------------------------------------------------------------
(* Nothing is owed before the first request.                                *)
LEMMA HeldInit == Init => HeldInv
<1> SUFFICES ASSUME Init PROVE HeldInv
  OBVIOUS
<1>1. HeldByPhase
  BY DEF Init, HeldByPhase, Unpaid
<1>2. \A o \in Operators : RowFollows(o)
  BY DEF Init, RowFollows
<1>3. \A o \in Operators : DOMAIN chain[o] = {}
  BY DEF Init
<1>4. RemovedLanded
  BY <1>3 DEF Init, RemovedLanded
<1> QED
  BY <1>1, <1>2, <1>4 DEF HeldInv

(* Every step preserves it: payouts are batched, no store command fails and *)
(* no boot is blind.                                                        *)
LEMMA HeldNext ==
  ASSUME Durable, IInv, WritesInOrder, HeldInv, [Next]_vars
  PROVE  HeldInv'
<1>0. batchMin # 0 /\ storeFaults = 0 /\ loadFaults = 0
  BY SettlementAssumption DEF Durable, IInv, TypeOK
<1>1. CASE \E r \in Requests : SettleInbound(r)
  <2>1. PICK r \in Requests : SettleInbound(r)
    BY <1>1
  <2>2. CASE SettleAccrued(r)
    BY <2>2, HeldAccrued
  <2>3. ~SettleUnbatched(r)
    BY <1>0 DEF SettleUnbatched
  <2>4. CASE SettleDuplicate(r) \/ SettleNothingOwed(r)
    <3>1. UNCHANGED <<debt, accrual, recs, batchRow, openRow, recovery, chain, phase, paid, landed>>
      BY <2>4 DEF SettleDuplicate, SettleNothingOwed, Claim, accruing, payouts, store, network, history
    <3> QED
      BY <3>1, HeldQuiet
  <2> QED
    BY <2>1, <2>2, <2>3, <2>4 DEF SettleInbound
<1>2. CASE \E o \in Operators : Deadline(o) \/ StoreStep(o) \/ WriteFails(o)
  <2>1. PICK o \in Operators : Deadline(o) \/ StoreStep(o) \/ WriteFails(o)
    BY <1>2
  <2>2. CASE Deadline(o)
    <3>1. /\ {o} \in SUBSET Operators /\ (\A p \in {o} : accrual[p] # NoId)
          /\ flushAccrual(accrual, {o}) /\ phase \in Serving /\ phase' \in Serving
          /\ UNCHANGED <<recs, store, network, debt>>
      BY <2>2 DEF Deadline, history
    <3> QED
      BY <3>1, HeldFlush
  <2>3. CASE StoreStep(o)
    BY <2>3, HeldPutOpen, HeldPromote, HeldStore DEF StoreStep
  <2>4. ~WriteFails(o)
    BY <1>0 DEF WriteFails, Durable
  <2> QED
    BY <2>1, <2>2, <2>3, <2>4
<1>3. CASE \E b \in Ids : JobStep(b) \/ ChainStep(b)
  BY <1>3, HeldJobStep, HeldChainStep
<1>4. CASE FlushPayouts
  <2>1. PICK S \in SUBSET Operators : S = Accruing
    BY DEF Accruing
  <2>2. /\ \A p \in S : accrual[p] # NoId
        /\ flushAccrual(accrual, S) /\ phase \in Serving /\ phase' \in Serving
        /\ UNCHANGED <<recs, store, network, debt>>
    BY <1>4, <2>1 DEF FlushPayouts, Accruing, Serving, history
  <2> QED
    BY <2>2, HeldFlush
<1>5. CASE Exit \/ Crash
  BY <1>5, HeldForgotten
<1>6. CASE RecoveryStep
  BY <1>6, HeldBootListen, HeldRecoverBatch, HeldRecoverOpen DEF RecoveryStep
<1>7. CASE (\E r \in Requests, o \in Operators : RecordRouting(r, o)) \/ Shutdown \/ UNCHANGED vars
  <2>1. /\ UNCHANGED <<debt, accrual, recs, batchRow, openRow, recovery, chain, paid, landed>>
        /\ phase' = phase \/ (phase \in Serving /\ phase' \in Serving)
    BY <1>7 DEF RecordRouting, Shutdown, vars, accruing, payouts, store, network, history, Serving
  <2> QED
    BY <2>1, HeldQuiet
<1>8. ~BootBlind
  BY <1>0 DEF BootBlind, Durable
<1> QED
  BY <1>1, <1>2, <1>3, <1>4, <1>5, <1>6, <1>7, <1>8 DEF Next

(* No debt is lost: one not yet paid is in the process's hands, about to be *)
(* written or in the store, through shutdowns, drained crashes, recoveries, *)
(* failed payouts, failed lookups and expired leases (accrue's open row,    *)
(* flushAccrual's promotion, finalizeFailed keeping the row,                *)
(* recoverAccruals).                                                        *)
THEOREM NoDebtIsLost ==
  ASSUME Durable PROVE Spec => []DebtHeld
<1>1. Durable /\ IInv /\ WritesInOrder /\ HeldInv /\ [Next]_vars => HeldInv'
  BY HeldNext
<1>2. IInv /\ HeldInv => DebtHeld
  <2> SUFFICES ASSUME IInv, HeldInv, NEW r \in Requests, Unpaid(r) PROVE Held(r)
    BY DEF DebtHeld, Unpaid
  <2>1. CASE Kept(r)
    BY <2>1 DEF Kept, Storing, Held
  <2>2. CASE Accrued(r)
    <3>1. PICK o \in Operators : accrual[o] # NoId /\ r \in recs[accrual[o]]
      BY <2>2 DEF Accrued
    <3>2. accrual[o] \in Ids
      BY <3>1 DEF IInv, TypeOK
    <3> QED
      BY <3>1, <3>2 DEF Held
  <2>3. CASE Recorded(r)
    BY <2>3 DEF Recorded, Held
  <2>4. CASE \E o \in todoOpen : r \in openRow[o]
    BY <2>4 DEF Held, IInv, TypeOK
  <2>5. phase \in Serving \cup {"crashed", "exited", "recovering"}
    BY DEF IInv, TypeOK, Phases
  <2> QED
    BY <2>1, <2>2, <2>3, <2>4, <2>5 DEF HeldInv, HeldByPhase
<1> QED
  BY <1>1, <1>2, HeldInit, Inductive, WritesAlwaysInOrder, PTL DEF Spec
-----------------------------------------------------------------------------
(* The report against the store.  As long as every boot could read it, what *)
(* the store records of a request the process holds too, in a payout that   *)
(* the report counts.                                                       *)
Recording == {"putOpen", "promote", "putBatch"}
InSight(r) == \E b \in Ids \ unbatched : r \in recs[b]

(* Nothing is recorded of a payout of a request of its own.                 *)
RecordsBatched ==
    \A o \in Operators : \A i \in DOMAIN chain[o] :
        chain[o][i].op \in Recording => chain[o][i].id \notin unbatched

(* What is recorded is in sight of the report; recovery brings there all it *)
(* has handled, and handles every row.                                      *)
RecordedInSight ==
    loadFaults = 0 =>
        /\ phase \in Serving => \A r \in Requests : Recorded(r) => InSight(r)
        /\ phase = "recovering" =>
              /\ \A r \in handled : InSight(r)
              /\ \A o \in Operators \ todoOpen : openRow[o] \subseteq handled

Shown == RecordsBatched /\ RecordedInSight

(* What a queue holds once its first write has run, or half of it, or has   *)
(* failed: no write but what it held, and the removal a promotion leaves.   *)
LEMMA ChainRuns ==
  ASSUME IInv, NEW o \in Operators, StoreStep(o) \/ WriteFails(o),
         NEW p \in Operators, NEW i \in DOMAIN chain'[p]
  PROVE  chain'[p][i].op = "removeOpen" \/ \E j \in DOMAIN chain[p] : chain'[p][i] = chain[p][j]
<1> DEFINE q == chain[o]
<1>1. /\ q # <<>> /\ q \in Seq(Writes)
      /\ \/ chain' = [chain EXCEPT ![o] = Tail(@)]
         \/ Promote(o)
  BY ChainType DEF StoreStep, PutOpen, Promote, PutBatch, RemoveOpen, RemoveBatch, WriteFails,
         Head1, IInv
<1>2. /\ chain \in [Operators -> Seq(Writes)]
      /\ p # o => chain'[p] = chain[p]
  BY <1>1 DEF Promote, IInv, TypeOK
<1>3. CASE p = o /\ chain' = [chain EXCEPT ![o] = Tail(@)]
  <2>1. chain'[p] = Tail(q)
    BY <1>2, <1>3
  <2>2. i + 1 \in DOMAIN q /\ Tail(q)[i] = q[i + 1]
    BY <1>1, <2>1, QueueShrinks
  <2> QED
    BY <1>3, <2>1, <2>2
<1>4. CASE p = o /\ Promote(o)
  <2>1. PICK b \in Ids : b = Head(chain[o]).id
    BY <1>4, ChainHead DEF Promote, Head1, IInv
  <2>2. PICK w \in Writes : w = [op |-> "removeOpen", id |-> b]
    BY WriteType
  <2>3. chain'[p] = <<w>> \o Tail(q) /\ w.op = "removeOpen"
    BY <1>2, <1>4, <2>1, <2>2 DEF Promote
  <2>4. i \in DOMAIN (<<w>> \o Tail(q))
    BY <2>3
  <2>5. i \in DOMAIN q /\ ((<<w>> \o Tail(q))[i] = w \/ (<<w>> \o Tail(q))[i] = q[i])
    BY <1>1, <2>3, <2>4, QueueHalfDone
  <2> QED
    BY <1>4, <2>3, <2>5
<1> QED
  BY <1>1, <1>2, <1>3, <1>4

(* A write joins one queue.                                                 *)
LEMMA Enqueued ==
  ASSUME TypeOK, NEW o \in Operators, NEW op, NEW b, [op |-> op, id |-> b] \in Writes,
         chain' = enqueueWrite(o, op, b)
  PROVE  \E w \in Writes : w.op = op /\ w.id = b /\ \A p \in Operators : Grows(p, w)
<1>1. PICK w \in Writes : w = [op |-> op, id |-> b]
  OBVIOUS
<1>2. \A p \in Operators : Grows(p, w)
  BY <1>1 DEF enqueueWrite, Grows, TypeOK
<1> QED
  BY <1>1, <1>2

(* A promotion joins the queue of every operator whose accrual is flushed.  *)
LEMMA PromotionsQueued ==
  ASSUME TypeOK, NEW open \in [Operators -> Ids \cup {NoId}], NEW S \in SUBSET Operators,
         \A o \in S : open[o] \in Ids, flushAccrual(open, S), NEW o \in Operators
  PROVE  \E w \in Writes :
             Grows(o, w) /\ (w.op = "removeOpen" \/ (w.op = "promote" /\ o \in S /\ w.id = open[o]))
<1>1. CASE o \in S
  <2>1. PICK w \in Writes : w = [op |-> "promote", id |-> open[o]]
    BY <1>1, WriteType
  <2> QED
    BY <1>1, <2>1 DEF flushAccrual, Grows
<1>2. CASE o \notin S
  <2>1. PICK w \in Writes : w = [op |-> "removeOpen", id |-> NoId]
    BY DEF Writes
  <2> QED
    BY <1>2, <2>1 DEF flushAccrual, Grows
<1> QED
  BY <1>1, <1>2

(* What joins a queue must be a batch's, if it records anything.            *)
LEMMA BatchedGrows ==
  ASSUME TypeOK, RecordsBatched, UNCHANGED unbatched,
         \A o \in Operators : \E w \in Writes :
             Grows(o, w) /\ (w.op \in Recording => w.id \notin unbatched)
  PROVE  RecordsBatched'
<1> SUFFICES ASSUME NEW o \in Operators, NEW i \in DOMAIN chain'[o], chain'[o][i].op \in Recording
             PROVE  chain'[o][i].id \notin unbatched
  BY DEF RecordsBatched
<1>0. PICK w \in Writes : Grows(o, w) /\ (w.op \in Recording => w.id \notin unbatched)
  OBVIOUS
<1>1. CASE chain'[o] = chain[o]
  BY <1>1 DEF RecordsBatched
<1>2. CASE chain'[o] = Append(chain[o], w)
  <2>1. i \in DOMAIN Append(chain[o], w)
    BY <1>2
  <2>2. \/ i \in DOMAIN chain[o] /\ Append(chain[o], w)[i] = chain[o][i]
        \/ Append(chain[o], w)[i] = w
    BY <2>1, ChainType, QueueGrows
  <2> QED
    BY <1>0, <1>2, <2>2 DEF RecordsBatched
<1> QED
  BY <1>0, <1>1, <1>2 DEF Grows

(* A payout of a request of its own comes into being with a fresh id, which *)
(* no write names yet.                                                      *)
LEMMA BatchedIntake ==
  ASSUME IInv, ReportInv, WritesInOrder, RecordsBatched, NEW r \in Requests, SettleInbound(r)
  PROVE  RecordsBatched'
<1>0. TypeOK
  BY DEF IInv
<1>1. CASE SettleDuplicate(r) \/ SettleNothingOwed(r)
  BY <1>1 DEF SettleDuplicate, SettleNothingOwed, payouts, RecordsBatched
<1>2. CASE SettleUnbatched(r)
  <2>1. UNCHANGED chain /\ unbatched' = unbatched \cup {nextId} /\ nextId \in Ids
    BY <1>2 DEF SettleUnbatched
  <2>2. job[nextId] = "none" /\ ~(nextId < nextId)
    BY <2>1, FreshId DEF Ids
  <2>3. ASSUME NEW o \in Operators, NEW i \in DOMAIN chain[o], chain[o][i].op \in Recording
        PROVE  chain[o][i].id # nextId
    BY <2>2, <2>3 DEF WritesInOrder, WritesOf, Recording
  <2> QED
    BY <2>1, <2>3 DEF RecordsBatched
<1>3. CASE SettleAccrued(r)
  <2>1. PICK o \in Operators, b \in Ids :
          /\ b = IF accrual[o] = NoId THEN nextId ELSE accrual[o]
          /\ \/ flushAccrual([accrual EXCEPT ![o] = b], {o})
             \/ chain' = enqueueWrite(o, "putOpen", b)
    BY <1>0, <1>3 DEF SettleAccrued, Claim, TypeOK
  <2>2. b \notin unbatched /\ unbatched' = unbatched
    BY <1>3, <2>1, FreshId DEF SettleAccrued, ReportInv, HeldInOrder, Open
  <2>3. CASE chain' = enqueueWrite(o, "putOpen", b)
    <3>1. [op |-> "putOpen", id |-> b] \in Writes
      BY WriteType
    <3> QED
      BY <1>0, <2>2, <2>3, <3>1, Enqueued, BatchedGrows
  <2>4. CASE flushAccrual([accrual EXCEPT ![o] = b], {o})
    <3> DEFINE open == [accrual EXCEPT ![o] = b]
    <3>1. open \in [Operators -> Ids \cup {NoId}] /\ \A p \in {o} : open[p] = b
      BY <1>0 DEF TypeOK
    <3> HIDE DEF open
    <3>2. {o} \in SUBSET Operators /\ \A p \in {o} : open[p] \in Ids
      BY <3>1
    <3>3. flushAccrual(open, {o})
      BY <2>4 DEF open
    <3>4. ASSUME NEW p \in Operators
          PROVE  \E w \in Writes : Grows(p, w) /\ (w.op \in Recording => w.id \notin unbatched)
      <4>1. PICK w \in Writes : /\ Grows(p, w)
                                /\ \/ w.op = "removeOpen"
                                   \/ w.op = "promote" /\ p \in {o} /\ w.id = open[p]
        BY <1>0, <3>1, <3>2, <3>3, PromotionsQueued
      <4> QED
        BY <2>2, <3>1, <4>1 DEF Recording
    <3> QED
      BY <1>0, <2>2, <3>4, BatchedGrows
  <2> QED
    BY <2>1, <2>3, <2>4
<1> QED
  BY <1>1, <1>2, <1>3 DEF SettleInbound

(* Every step keeps to it.                                                  *)
LEMMA BatchedNext ==
  ASSUME IInv, ReportInv, WritesInOrder, RecordsBatched, [Next]_vars
  PROVE  RecordsBatched'
<1>0. TypeOK
  BY DEF IInv
<1>1. ASSUME NEW S \in SUBSET Operators, \A o \in S : accrual[o] # NoId, flushAccrual(accrual, S),
             UNCHANGED unbatched
      PROVE  RecordsBatched'
  <2>1. /\ accrual \in [Operators -> Ids \cup {NoId}] /\ \A o \in S : accrual[o] \in Ids
        /\ \A o \in S : accrual[o] \notin unbatched
    BY <1>0, <1>1 DEF TypeOK, ReportInv, HeldInOrder, Open
  <2>2. ASSUME NEW o \in Operators
        PROVE  \E w \in Writes : Grows(o, w) /\ (w.op \in Recording => w.id \notin unbatched)
    <3>1. PICK w \in Writes : /\ Grows(o, w)
                              /\ \/ w.op = "removeOpen"
                                 \/ w.op = "promote" /\ o \in S /\ w.id = accrual[o]
      BY <1>0, <1>1, <2>1, PromotionsQueued
    <3> QED
      BY <2>1, <3>1 DEF Recording
  <2> QED
    BY <1>0, <1>1, <2>2, BatchedGrows
<1>2. ASSUME NEW o \in Operators, Deadline(o) PROVE RecordsBatched'
  <2>1. {o} \in SUBSET Operators /\ \A p \in {o} : accrual[p] # NoId
    BY <1>2 DEF Deadline
  <2> QED
    BY <1>1, <1>2, <2>1 DEF Deadline
<1>3. CASE FlushPayouts
  <2>1. Accruing \in SUBSET Operators /\ \A p \in Accruing : accrual[p] # NoId
    BY DEF Accruing
  <2> QED
    BY <1>1, <1>3, <2>1 DEF FlushPayouts
<1>4. ASSUME NEW o \in Operators, StoreStep(o) \/ WriteFails(o) PROVE RecordsBatched'
  <2>1. UNCHANGED unbatched
    BY <1>4 DEF StoreStep, PutOpen, Promote, PutBatch, RemoveOpen, RemoveBatch, WriteFails,
                Head1, payouts
  <2> QED
    BY <1>4, <2>1, ChainRuns DEF RecordsBatched, Recording
<1>5. ASSUME NEW b \in Ids, JobStep(b) PROVE RecordsBatched'
  <2>1. UNCHANGED unbatched
    BY <1>5 DEF JobStep, CheckLandedFirst, Pay, PayConfirmed, PayThrows, LookAfterAttempt,
                LastLook, JobAt
  <2>2. UNCHANGED chain \/ (job[b] # "none" /\ chain' = enqueueWrite(owner[b], "removeBatch", b))
    BY <1>5 DEF JobStep, CheckLandedFirst, Pay, PayConfirmed, PayThrows, LookAfterAttempt,
                LastLook, JobAt, finalizeSettled, finalizeFailed, GoTo
  <2>3. CASE UNCHANGED chain
    BY <2>1, <2>3 DEF RecordsBatched
  <2>4. CASE job[b] # "none" /\ chain' = enqueueWrite(owner[b], "removeBatch", b)
    <3>1. owner[b] \in Operators /\ [op |-> "removeBatch", id |-> b] \in Writes
      <4>1. b < nextId
        BY <2>4 DEF IInv, IdsInOrder, TypeOK, Ids
      <4> QED
        BY <4>1, WriteType DEF IInv, IdsInOrder
    <3>2. PICK w \in Writes : w.op = "removeBatch" /\ \A p \in Operators : Grows(p, w)
      BY <1>0, <2>4, <3>1, Enqueued
    <3> QED
      BY <1>0, <2>1, <3>2, BatchedGrows DEF Recording
  <2> QED
    BY <2>2, <2>3, <2>4
<1>6. CASE \/ \E r \in Requests, o \in Operators : RecordRouting(r, o)
           \/ \E b \in Ids : ChainStep(b)
           \/ Shutdown \/ Boot \/ Listen \/ BootBlind \/ UNCHANGED vars
  <2>1. UNCHANGED <<chain, unbatched>>
    BY <1>6 DEF RecordRouting, ChainStep, Land, Expire, LeaseEnds, NetworkStep, Shutdown, Boot,
                Listen, BootBlind, vars, payouts
  <2> QED
    BY <2>1 DEF RecordsBatched
<1>7. CASE Exit \/ Crash
  BY <1>7 DEF Exit, Crash, LoseMemory, RecordsBatched
<1>8. CASE (\E b \in Ids : RecoverBatch(b)) \/ (\E o \in Operators : RecoverOpen(o))
  <2>1. unbatched' = {}
    BY <1>8 DEF RecoverBatch, RecoverOpen, Recovering, ReportInv, HeldInOrder, Serving
  <2> QED
    BY <2>1 DEF RecordsBatched
<1> QED
  BY <1>2, <1>3, <1>4, <1>5, <1>6, <1>7, <1>8, BatchedIntake DEF Next, RecoveryStep

(* A step of a serving process that lets go of no record it holds, and      *)
(* records nothing.                                                         *)
LEMMA SightKept ==
  ASSUME RecordedInSight, phase \in Serving, phase' \in Serving,
         UNCHANGED <<openRow, batchRow, loadFaults>>,
         \A b \in Ids \ unbatched : recs[b] # {} => b \notin unbatched' /\ recs[b] \subseteq recs'[b]
  PROVE  RecordedInSight'
<1>1. \A r \in Requests : InSight(r) => InSight(r)'
  BY DEF InSight
<1>2. \A r \in Requests : Recorded(r)' => Recorded(r)
  BY DEF Recorded
<1> QED
  BY <1>1, <1>2 DEF RecordedInSight, Serving

(* A recovered payout brings what it is to pay in sight.                    *)
LEMMA SightRecovered ==
  ASSUME IInv, ReportInv, phase = "recovering", UNCHANGED <<phase, unbatched>>,
         \A r \in handled : InSight(r), NEW b \in Ids, NEW o,
         NEW payable \in SUBSET Requests, recs[b] = {}, NEW write, NEW start,
         payRecovered(o, b, payable, write, start)
  PROVE  \A r \in handled' : InSight(r)'
<1>1. /\ handled' = handled \cup payable /\ recs' = [recs EXCEPT ![b] = payable]
      /\ recs \in [Ids -> SUBSET Requests] /\ unbatched = {} /\ unbatched' = {}
  BY DEF payRecovered, IInv, TypeOK, ReportInv, HeldInOrder, Serving
<1>2. \A c \in Ids : recs[c] \subseteq recs'[c]
  BY <1>1
<1>3. payable = recs'[b]
  BY <1>1
<1> QED
  BY <1>1, <1>2, <1>3 DEF InSight

(* Recovery, from the boot to the listener.                                 *)
LEMMA SightRecovery ==
  ASSUME IInv, ReportInv, RecordedInSight, RecoveryStep
  PROVE  RecordedInSight'
<1>1. CASE Boot
  <2>1. /\ handled' = {} /\ phase' = "recovering"
        /\ \A o \in Operators \ todoOpen' : openRow'[o] = {}
    BY <1>1 DEF Boot, store, IInv, RecoveryInStep
  <2> QED
    BY <2>1 DEF RecordedInSight, Serving
<1>2. CASE Listen
  <2>1. /\ phase = "recovering" /\ phase' = "up" /\ todoBatch = {} /\ todoOpen = {}
        /\ UNCHANGED <<openRow, batchRow, loadFaults, recs, unbatched>>
    BY <1>2 DEF Listen, store, history, payouts
  <2>2. \A r \in Requests : Recorded(r) /\ loadFaults = 0 => r \in handled
    BY <2>1 DEF Recorded, RecordedInSight, IInv, RecoveryInStep
  <2>3. \A r \in Requests : Recorded(r)' = Recorded(r) /\ InSight(r)' = InSight(r)
    BY <2>1 DEF Recorded, InSight
  <2> QED
    BY <2>1, <2>2, <2>3 DEF RecordedInSight
<1>3. ASSUME NEW b \in Ids, RecoverBatch(b) PROVE RecordedInSight'
  <2> DEFINE payable == batchRow[b] \ handled
  <2>1. /\ phase = "recovering" /\ b \in todoBatch
        /\ UNCHANGED <<phase, unbatched, openRow, todoOpen, loadFaults>>
    BY <1>3 DEF RecoverBatch, Recovering, store, history
  <2>2. CASE dropRecovered(owner[b], "removeBatch", b)
    <3>1. UNCHANGED <<handled, recs>>
      BY <2>2 DEF dropRecovered
    <3> QED
      BY <2>1, <3>1 DEF RecordedInSight, InSight, Serving
  <2>3. CASE payRecovered(owner[b], b, payable, "putBatch", "check")
    <3>1. recs[b] = {}
      BY <2>1 DEF IInv, RecoveryInStep, ReportInv, HeldInOrder, Open, Serving, NoId, Ids
    <3>2. payable \in SUBSET Requests /\ handled \subseteq handled'
      BY <2>3 DEF IInv, TypeOK, payRecovered
    <3> HIDE DEF payable
    <3>3. loadFaults = 0 => \A r \in handled' : InSight(r)'
      BY <2>1, <2>3, <3>1, <3>2, SightRecovered DEF RecordedInSight
    <3> QED
      BY <2>1, <3>2, <3>3 DEF RecordedInSight, Serving
  <2> QED
    BY <1>3, <2>2, <2>3 DEF RecoverBatch
<1>4. ASSUME NEW o \in Operators, RecoverOpen(o) PROVE RecordedInSight'
  <2> DEFINE payable == openRow[o] \ handled
  <2>1. /\ phase = "recovering" /\ todoOpen' = todoOpen \ {o}
        /\ UNCHANGED <<phase, unbatched, openRow, loadFaults>>
    BY <1>4 DEF RecoverOpen, Recovering, store, history
  <2>2. CASE dropRecovered(o, "removeOpen", NoId) /\ payable = {}
    <3>1. UNCHANGED <<handled, recs>> /\ openRow[o] \subseteq handled
      BY <2>2 DEF dropRecovered
    <3> QED
      BY <2>1, <3>1 DEF RecordedInSight, InSight, Serving
  <2>3. CASE nextId \in Ids /\ payRecovered(o, nextId, payable, "promote", "pay")
    <3>1. PICK b \in Ids : b = nextId
      BY <2>3
    <3>2. recs[b] = {} /\ payRecovered(o, b, payable, "promote", "pay")
      BY <2>3, <3>1, FreshId
    <3>3. /\ payable \in SUBSET Requests /\ handled \subseteq handled'
          /\ openRow[o] \subseteq handled'
      BY <3>2 DEF IInv, TypeOK, payRecovered
    <3> HIDE DEF payable
    <3>4. loadFaults = 0 => \A r \in handled' : InSight(r)'
      BY <2>1, <3>2, <3>3, SightRecovered DEF RecordedInSight
    <3> QED
      BY <2>1, <3>3, <3>4 DEF RecordedInSight, Serving
  <2> QED
    BY <1>4, <2>2, <2>3 DEF RecoverOpen
<1> QED
  BY <1>1, <1>2, <1>3, <1>4 DEF RecoveryStep

(* What is written is what a payout in sight holds; what is held is let go  *)
(* only when the process ends.                                              *)
LEMMA SightNext ==
  ASSUME IInv, ReportInv, Shown, [Next]_vars
  PROVE  RecordedInSight'
<1> USE DEF Shown
<1>1. ASSUME NEW r \in Requests, SettleInbound(r) PROVE RecordedInSight'
  <2>1. /\ phase \in Serving /\ UNCHANGED <<phase, openRow, batchRow, loadFaults>>
        /\ recs \in [Ids -> SUBSET Requests]
    BY <1>1 DEF SettleInbound, SettleDuplicate, SettleNothingOwed, SettleUnbatched, SettleAccrued,
                Claim, store, history, IInv, TypeOK
  <2>2. CASE SettleDuplicate(r) \/ SettleNothingOwed(r)
    BY <2>1, <2>2, SightKept DEF SettleDuplicate, SettleNothingOwed, payouts
  <2>3. CASE SettleUnbatched(r)
    <3>1. /\ nextId \in Ids /\ recs' = [recs EXCEPT ![nextId] = {r}]
          /\ unbatched' = unbatched \cup {nextId}
      BY <2>3 DEF SettleUnbatched
    <3>2. recs[nextId] = {}
      BY <3>1, FreshId
    <3> QED
      BY <2>1, <3>1, <3>2, SightKept
  <2>4. CASE SettleAccrued(r)
    <3>1. PICK b : recs' = [recs EXCEPT ![b] = @ \cup {r}]
      BY <2>4 DEF SettleAccrued
    <3>2. unbatched' = unbatched /\ \A c \in Ids : recs[c] \subseteq recs'[c]
      BY <2>1, <2>4, <3>1 DEF SettleAccrued
    <3> QED
      BY <2>1, <3>2, SightKept
  <2> QED
    BY <1>1, <2>2, <2>3, <2>4 DEF SettleInbound
<1>2. CASE \/ \E r \in Requests, o \in Operators : RecordRouting(r, o)
           \/ \E o \in Operators : Deadline(o)
           \/ \E b \in Ids : JobStep(b)
           \/ Shutdown \/ FlushPayouts
  <2>1. /\ phase \in Serving /\ phase' \in Serving
        /\ UNCHANGED <<openRow, batchRow, loadFaults, recs, unbatched>>
    BY <1>2 DEF RecordRouting, Deadline, JobStep, CheckLandedFirst, Pay, PayConfirmed, PayThrows,
                LookAfterAttempt, LastLook, JobAt, Shutdown, FlushPayouts, Serving, store, history,
                payouts
  <2> QED
    BY <2>1, SightKept
<1>3. CASE (\E b \in Ids : ChainStep(b)) \/ UNCHANGED vars
  <2>1. UNCHANGED <<phase, openRow, batchRow, loadFaults, recs, unbatched, handled, todoOpen>>
    BY <1>3 DEF ChainStep, Land, Expire, LeaseEnds, NetworkStep, vars, store, history, payouts,
                recovery
  <2> QED
    BY <2>1 DEF RecordedInSight, InSight, Recorded
<1>4. ASSUME NEW o \in Operators, StoreStep(o) \/ WriteFails(o) PROVE RecordedInSight'
  <2>1. /\ phase \in Serving /\ UNCHANGED <<phase, loadFaults, recs, unbatched>>
        /\ chain[o] # <<>> /\ chain[o] \in Seq(Writes)
        /\ openRow \in [Operators -> SUBSET Requests] /\ batchRow \in [Ids -> SUBSET Requests]
    BY <1>4, ChainType DEF StoreStep, PutOpen, Promote, PutBatch, RemoveOpen, RemoveBatch,
         WriteFails, Head1, payouts, IInv, TypeOK
  <2>2. 1 \in DOMAIN chain[o] /\ Head(chain[o]) = chain[o][1]
    BY <2>1, QueueShrinks
  <2>3. ASSUME NEW op \in Recording, Head1(o, op), NEW r \in recs[Head(chain[o]).id]
        PROVE  InSight(r)
    <3>1. Head(chain[o]).op = op /\ Head(chain[o]).op # "removeOpen"
      BY <2>3 DEF Head1, Recording
    <3>2. Head(chain[o]).id \in Ids
      BY <2>1, <2>2, <3>1, WriteId
    <3>3. Head(chain[o]).id \notin unbatched
      BY <2>2, <3>1 DEF RecordsBatched
    <3> QED
      BY <2>3, <3>2, <3>3 DEF InSight
  <2>4. \A r \in Requests : Recorded(r)' => Recorded(r) \/ InSight(r)
    <3>1. CASE PutOpen(o)
      <4>1. \A r \in Requests : \A p \in Operators : r \in openRow'[p] =>
               r \in openRow[p] \/ InSight(r)
        BY <2>1, <2>3, <3>1 DEF PutOpen, Recording
      <4> QED
        BY <3>1, <4>1 DEF PutOpen, Recorded
    <3>2. CASE Promote(o) \/ PutBatch(o)
      <4>1. \A r \in Requests : \A b \in Ids : r \in batchRow'[b] =>
               r \in batchRow[b] \/ InSight(r)
        BY <2>1, <2>3, <3>2 DEF Promote, PutBatch, Recording
      <4> QED
        BY <3>2, <4>1 DEF Promote, PutBatch, Recorded
    <3>3. CASE RemoveOpen(o) \/ RemoveBatch(o) \/ WriteFails(o)
      <4>1. /\ \A p \in Operators : openRow'[p] \subseteq openRow[p]
            /\ \A b \in Ids : batchRow'[b] \subseteq batchRow[b]
        BY <2>1, <3>3 DEF RemoveOpen, RemoveBatch, WriteFails
      <4> QED
        BY <4>1 DEF Recorded
    <3> QED
      BY <1>4, <3>1, <3>2, <3>3 DEF StoreStep
  <2>5. \A r \in Requests : InSight(r)' = InSight(r)
    BY <2>1 DEF InSight
  <2> QED
    BY <2>1, <2>4, <2>5 DEF RecordedInSight, Serving
<1>5. CASE Exit \/ Crash
  BY <1>5 DEF Exit, Crash, RecordedInSight, Serving
<1>6. CASE BootBlind
  BY <1>6 DEF BootBlind, RecordedInSight, IInv, TypeOK
<1>7. CASE RecoveryStep
  BY <1>7, SightRecovery
<1> QED
  BY <1>1, <1>2, <1>3, <1>4, <1>5, <1>6, <1>7 DEF Next

(* So it is in every reachable state.                                       *)
LEMMA AlwaysShown == Spec => []Shown
<1>1. Init => Shown
  <2> SUFFICES ASSUME Init PROVE Shown
    OBVIOUS
  <2>1. /\ phase = "up" /\ \A o \in Operators : DOMAIN chain[o] = {} /\ openRow[o] = {}
        /\ \A b \in Ids : batchRow[b] = {}
    BY DEF Init
  <2> QED
    BY <2>1 DEF Shown, RecordsBatched, RecordedInSight, Recorded
<1>2. IInv /\ ReportInv /\ WritesInOrder /\ Shown /\ [Next]_vars => Shown'
  BY BatchedNext, SightNext DEF Shown
<1> QED
  BY <1>1, <1>2, Inductive, ReportInStep, WritesAlwaysInOrder, PTL DEF Spec

(* getPendingPayouts: a request of a batch is in exactly one row of the     *)
(* report until this process has settled it, and in none afterwards,        *)
(* whatever fails and whatever is recovered; and as long as every boot      *)
(* could read the store, money owed that it records is in the report.       *)
THEOREM ReportIsTrue == Spec => []PendingReport
<1>1. IInv /\ ReportInv /\ Shown => PendingReport
  <2> SUFFICES ASSUME IInv, ReportInv, Shown PROVE PendingReport
    OBVIOUS
  <2>1. ASSUME NEW b \in Ids \ unbatched, NEW r \in recs[b]
        PROVE  Cardinality(Reported(r)) = IF job[b] = "done" /\ ledger[r] = "settled" THEN 0 ELSE 1
    BY <2>1, OneRow, FS_EmptySet, FS_Singleton
  <2>2. ASSUME phase \in Serving, loadFaults = 0, NEW r \in Requests, Recorded(r), paid[r] = <<>>
        PROVE  Cardinality(Reported(r)) = 1
    <3>1. PICK b \in Ids \ unbatched : r \in recs[b]
      BY <2>2 DEF Shown, RecordedInSight, InSight
    <3>2. Payout(r) > 0
      BY <3>1 DEF IInv, OnlyDebts
    <3>3. ledger[r] # "settled"
      BY <2>2, <3>2 DEF IInv, AuditTruth, LedgerTruth
    <3> QED
      BY <2>1, <3>1, <3>3
  <2> QED
    BY <2>1, <2>2 DEF PendingReport
<1> QED
  BY <1>1, Inductive, ReportInStep, AlwaysShown, PTL
-----------------------------------------------------------------------------
(* What is done stands.  A payout that has not ended holds a request with a *)
(* verdict only where the verdict was read back when the process began: so  *)
(* does all that recovery finds in the ledger.  What has a verdict is       *)
(* claimed, so that it cannot settle again.                                 *)
VerdictsLast ==
    /\ \A b \in Ids : \A r \in recs[b] :
          ledger[r] \in Verdicts => job[b] = "done" \/ rows[r] = {ledger[r]}
    /\ phase = "recovering" =>
          \A r \in Requests : ledger[r] \in Verdicts => rows[r] = {ledger[r]}
    /\ \A r \in Requests : ledger[r] \in Verdicts => r \in claimed

(* What a step may make of the ledger while the process lives.              *)
VerdictsStand ==
    \A r \in Requests : ledger[r] \in Verdicts =>
        ledger'[r] = ledger[r] \/ ResumedWith(r, ledger[r])

(* Steps that leave the ledger, its rows and what payouts hold as they are, *)
(* and end no job's end.                                                    *)
LEMMA VerdictsQuiet ==
  ASSUME VerdictsLast, UNCHANGED <<ledger, rows, claimed, recs>>,
         \A b \in Ids : job[b] = "done" => job'[b] = "done",
         phase' = "recovering" => phase = "recovering"
  PROVE  VerdictsLast' /\ VerdictsStand
<1>1. VerdictsStand
  BY DEF VerdictsStand
<1>2. VerdictsLast'
  BY DEF VerdictsLast
<1> QED
  BY <1>1, <1>2

(* A request gets its status and joins what payout b is to pay.             *)
Joins(r, st, b) ==
    /\ claimed' = claimed \cup {r}
    /\ ledger' = [ledger EXCEPT ![r] = st]
    /\ \A q \in Requests \ {r} : rows'[q] = rows[q]
    /\ b \in Ids => job[b] = "none" /\ st \notin Verdicts
    /\ \A c \in Ids : recs'[c] = IF c = b THEN recs[c] \cup {r} ELSE recs[c]
    /\ \A c \in Ids : c # b => job'[c] = job[c]

(* A request that is claimed only now had no verdict and was held nowhere;  *)
(* the payout that gets it, if one does, had not begun.                     *)
LEMMA VerdictsClaim ==
  ASSUME IInv, VerdictsLast, NEW r \in Requests, r \notin claimed,
         phase \in Serving, phase' = phase, NEW st \in Status, NEW b, Joins(r, st, b)
  PROVE  VerdictsLast' /\ VerdictsStand
<1>0. /\ claimed' = claimed \cup {r}
      /\ ledger' = [ledger EXCEPT ![r] = st]
      /\ \A q \in Requests \ {r} : rows'[q] = rows[q]
      /\ b \in Ids => job[b] = "none" /\ st \notin Verdicts
      /\ \A c \in Ids : recs'[c] = IF c = b THEN recs[c] \cup {r} ELSE recs[c]
      /\ \A c \in Ids : c # b => job'[c] = job[c]
  BY DEF Joins
<1>1. /\ \A c \in Ids : r \notin recs[c] /\ recs[c] \subseteq Requests
      /\ ledger[r] \notin Verdicts /\ ledger \in [Requests -> Status]
  BY DEF IInv, TypeOK, OnePayoutPerRequest, VerdictsLast
<1>2. VerdictsStand
  BY <1>0, <1>1 DEF VerdictsStand
<1>3. ASSUME NEW c \in Ids, NEW q \in recs'[c], ledger'[q] \in Verdicts
      PROVE  job'[c] = "done" \/ rows'[q] = {ledger'[q]}
  <2>1. q \in recs[c] /\ q # r /\ q \in Requests
    BY <1>0, <1>1, <1>3
  <2>2. ledger'[q] = ledger[q] /\ rows'[q] = rows[q]
    BY <1>0, <1>1, <2>1
  <2>3. job[c] = "done" \/ rows[q] = {ledger[q]}
    BY <1>3, <2>1, <2>2 DEF VerdictsLast
  <2> QED
    BY <1>0, <2>2, <2>3
<1>4. \A q \in Requests : ledger'[q] \in Verdicts => q \in claimed'
  BY <1>0, <1>1 DEF VerdictsLast
<1> QED
  BY <1>2, <1>3, <1>4 DEF VerdictsLast, Serving

(* Intake reaches no verdict but that of a request to which nothing is owed.*)
LEMMA VerdictsIntake ==
  ASSUME IInv, ReportInv, VerdictsLast, NEW r \in Requests, SettleInbound(r)
  PROVE  VerdictsLast' /\ VerdictsStand
<1>0. /\ recs \in [Ids -> SUBSET Requests] /\ job \in [Ids -> JobStates]
      /\ accrual \in [Operators -> Ids \cup {NoId}]
  BY DEF IInv, TypeOK
<1>1. CASE SettleDuplicate(r)
  BY <1>1, VerdictsQuiet DEF SettleDuplicate, payouts
<1>2. CASE SettleNothingOwed(r)
  <2>1. /\ r \notin claimed /\ claimed' = claimed \cup {r}
        /\ ledger' = [ledger EXCEPT ![r] = "settled"]
        /\ \A q \in Requests \ {r} : rows'[q] = rows[q]
        /\ UNCHANGED <<recs, job>> /\ "settled" \in Status /\ phase \in Serving /\ phase' = phase
    BY <1>2 DEF SettleNothingOwed, Claim, payouts, Status, persistLedger
  <2>2. \A c \in Ids : c # NoId
    BY DEF Ids, NoId
  <2>3. Joins(r, "settled", NoId)
    BY <2>1, <2>2 DEF Joins
  <2> QED
    BY <2>1, <2>3, VerdictsClaim
<1>3. CASE SettleUnbatched(r)
  <2>1. /\ r \notin claimed /\ claimed' = claimed \cup {r}
        /\ ledger' = [ledger EXCEPT ![r] = "pending"]
        /\ \A q \in Requests \ {r} : rows'[q] = rows[q]
        /\ recs' = [recs EXCEPT ![nextId] = {r}] /\ job' = [job EXCEPT ![nextId] = "pay"]
        /\ nextId \in Ids /\ "pending" \in Status \ Verdicts /\ phase \in Serving /\ phase' = phase
    BY <1>3 DEF SettleUnbatched, Claim, Status, Verdicts, persistLedger
  <2>2. recs[nextId] = {} /\ job[nextId] = "none"
    BY <2>1, FreshId
  <2>3. /\ \A c \in Ids : recs'[c] = IF c = nextId THEN recs[c] \cup {r} ELSE recs[c]
        /\ \A c \in Ids : c # nextId => job'[c] = job[c]
    BY <1>0, <2>1, <2>2
  <2>4. Joins(r, "pending", nextId)
    BY <2>1, <2>2, <2>3 DEF Joins
  <2> QED
    BY <2>1, <2>4, VerdictsClaim
<1>4. CASE SettleAccrued(r)
  <2>1. PICK o \in Operators, b \in Ids :
          o = routing[r] /\ b = IF accrual[o] = NoId THEN nextId ELSE accrual[o]
    BY <1>4 DEF SettleAccrued, Claim, IInv, TypeOK
  <2>2. /\ r \notin claimed /\ claimed' = claimed \cup {r}
        /\ ledger' = [ledger EXCEPT ![r] = "accrued"]
        /\ \A q \in Requests \ {r} : rows'[q] = rows[q]
        /\ recs' = [recs EXCEPT ![b] = @ \cup {r}] /\ "accrued" \in Status \ Verdicts
        /\ phase \in Serving /\ phase' = phase
    BY <1>4, <2>1 DEF SettleAccrued, Claim, Status, Verdicts, persistLedger
  <2>3. job[b] = "none"
    BY <2>1, FreshId DEF IInv, OpenUnpaid
  <2>4. \A c \in Ids : c # b => job'[c] = job[c]
    <3> DEFINE open == [accrual EXCEPT ![o] = b]
    <3>1. open[o] = b
      BY <1>0
    <3>2. CASE flushAccrual(open, {o})
      <4> HIDE DEF open
      <4>1. {open[p] : p \in {o}} = {b}
        BY <3>1
      <4> QED
        BY <3>2, <4>1 DEF flushAccrual
    <3>3. CASE UNCHANGED job
      BY <3>3
    <3> QED
      BY <1>4, <2>1, <3>2, <3>3 DEF SettleAccrued
  <2>5. \A c \in Ids : recs'[c] = IF c = b THEN recs[c] \cup {r} ELSE recs[c]
    BY <1>0, <2>2
  <2>6. Joins(r, "accrued", b)
    BY <2>2, <2>3, <2>4, <2>5 DEF Joins
  <2> QED
    BY <2>2, <2>6, VerdictsClaim
<1> QED
  BY <1>1, <1>2, <1>3, <1>4 DEF SettleInbound

(* A payout under way holds no request with a verdict but those it resumed  *)
(* with one, so that the one it reaches is its first.                       *)
LEMMA VerdictsJob ==
  ASSUME IInv, VerdictsLast, NEW b \in Ids, JobStep(b)
  PROVE  VerdictsLast' /\ VerdictsStand
<1>1. /\ UNCHANGED <<recs, claimed, phase>> /\ job[b] \in Active /\ phase \in Serving
      /\ recs \in [Ids -> SUBSET Requests]
  BY DEF JobStep, CheckLandedFirst, Pay, PayConfirmed, PayThrows, LookAfterAttempt, LastLook,
         JobAt, Active, intake, IInv, TypeOK
<1>2. ledger \in [Requests -> Status] /\ job \in [Ids -> JobStates]
  BY DEF IInv, TypeOK
<1>3. \/ finalizeSettled(b) \/ finalizeFailed(b)
      \/ \E state \in JobStates : GoTo(b, state)
  BY DEF JobStep, CheckLandedFirst, Pay, PayConfirmed, PayThrows, LookAfterAttempt, LastLook,
         JobStates
<1>4. CASE \E state \in JobStates : GoTo(b, state)
  <2>1. UNCHANGED <<ledger, rows>> /\ \A c \in Ids : job[c] = "done" => job'[c] = "done"
    BY <1>1, <1>2, <1>4 DEF GoTo, Active
  <2> QED
    BY <1>1, <2>1, VerdictsQuiet
<1>5. CASE finalizeSettled(b) \/ finalizeFailed(b)
  <2>1. /\ job'[b] = "done" /\ \A c \in Ids : c # b => job'[c] = job[c]
        /\ \A q \in Requests : q \notin recs[b] => ledger'[q] = ledger[q] /\ rows'[q] = rows[q]
    BY <1>2, <1>5 DEF finalizeSettled, finalizeFailed, persistLedger
  <2>2. \A q \in recs[b] : ledger[q] \in Verdicts => ResumedWith(q, ledger[q])
    BY <1>1 DEF VerdictsLast, Active, ResumedWith
  <2>3. VerdictsStand
    BY <2>1, <2>2 DEF VerdictsStand
  <2>4. ASSUME NEW c \in Ids, c # b, NEW q \in recs[c], ledger'[q] \in Verdicts
        PROVE  job'[c] = "done" \/ rows'[q] = {ledger'[q]}
    <3>1. q \in Requests /\ q \notin recs[b]
      BY <1>1, <2>4 DEF IInv, OnePayoutPerRequest
    <3> QED
      BY <2>1, <2>4, <3>1 DEF VerdictsLast
  <2>5. \A q \in Requests : ledger'[q] \in Verdicts => q \in claimed
    BY <2>1 DEF VerdictsLast, IInv, OnePayoutPerRequest
  <2> QED
    BY <1>1, <2>1, <2>3, <2>4, <2>5 DEF VerdictsLast, Serving
<1> QED
  BY <1>3, <1>4, <1>5

(* A boot finds an empty ledger, and what it reads back is all there is of  *)
(* each request's rows; a process that ends forgets what it has said.       *)
LEMMA VerdictsBoot ==
  ASSUME IInv, VerdictsLast, Boot \/ BootBlind
  PROVE  VerdictsLast' /\ VerdictsStand
<1>1. /\ \A b \in Ids : recs'[b] = {}
      /\ \A r \in Requests : ledger[r] \notin Verdicts
  BY DEF Boot, BootBlind, payouts, IInv, RecoveryInStep, Verdicts
<1>2. \A r \in Requests : ledger'[r] \in Verdicts => rows'[r] = {ledger'[r]} /\ r \in claimed'
  BY <1>1 DEF Boot, BootBlind, hydrateLedger, Verdicts
<1> QED
  BY <1>1, <1>2 DEF VerdictsLast, VerdictsStand

(* A request that recovery resumes keeps the verdict that was read back.    *)
LEMMA VerdictsRecovered ==
  ASSUME IInv, VerdictsLast, phase = "recovering", phase' = phase, NEW b \in Ids, NEW o,
         NEW payable \in SUBSET Requests, recs[b] = {},
         NEW write, NEW start, payRecovered(o, b, payable, write, start)
  PROVE  VerdictsLast' /\ VerdictsStand
<1>1. /\ recs' = [recs EXCEPT ![b] = payable] /\ job' = [job EXCEPT ![b] = start]
      /\ ledger' = [r \in Requests |->
                      IF r \in payable /\ ledger[r] = "none" THEN "pending" ELSE ledger[r]]
      /\ claimed \subseteq claimed'
      /\ \A r \in Requests : ledger[r] # "none" => rows'[r] = rows[r]
  BY DEF payRecovered, persistLedger
<1>2. /\ recs \in [Ids -> SUBSET Requests] /\ job \in [Ids -> JobStates]
      /\ \A r \in Requests : ledger'[r] \in Verdicts =>
            ledger'[r] = ledger[r] /\ rows'[r] = {ledger'[r]} /\ r \in claimed'
  BY <1>1 DEF IInv, TypeOK, VerdictsLast, Verdicts
<1>3. VerdictsStand
  BY <1>1 DEF VerdictsStand, Verdicts
<1>4. \A c \in Ids : recs'[c] \subseteq Requests
  BY <1>1, <1>2
<1> QED
  BY <1>2, <1>3, <1>4 DEF VerdictsLast

(* Recovery as a whole.                                                     *)
LEMMA VerdictsRecovery ==
  ASSUME IInv, ReportInv, VerdictsLast, RecoveryStep
  PROVE  VerdictsLast' /\ VerdictsStand
<1>1. CASE Listen
  BY <1>1, VerdictsQuiet DEF Listen, payouts, intake
<1>2. ASSUME NEW b \in Ids, RecoverBatch(b) PROVE VerdictsLast' /\ VerdictsStand
  <2> DEFINE payable == batchRow[b] \ handled
  <2>1. phase = "recovering" /\ phase' = phase /\ b \in todoBatch
    BY <1>2 DEF RecoverBatch, Recovering
  <2>2. CASE dropRecovered(owner[b], "removeBatch", b)
    BY <2>1, <2>2, VerdictsQuiet DEF dropRecovered
  <2>3. CASE payRecovered(owner[b], b, payable, "putBatch", "check")
    <3>1. recs[b] = {}
      BY <2>1 DEF IInv, RecoveryInStep, ReportInv, HeldInOrder, Open, Serving, NoId, Ids
    <3>2. payable \in SUBSET Requests
      BY DEF IInv, TypeOK
    <3> HIDE DEF payable
    <3> QED
      BY <2>1, <2>3, <3>1, <3>2, VerdictsRecovered
  <2> QED
    BY <1>2, <2>2, <2>3 DEF RecoverBatch
<1>3. ASSUME NEW o \in Operators, RecoverOpen(o) PROVE VerdictsLast' /\ VerdictsStand
  <2> DEFINE payable == openRow[o] \ handled
  <2>1. phase = "recovering" /\ phase' = phase
    BY <1>3 DEF RecoverOpen, Recovering
  <2>2. CASE dropRecovered(o, "removeOpen", NoId)
    BY <2>1, <2>2, VerdictsQuiet DEF dropRecovered
  <2>3. CASE nextId \in Ids /\ payRecovered(o, nextId, payable, "promote", "pay")
    <3>1. PICK b \in Ids : b = nextId
      BY <2>3
    <3>2. recs[b] = {} /\ payRecovered(o, b, payable, "promote", "pay")
      BY <2>3, <3>1, FreshId
    <3>3. payable \in SUBSET Requests
      BY DEF IInv, TypeOK
    <3> HIDE DEF payable
    <3> QED
      BY <2>1, <3>2, <3>3, VerdictsRecovered
  <2> QED
    BY <1>3, <2>2, <2>3 DEF RecoverOpen
<1> QED
  BY <1>1, <1>2, <1>3, VerdictsBoot DEF RecoveryStep

(* No step of a process that lives on changes a verdict, but the end of a   *)
(* payout it resumed.                                                       *)
LEMMA VerdictsNext ==
  ASSUME IInv, ReportInv, VerdictsLast, [Next]_vars
  PROVE  VerdictsLast' /\ (phase' \notin {"crashed", "exited"} => VerdictsStand)
<1>1. ASSUME NEW r \in Requests, NEW o \in Operators, RecordRouting(r, o)
      PROVE  VerdictsLast' /\ VerdictsStand
  BY <1>1, VerdictsQuiet DEF RecordRouting, payouts
<1>2. ASSUME NEW S \in SUBSET Operators, \A o \in S : accrual[o] # NoId, flushAccrual(accrual, S),
             UNCHANGED <<ledger, rows, claimed, recs>>, phase' # "recovering"
      PROVE  VerdictsLast' /\ VerdictsStand
  <2>1. \A b \in {accrual[o] : o \in S} : job[b] = "none"
    BY <1>2 DEF IInv, OpenUnpaid
  <2>2. \A b \in Ids : job[b] = "done" => job'[b] = "done"
    BY <1>2, <2>1 DEF flushAccrual
  <2> QED
    BY <1>2, <2>2, VerdictsQuiet
<1>3. ASSUME NEW o \in Operators, Deadline(o) PROVE VerdictsLast' /\ VerdictsStand
  <2>1. {o} \in SUBSET Operators /\ \A p \in {o} : accrual[p] # NoId
    BY <1>3 DEF Deadline
  <2> QED
    BY <1>2, <1>3, <2>1 DEF Deadline, intake, Serving
<1>4. CASE FlushPayouts
  <2>1. Accruing \in SUBSET Operators /\ \A p \in Accruing : accrual[p] # NoId
    BY DEF Accruing
  <2> QED
    BY <1>2, <1>4, <2>1 DEF FlushPayouts, intake
<1>5. ASSUME NEW o \in Operators, StoreStep(o) \/ WriteFails(o)
      PROVE  VerdictsLast' /\ VerdictsStand
  <2>1. UNCHANGED <<phase, ledger, rows, claimed, recs, job>>
    BY <1>5 DEF StoreStep, PutOpen, Promote, PutBatch, RemoveOpen, RemoveBatch, WriteFails,
                Head1, payouts, intake
  <2> QED
    BY <2>1, VerdictsQuiet
<1>6. CASE (\E b \in Ids : ChainStep(b)) \/ UNCHANGED vars \/ Shutdown
  <2>1. /\ UNCHANGED <<ledger, rows, claimed, recs, job>>
        /\ phase' = "recovering" => phase = "recovering"
    BY <1>6 DEF ChainStep, Land, Expire, LeaseEnds, NetworkStep, vars, payouts, intake, Shutdown
  <2> QED
    BY <2>1, VerdictsQuiet
<1>7. CASE Exit \/ Crash
  BY <1>7 DEF Exit, Crash, LoseMemory, VerdictsLast, Verdicts
<1>8. CASE BootBlind
  BY <1>8, VerdictsBoot
<1> QED
  BY <1>1, <1>3, <1>4, <1>5, <1>6, <1>7, <1>8, VerdictsIntake, VerdictsJob, VerdictsRecovery
     DEF Next

(* Writes that run add no removal.                                          *)
LEMMA RemovalsRun ==
  ASSUME IInv, RemovedLanded, NEW o \in Operators, StoreStep(o) \/ WriteFails(o)
  PROVE  RemovedLanded'
<1>1. UNCHANGED <<phase, landed>> /\ phase \in Serving
  BY DEF StoreStep, PutOpen, Promote, PutBatch, RemoveOpen, RemoveBatch, WriteFails, Head1, network
<1>2. ASSUME NEW p \in Operators, NEW i \in DOMAIN chain'[p], chain'[p][i].op = "removeBatch"
      PROVE  chain'[p][i].id \in landed
  BY <1>2, ChainRuns DEF RemovedLanded
<1> QED
  BY <1>1, <1>2 DEF RemovedLanded, Serving

(* The writes enqueued when a request is accrued, an accrual is flushed or  *)
(* a payout ends remove no row, or that of a payout that landed.            *)
LEMMA RemovalsEnqueued ==
  ASSUME TypeOK, NEW o \in Operators, NEW op, NEW b \in Ids \cup {NoId},
         [op |-> op, id |-> b] \in Writes, op = "removeBatch" => b \in landed',
         chain' = enqueueWrite(o, op, b)
  PROVE  \A p \in Operators : \E w \in Writes :
             Grows(p, w) /\ (w.op = "removeBatch" => w.id \in landed')
BY Enqueued

(* Whatever fails, only the row of a payout that landed is removed.         *)
LEMMA RemovedNext ==
  ASSUME IInv, RemovedLanded, [Next]_vars
  PROVE  RemovedLanded'
<1>0. TypeOK
  BY DEF IInv
<1>1. ASSUME UNCHANGED <<chain, batchRow>>, landed \subseteq landed', phase' # "recovering"
      PROVE  RemovedLanded'
  BY <1>1 DEF RemovedLanded
<1>2. ASSUME UNCHANGED <<chain, batchRow, phase, todoBatch>>, landed \subseteq landed'
      PROVE  RemovedLanded'
  BY <1>2 DEF RemovedLanded
<1>3. ASSUME NEW S \in SUBSET Operators, \A o \in S : accrual[o] # NoId, flushAccrual(accrual, S),
             phase' # "recovering", UNCHANGED <<batchRow, landed>>
      PROVE  RemovedLanded'
  <2>1. \A o \in Operators : \E w \in Writes : Grows(o, w) /\ w.op # "removeBatch"
    <3> SUFFICES ASSUME NEW o \in Operators
                 PROVE  \E w \in Writes : Grows(o, w) /\ w.op # "removeBatch"
      OBVIOUS
    <3>1. CASE o \in S
      <4>1. accrual[o] \in Ids
        BY <1>0, <1>3, <3>1 DEF TypeOK
      <4>2. PICK w \in Writes : w = [op |-> "promote", id |-> accrual[o]]
        BY <4>1, WriteType
      <4> QED
        BY <1>3, <3>1, <4>2 DEF flushAccrual, Grows
    <3>2. CASE o \notin S
      <4>1. PICK w \in Writes : w = [op |-> "removeOpen", id |-> NoId]
        BY DEF Writes
      <4> QED
        BY <1>3, <3>2, <4>1 DEF flushAccrual, Grows
    <3> QED
      BY <3>1, <3>2
  <2>2. landed \subseteq landed'
    BY <1>3
  <2> QED
    BY <1>0, <1>3, <2>1, <2>2, RemovalsStay
<1>4. ASSUME NEW r \in Requests, SettleInbound(r) PROVE RemovedLanded'
  <2>1. UNCHANGED <<batchRow, landed, phase>> /\ phase \in Serving
    BY <1>4 DEF SettleInbound, SettleDuplicate, SettleNothingOwed, SettleUnbatched, SettleAccrued,
                Claim, store, network
  <2>2. CASE SettleDuplicate(r) \/ SettleNothingOwed(r) \/ SettleUnbatched(r)
    <3>1. UNCHANGED chain
      BY <2>2 DEF SettleDuplicate, SettleNothingOwed, SettleUnbatched
    <3> QED
      BY <1>1, <2>1, <3>1 DEF Serving
  <2>3. CASE SettleAccrued(r)
    <3>1. PICK o \in Operators, b \in Ids :
            /\ b = IF accrual[o] = NoId THEN nextId ELSE accrual[o]
            /\ \/ flushAccrual([accrual EXCEPT ![o] = b], {o})
               \/ chain' = enqueueWrite(o, "putOpen", b)
      BY <1>0, <2>3 DEF SettleAccrued, Claim, TypeOK
    <3>2. CASE chain' = enqueueWrite(o, "putOpen", b)
      <4>1. [op |-> "putOpen", id |-> b] \in Writes
        BY WriteType
      <4> QED
        BY <1>0, <2>1, <3>2, <4>1, RemovalsEnqueued, RemovalsStay DEF Serving
    <3>3. CASE flushAccrual([accrual EXCEPT ![o] = b], {o})
      <4> DEFINE open == [accrual EXCEPT ![o] = b]
      <4>1. open[o] = b
        BY <1>0 DEF TypeOK
      <4>2. PICK w \in Writes : w = [op |-> "promote", id |-> b]
        BY WriteType
      <4>3. \A p \in Operators : Grows(p, w)
        <5> HIDE DEF open
        <5> QED
          BY <3>3, <4>1, <4>2 DEF flushAccrual, Grows, open
      <4>4. w.op # "removeBatch"
        BY <4>2
      <4> QED
        BY <1>0, <2>1, <4>3, <4>4, RemovalsStay DEF Serving
    <3> QED
      BY <3>1, <3>2, <3>3
  <2> QED
    BY <1>4, <2>2, <2>3 DEF SettleInbound
<1>5. ASSUME NEW o \in Operators, Deadline(o) PROVE RemovedLanded'
  <2>1. {o} \in SUBSET Operators /\ \A p \in {o} : accrual[p] # NoId
    BY <1>5 DEF Deadline
  <2> QED
    BY <1>3, <1>5, <2>1 DEF Deadline, store, network, Serving
<1>6. CASE FlushPayouts
  <2>1. Accruing \in SUBSET Operators /\ \A p \in Accruing : accrual[p] # NoId
    BY DEF Accruing
  <2> QED
    BY <1>3, <1>6, <2>1 DEF FlushPayouts, store, network
<1>7. ASSUME NEW b \in Ids, JobStep(b) PROVE RemovedLanded'
  <2>1. UNCHANGED <<phase, batchRow, landed, todoBatch>> /\ phase \in Serving
    BY <1>7 DEF JobStep, CheckLandedFirst, Pay, PayConfirmed, PayThrows, LookAfterAttempt,
                LastLook, JobAt, store, network, recovery
  <2>2. UNCHANGED chain \/ (b \in landed /\ finalizeSettled(b))
    <3>1. ASSUME NEW found \in BOOLEAN, findLandedPayout(b, found), found PROVE b \in landed
      BY <3>1 DEF findLandedPayout
    <3>2. CASE CheckLandedFirst(b) \/ LookAfterAttempt(b) \/ LastLook(b)
      BY <3>1, <3>2 DEF CheckLandedFirst, LookAfterAttempt, LastLook, finalizeFailed, GoTo
    <3>3. CASE PayConfirmed(b)
      BY <3>3 DEF PayConfirmed, IInv, IdsInOrder
    <3>4. CASE Pay(b) \/ PayThrows(b)
      BY <3>4 DEF Pay, PayThrows, GoTo
    <3> QED
      BY <1>7, <3>2, <3>3, <3>4 DEF JobStep
  <2>3. CASE UNCHANGED chain
    BY <1>2, <2>1, <2>3
  <2>4. CASE b \in landed /\ finalizeSettled(b)
    <3>1. CASE b \in unbatched
      BY <1>2, <2>1, <2>4, <3>1 DEF finalizeSettled
    <3>2. CASE b \notin unbatched
      <4>1. chain' = enqueueWrite(owner[b], "removeBatch", b)
            /\ [op |-> "removeBatch", id |-> b] \in Writes
        BY <2>4, <3>2, WriteType DEF finalizeSettled
      <4>2. owner[b] \in Operators
        BY <2>4 DEF IInv, IdsInOrder, TypeOK, Ids
      <4> QED
        BY <1>0, <2>1, <2>4, <4>1, <4>2, RemovalsEnqueued, RemovalsStay
    <3> QED
      BY <3>1, <3>2
  <2> QED
    BY <2>2, <2>3, <2>4
<1>8. ASSUME NEW b \in Ids, RecoverBatch(b) PROVE RemovedLanded'
  <2>1. /\ phase = "recovering" /\ b \in todoBatch /\ todoBatch' \subseteq todoBatch
        /\ UNCHANGED <<phase, batchRow, landed>>
    BY <1>8 DEF RecoverBatch, Recovering, store, network
  <2>2. batchRow[b] \ handled # {}
    BY <2>1 DEF IInv, RecoveryInStep, RemovedLanded
  <2>3. chain' = enqueueWrite(owner[b], "putBatch", b) /\ [op |-> "putBatch", id |-> b] \in Writes
    BY <1>8, <2>2, WriteType DEF RecoverBatch, payRecovered
  <2>4. owner[b] \in Operators
    BY <2>2 DEF IInv, IdsInOrder, TypeOK, Ids
  <2> QED
    BY <1>0, <2>1, <2>3, <2>4, RemovalsEnqueued, RemovalsStay
<1>9. ASSUME NEW o \in Operators, RecoverOpen(o) PROVE RemovedLanded'
  <2>1. phase = "recovering" /\ UNCHANGED <<phase, batchRow, landed, todoBatch>>
    BY <1>9 DEF RecoverOpen, Recovering, store, network
  <2>2. PICK op \in {"removeOpen", "promote"}, b \in Ids \cup {NoId} :
           /\ chain' = enqueueWrite(o, op, b)
           /\ [op |-> op, id |-> b] \in Writes
    BY <1>9, WriteType DEF RecoverOpen, dropRecovered, payRecovered, Writes
  <2> QED
    BY <1>0, <2>1, <2>2, RemovalsEnqueued, RemovalsStay
<1>10. CASE Boot
  BY <1>10 DEF Boot, payouts, store, network, RemovedLanded
<1>11. CASE Exit \/ Crash
  <2>1. phase' # "recovering" /\ \A o \in Operators : DOMAIN chain'[o] = {}
    BY <1>11 DEF Exit, Crash, LoseMemory
  <2> QED
    BY <2>1 DEF RemovedLanded
<1>12. CASE \/ \E r \in Requests, o \in Operators : RecordRouting(r, o)
            \/ \E b \in Ids : ChainStep(b)
            \/ Shutdown \/ Listen \/ BootBlind \/ UNCHANGED vars
  <2>1. UNCHANGED <<chain, batchRow>> /\ landed \subseteq landed'
        /\ (phase' # "recovering" \/ UNCHANGED <<phase, todoBatch>>)
    BY <1>12 DEF RecordRouting, ChainStep, Land, Expire, LeaseEnds, NetworkStep, Shutdown, Listen,
                 BootBlind, vars, store, network, recovery
  <2> QED
    BY <1>1, <1>2, <2>1
<1> QED
  BY <1>4, <1>5, <1>6, <1>7, <1>8, <1>9, <1>10, <1>11, <1>12, RemovalsRun DEF Next, RecoveryStep

(* So it is in every reachable state.                                       *)
LEMMA RemovedAlwaysLanded == Spec => []RemovedLanded
<1>1. Init => RemovedLanded
  <2> SUFFICES ASSUME Init PROVE RemovedLanded
    OBVIOUS
  <2>1. phase = "up" /\ \A o \in Operators : DOMAIN chain[o] = {}
    BY DEF Init
  <2> QED
    BY <2>1 DEF RemovedLanded
<1>2. IInv /\ RemovedLanded /\ [Next]_vars => RemovedLanded'
  BY RemovedNext
<1> QED
  BY <1>1, <1>2, Inductive, PTL DEF Spec

(* A request leaves a stored batch only once it is paid: what is written    *)
(* again says no less, what is removed has landed.                          *)
LEMMA RowsLeavePaid ==
  ASSUME IInv, WritesInOrder, RemovedLanded, [Next]_vars
  PROVE  \A b \in Ids : \A r \in batchRow[b] : r \in batchRow'[b] \/ paid[r] # <<>>
<1>0. TypeOK
  BY DEF IInv
<1>1. ASSUME NEW o \in Operators, Promote(o) \/ PutBatch(o)
      PROVE  \A b \in Ids : batchRow[b] \subseteq batchRow'[b]
  <2>1. /\ Head1(o, "promote") \/ Head1(o, "putBatch")
        /\ batchRow' = [batchRow EXCEPT ![Head(chain[o]).id] = recs[Head(chain[o]).id]]
    BY <1>1 DEF Promote, PutBatch
  <2> QED
    BY <2>1, RowComplete
<1>2. ASSUME NEW o \in Operators, RemoveBatch(o)
      PROVE  \A b \in Ids : \A r \in batchRow[b] : r \in batchRow'[b] \/ paid[r] # <<>>
  <2>1. PICK b \in Ids : b = Head(chain[o]).id
    BY <1>0, <1>2, ChainHead DEF RemoveBatch, Head1
  <2>2. /\ chain[o] # <<>> /\ chain[o] \in Seq(Writes) /\ Head(chain[o]).op = "removeBatch"
        /\ \A c \in Ids : c # b => batchRow'[c] = batchRow[c]
    BY <1>0, <1>2, <2>1, ChainType DEF RemoveBatch, Head1, TypeOK
  <2>3. 1 \in DOMAIN chain[o] /\ chain[o][1].op = "removeBatch" /\ chain[o][1].id = b
    BY <2>1, <2>2, QueueShrinks
  <2>4. b \in landed
    BY <2>3 DEF RemovedLanded
  <2> QED
    BY <2>2, <2>4 DEF IInv, Covered
<1>3. ASSUME NEW o \in Operators, PutOpen(o) \/ RemoveOpen(o) \/ WriteFails(o) \/ Deadline(o)
      PROVE  UNCHANGED batchRow
  BY <1>3 DEF PutOpen, RemoveOpen, WriteFails, Deadline, store
<1>4. ASSUME NEW r \in Requests, SettleInbound(r) PROVE UNCHANGED batchRow
  BY <1>4 DEF SettleInbound, SettleDuplicate, SettleNothingOwed, SettleUnbatched, SettleAccrued,
              Claim, store
<1>5. ASSUME NEW b \in Ids, JobStep(b) \/ ChainStep(b) PROVE UNCHANGED batchRow
  BY <1>5 DEF JobStep, CheckLandedFirst, Pay, PayConfirmed, PayThrows, LookAfterAttempt,
              LastLook, JobAt, ChainStep, Land, Expire, LeaseEnds, NetworkStep, store
<1>6. CASE \/ \E r \in Requests, o \in Operators : RecordRouting(r, o)
           \/ Shutdown \/ FlushPayouts \/ Exit \/ Crash \/ BootBlind \/ UNCHANGED vars
  BY <1>6 DEF RecordRouting, Shutdown, FlushPayouts, Exit, Crash, LoseMemory, BootBlind, vars, store
<1>7. CASE RecoveryStep
  BY <1>7 DEF RecoveryStep, Boot, RecoverBatch, RecoverOpen, Recovering, Listen, store
<1> QED
  BY <1>1, <1>2, <1>3, <1>4, <1>5, <1>6, <1>7 DEF Next, StoreStep

(* A debt arises once: only a request not claimed yet gets one, and such a  *)
(* request has none.                                                        *)
LEMMA DebtsStand ==
  ASSUME IInv, [Next]_vars
  PROVE  \A r \in Requests : debt[r] # None => debt'[r] = debt[r]
<1>1. ASSUME NEW r \in Requests, SettleInbound(r)
      PROVE  \A q \in Requests : debt[q] # None => debt'[q] = debt[q]
  <2>1. CASE SettleDuplicate(r) \/ SettleNothingOwed(r)
    BY <2>1 DEF SettleDuplicate, SettleNothingOwed, history
  <2>2. CASE SettleUnbatched(r) \/ SettleAccrued(r)
    <3>1. Claim(r) /\ \E o : debt' = [debt EXCEPT ![r] = o]
      BY <2>2 DEF SettleUnbatched, SettleAccrued
    <3>2. debt[r] = None
      BY <3>1 DEF Claim, IInv, OnlyDebts
    <3> QED
      BY <3>1, <3>2 DEF IInv, TypeOK
  <2> QED
    BY <1>1, <2>1, <2>2 DEF SettleInbound
<1>2. ASSUME NEW o \in Operators, StoreStep(o) \/ WriteFails(o) \/ Deadline(o) PROVE UNCHANGED debt
  BY <1>2 DEF StoreStep, PutOpen, Promote, PutBatch, RemoveOpen, RemoveBatch, WriteFails, Head1,
              Deadline, history
<1>3. ASSUME NEW b \in Ids, JobStep(b) \/ ChainStep(b) PROVE UNCHANGED debt
  BY <1>3 DEF JobStep, CheckLandedFirst, Pay, PayConfirmed, PayThrows, LookAfterAttempt,
              LastLook, JobAt, ChainStep, Land, Expire, LeaseEnds, NetworkStep, history
<1>4. CASE \/ \E r \in Requests, o \in Operators : RecordRouting(r, o)
           \/ Shutdown \/ FlushPayouts \/ Exit \/ Crash \/ BootBlind \/ UNCHANGED vars
  BY <1>4 DEF RecordRouting, Shutdown, FlushPayouts, Exit, Crash, LoseMemory, BootBlind, vars,
              history
<1>5. CASE RecoveryStep
  BY <1>5 DEF RecoveryStep, Boot, RecoverBatch, RecoverOpen, Recovering, Listen, history
<1> QED
  BY <1>1, <1>2, <1>3, <1>4, <1>5 DEF Next

(* While a process lives no verdict it has reached changes (one that was    *)
(* read back may, when the payout it belongs to was resumed and ends), no   *)
(* debt is reassigned and no stored batch loses a request that is not paid: *)
(* with every fault the model has (finalizeSettled, finalizeFailed,         *)
(* hydrateLedger, recoverAccruals, enqueueWrite).                           *)
THEOREM WhatIsDoneStands == Spec => Irrevocable
<1> DEFINE Step ==
      /\ \A r \in Requests : /\ ledger[r] \in Verdicts =>
                                   \/ ledger'[r] = ledger[r]
                                   \/ phase' \in {"crashed", "exited"}
                                   \/ ResumedWith(r, ledger[r])
                             /\ debt[r] # None => debt'[r] = debt[r]
      /\ \A b \in Ids : \A r \in batchRow[b] : r \in batchRow'[b] \/ paid[r] # <<>>
<1>1. Init => VerdictsLast
  BY DEF Init, VerdictsLast, Verdicts
<1>2. IInv /\ ReportInv /\ VerdictsLast /\ [Next]_vars => VerdictsLast'
  BY VerdictsNext
<1>3. IInv /\ ReportInv /\ VerdictsLast /\ WritesInOrder /\ RemovedLanded /\ [Next]_vars => [Step]_vars
  <2> SUFFICES ASSUME IInv, ReportInv, VerdictsLast, WritesInOrder, RemovedLanded, [Next]_vars
               PROVE  Step
    OBVIOUS
  <2> HIDE DEF Step
  <2>1. phase' \notin {"crashed", "exited"} => VerdictsStand
    BY VerdictsNext
  <2>2. \A r \in Requests : debt[r] # None => debt'[r] = debt[r]
    BY DebtsStand
  <2>3. \A b \in Ids : \A r \in batchRow[b] : r \in batchRow'[b] \/ paid[r] # <<>>
    BY RowsLeavePaid
  <2> QED
    BY <2>1, <2>2, <2>3 DEF VerdictsStand, Step
<1>4. Spec => []VerdictsLast
  BY <1>1, <1>2, Inductive, ReportInStep, PTL DEF Spec
<1>5. Spec => [][Step]_vars
  <2> HIDE DEF Step
  <2> QED
    BY <1>3, <1>4, Inductive, ReportInStep, WritesAlwaysInOrder, RemovedAlwaysLanded, PTL DEF Spec
<1> QED
  BY <1>5 DEF Irrevocable

=============================================================================
