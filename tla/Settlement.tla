----------------------------- MODULE Settlement -----------------------------
(***************************************************************************)
(* The gateway's double-settlement service                                 *)
(* (packages/settlement/src/service.ts): a client's payment has settled    *)
(* inbound, the operator of the node that served it is owed a payout, and  *)
(* the payout is accrued, batched, written ahead to a durable store, paid  *)
(* on chain with retries and, after a restart, recovered.                  *)
(*                                                                         *)
(* Four parties interleave: the service (one JavaScript thread: what runs  *)
(* between two awaits is one step), the per-operator chains of durable     *)
(* writes, the accrual store (packages/registry/src/store/accruals.ts) and *)
(* the Algorand network with its leases and its indexer                    *)
(* (packages/gateway/src/services/algorand.ts).                            *)
(*                                                                         *)
(* A payout id is a number, fresh for every accrual, recovered accrual and *)
(* unbatched payout: `<now>-<seq>` and the request id never repeat.  The   *)
(* audit ledger is kept below its cap.  Its rows are stored too, each      *)
(* request's in the order they are queued: what a later process reads back *)
(* is the last of them to have been written (AuditLedger has the commands).*)
(***************************************************************************)
EXTENDS PriceSplit, Sequences, FiniteSets

CONSTANTS
    Requests,        \* request ids (a fresh UUID for each HTTP request)
    Operators,       \* operator addresses
    None,            \* no operator
    Inbound,         \* what each request's client paid, in atomic units
    MarginBps,       \* the gateway's margin
    BatchMins,       \* the thresholds a deployment may set; 0 is unbatched
    BatchMaxRequests,\* payoutBatchMaxRequests
    Attempts,        \* RetryPolicy.attempts
    LeaseCoversRetry,\* TRUE: a lease outlasts the attempts that follow it
    MaxPayouts,      \* bound: payout ids used in a behaviour
    MaxEnds,         \* bound: processes that shut down or crash
    CrashMode,       \* "none", "any", or "drained": no write outstanding
    MaxStoreFaults,  \* bound: store commands that fail in a behaviour
    MaxLoadFaults,   \* bound: boots that cannot read the store
    MaxLookupFaults  \* bound: indexer lookups that fail in a behaviour

Ids == 1 .. MaxPayouts
NoId == 0

Payout(r) == computeSplit(Inbound[r], MarginBps).payout

ASSUME SettlementAssumption ==
    /\ None \notin Operators
    /\ Inbound \in [Requests -> Nat]
    /\ IsMarginBps(MarginBps)
    /\ BatchMins \subseteq Nat /\ BatchMins # {}
    /\ BatchMaxRequests \in Nat \ {0}
    /\ Attempts \in Nat \ {0}
    /\ MaxPayouts \in Nat
    /\ MaxEnds \in Nat /\ MaxStoreFaults \in Nat
    /\ MaxLoadFaults \in Nat /\ MaxLookupFaults \in Nat
    /\ CrashMode \in {"none", "drained", "any"} /\ LeaseCoversRetry \in BOOLEAN

VARIABLES
    phase,      \* what the gateway process is doing
    batchMin,   \* batchMinAtomic of the running deployment
    req,        \* each HTTP request: not begun, in its handler, ended
    routing,    \* the routing note of a request: the operator, or None
    claimed,    \* the idempotency guard
    ledger,     \* the in-memory audit ledger: each request's status
    rows,       \* what its stored row may hold: every status queued for it
    nextId,     \* the next fresh payout id
    accrual,    \* the payout id an operator's open accrual will get, or NoId
    total,      \* its running total
    owner,      \* the operator a payout id pays
    recs,       \* the records array of an accrual or a job
    job,        \* where runPayout is, for each payout id
    attempt,    \* its attempt counter
    unbatched,  \* payout ids that are a request's own: batchId is null
    liability,  \* the batchLiabilities mirror
    chain,      \* the durable writes outstanding, per operator
    handled,    \* recovery: request ids already being paid
    todoBatch,  \* recovery: stored batches not yet considered
    todoOpen    \* recovery: operators whose open row is not yet considered
intake == <<batchMin, req, routing, claimed>>
accruing == <<nextId, accrual, total, owner>>
payouts == <<recs, job, attempt, unbatched>>
recovery == <<handled, todoBatch, todoOpen>>

VARIABLES
    openRow,    \* accrual:open:<operator>, {} when absent
    batchRow    \* accrual:batch:<batchId>, {} when absent
store == <<openRow, batchRow>>

VARIABLES
    pool,       \* the transfer in the transaction pool for a payout id
    lease,      \* payout ids whose lease is held by a committed transfer
    landed,     \* payout ids with a committed transfer: the indexer's truth
    paid        \* for each request, the receivers of the transfers covering it
network == <<pool, lease, landed, paid>>

VARIABLES
    debt,       \* history: the operator each settled request is owed to
    ends, storeFaults, loadFaults, lookupFaults
history == <<debt, ends, storeFaults, loadFaults, lookupFaults>>
vars == <<phase, intake, ledger, rows, accruing, payouts, liability, chain, recovery,
          store, network, history>>

Serving == {"up", "closing", "flushing", "final"}
Phases == Serving \cup {"recovering", "crashed", "exited"}
Status == {"none", "pending", "accrued", "settled", "failed"}
JobStates == {"none", "check", "pay", "await", "look", "last", "done"}
Active == {"check", "pay", "await", "look", "last"}
Writes == [op : {"putOpen", "promote", "putBatch", "removeOpen", "removeBatch"}, id : Ids]
          \cup [op : {"removeOpen"}, id : {NoId}]

TypeOK ==
    /\ phase \in Phases
    /\ batchMin \in BatchMins
    /\ req \in [Requests -> {"new", "live", "over"}]
    /\ routing \in [Requests -> Operators \cup {None}]
    /\ claimed \subseteq Requests
    /\ ledger \in [Requests -> Status]
    /\ rows \in [Requests -> SUBSET Status]
    /\ nextId \in 1 .. MaxPayouts + 1
    /\ accrual \in [Operators -> Ids \cup {NoId}]
    /\ total \in [Operators -> Nat]
    /\ owner \in [Ids -> Operators \cup {None}]
    /\ recs \in [Ids -> SUBSET Requests]
    /\ job \in [Ids -> JobStates]
    /\ attempt \in [Ids -> 0 .. Attempts]
    /\ unbatched \subseteq Ids
    /\ liability \in [Ids -> {"none", "paying", "stuck"}]
    /\ chain \in [Operators -> Seq(Writes)]
    /\ handled \subseteq Requests
    /\ todoBatch \subseteq Ids
    /\ todoOpen \subseteq Operators
    /\ openRow \in [Operators -> SUBSET Requests]
    /\ batchRow \in [Ids -> SUBSET Requests]
    /\ pool \in [Ids -> SUBSET Requests]
    /\ lease \subseteq Ids
    /\ landed \subseteq Ids
    /\ paid \in [Requests -> Seq(Operators)]
    /\ debt \in [Requests -> Operators \cup {None}]
    /\ ends \in 0 .. MaxEnds
    /\ storeFaults \in 0 .. MaxStoreFaults
    /\ loadFaults \in 0 .. MaxLoadFaults
    /\ lookupFaults \in 0 .. MaxLookupFaults

Init ==
    /\ phase = "up"
    /\ batchMin \in BatchMins
    /\ req = [r \in Requests |-> "new"]
    /\ routing = [r \in Requests |-> None]
    /\ claimed = {}
    /\ ledger = [r \in Requests |-> "none"]
    /\ rows = [r \in Requests |-> {"none"}]
    /\ nextId = 1
    /\ accrual = [o \in Operators |-> NoId]
    /\ total = [o \in Operators |-> 0]
    /\ owner = [b \in Ids |-> None]
    /\ recs = [b \in Ids |-> {}]
    /\ job = [b \in Ids |-> "none"]
    /\ attempt = [b \in Ids |-> 0]
    /\ unbatched = {}
    /\ liability = [b \in Ids |-> "none"]
    /\ chain = [o \in Operators |-> <<>>]
    /\ handled = {} /\ todoBatch = {} /\ todoOpen = {}
    /\ openRow = [o \in Operators |-> {}]
    /\ batchRow = [b \in Ids |-> {}]
    /\ pool = [b \in Ids |-> {}]
    /\ lease = {} /\ landed = {}
    /\ paid = [r \in Requests |-> <<>>]
    /\ debt = [r \in Requests |-> None]
    /\ ends = 0 /\ storeFaults = 0 /\ loadFaults = 0 /\ lookupFaults = 0

-----------------------------------------------------------------------------
(* Intake: a node is chosen, the client's payment settles inbound.          *)

(* recordRouting: called for every node the router tries; the last one      *)
(* stands.  Notes past their ten minutes are dropped first: `gone`.         *)
RecordRouting(r, o) ==
    /\ \/ phase = "up" /\ req[r] \in {"new", "live"}
       \/ phase \in Serving /\ req[r] = "live"
    /\ req' = [req EXCEPT ![r] = "live"]
    /\ \E gone \in SUBSET {q \in Requests : routing[q] # None} :
          routing' = [q \in Requests |->
                        IF q = r THEN o ELSE IF q \in gone THEN None ELSE routing[q]]
    /\ UNCHANGED <<phase, batchMin, claimed, ledger, rows, accruing, payouts, liability,
                   chain, recovery, store, network, history>>

(* enqueueWrite: one more write at the end of the operator's chain.         *)
enqueueWrite(o, op, b) == [chain EXCEPT ![o] = Append(@, [op |-> op, id |-> b])]

(* flushAccrual, for every operator of S: the accrual becomes a payout job  *)
(* and the promotion open -> batch is enqueued.  The job does not wait for  *)
(* it.  `open` is the accruals map, with the accrual being added to.        *)
flushAccrual(open, S) ==
    LET batches == {open[o] : o \in S}
    IN  /\ accrual' = [o \in Operators |-> IF o \in S THEN NoId ELSE open[o]]
        /\ total' = [o \in Operators |-> IF o \in S THEN 0 ELSE total[o]]
        /\ job' = [b \in Ids |-> IF b \in batches THEN "pay" ELSE job[b]]
        /\ attempt' = [b \in Ids |-> IF b \in batches THEN 1 ELSE attempt[b]]
        /\ liability' = [b \in Ids |-> IF b \in batches THEN "paying" ELSE liability[b]]
        /\ chain' = [o \in Operators |->
                       IF o \in S THEN Append(chain[o], [op |-> "promote", id |-> open[o]])
                       ELSE chain[o]]

(* persistLedger: a row is queued behind the request's others.  A put may   *)
(* fail, or die with the process, so any row since the one last read may    *)
(* turn out to be the last that was written.                                *)
persistLedger(S, statuses) ==
    [r \in Requests |-> IF r \in S THEN rows[r] \cup statuses ELSE rows[r]]

(* settleInbound up to the split: the note is consumed, the id claimed.     *)
(* Without a note nothing happens, and that is no step.                     *)
Claim(r) ==
    /\ phase \in Serving /\ req[r] = "live" /\ routing[r] # None
    /\ routing' = [routing EXCEPT ![r] = None]
    /\ r \notin claimed
    /\ claimed' = claimed \cup {r}
    /\ UNCHANGED <<phase, batchMin, req, recovery, store, network,
                   ends, storeFaults, loadFaults, lookupFaults>>

SettleDuplicate(r) ==
    /\ phase \in Serving /\ req[r] = "live" /\ routing[r] # None
    /\ r \in claimed
    /\ routing' = [routing EXCEPT ![r] = None]
    /\ UNCHANGED <<phase, batchMin, req, claimed, ledger, rows, accruing, payouts,
                   liability, chain, recovery, store, network, history>>

SettleNothingOwed(r) ==
    /\ Claim(r)
    /\ Payout(r) = 0
    /\ ledger' = [ledger EXCEPT ![r] = "settled"]
    /\ rows' = persistLedger({r}, {"pending", "settled"})
    /\ UNCHANGED <<accruing, payouts, liability, chain, debt>>

SettleUnbatched(r) ==
    /\ Claim(r)
    /\ Payout(r) > 0 /\ batchMin = 0
    /\ nextId \in Ids
    /\ nextId' = nextId + 1
    /\ ledger' = [ledger EXCEPT ![r] = "pending"]
    /\ rows' = persistLedger({r}, {"pending"})
    /\ debt' = [debt EXCEPT ![r] = routing[r]]
    /\ owner' = [owner EXCEPT ![nextId] = routing[r]]
    /\ recs' = [recs EXCEPT ![nextId] = {r}]
    /\ job' = [job EXCEPT ![nextId] = "pay"]
    /\ attempt' = [attempt EXCEPT ![nextId] = 1]
    /\ unbatched' = unbatched \cup {nextId}
    /\ UNCHANGED <<accrual, total, liability, chain>>

(* accrue: the record joins its operator's accrual, which is flushed at the *)
(* value threshold or the size cap and is otherwise written as the open row.*)
(* The pending row queued in the same turn is not told from the accrued one.*)
SettleAccrued(r) ==
    LET o == routing[r]
        b == IF accrual[o] = NoId THEN nextId ELSE accrual[o]
        sum == total[o] + Payout(r)
        full == \/ sum >= batchMin
                \/ Cardinality(recs[b] \cup {r}) >= BatchMaxRequests
    IN  /\ Claim(r)
        /\ Payout(r) > 0 /\ batchMin > 0
        /\ b \in Ids
        /\ nextId' = IF accrual[o] = NoId THEN nextId + 1 ELSE nextId
        /\ ledger' = [ledger EXCEPT ![r] = "accrued"]
        /\ rows' = persistLedger({r}, {"accrued"})
        /\ debt' = [debt EXCEPT ![r] = o]
        /\ owner' = [owner EXCEPT ![b] = o]
        /\ recs' = [recs EXCEPT ![b] = @ \cup {r}]
        /\ UNCHANGED unbatched
        /\ \/ full /\ flushAccrual([accrual EXCEPT ![o] = b], {o})
           \/ /\ ~full
              /\ accrual' = [accrual EXCEPT ![o] = b]
              /\ total' = [total EXCEPT ![o] = sum]
              /\ chain' = enqueueWrite(o, "putOpen", b)
              /\ UNCHANGED <<job, attempt, liability>>

(* The age deadline, armed when an accrual is opened and left open.         *)
Deadline(o) ==
    /\ phase \in Serving /\ accrual[o] # NoId
    /\ flushAccrual(accrual, {o})
    /\ UNCHANGED <<phase, intake, ledger, rows, nextId, owner, recs, unbatched, recovery,
                   store, network, history>>

-----------------------------------------------------------------------------
(* The chains of durable writes.  The store runs the head of a chain; a     *)
(* records array is serialised when its write runs, not when it is queued.  *)

Head1(o, op) ==
    /\ phase \in Serving
    /\ chain[o] # <<>>
    /\ Head(chain[o]).op = op
    /\ UNCHANGED <<phase, intake, ledger, rows, accruing, payouts, liability, recovery,
                   network, debt, ends, loadFaults, lookupFaults>>

PutOpen(o) ==
    /\ Head1(o, "putOpen")
    /\ openRow' = [openRow EXCEPT ![o] = recs[Head(chain[o]).id]]
    /\ chain' = [chain EXCEPT ![o] = Tail(@)]
    /\ UNCHANGED <<batchRow, storeFaults>>

(* The first half of a promotion; removeOpen is what is left of the task.   *)
Promote(o) ==
    LET b == Head(chain[o]).id
    IN  /\ Head1(o, "promote")
        /\ batchRow' = [batchRow EXCEPT ![b] = recs[b]]
        /\ chain' = [chain EXCEPT ![o] = <<[op |-> "removeOpen", id |-> b]>> \o Tail(@)]
        /\ UNCHANGED <<openRow, storeFaults>>

PutBatch(o) ==
    /\ Head1(o, "putBatch")
    /\ batchRow' = [batchRow EXCEPT ![Head(chain[o]).id] = recs[Head(chain[o]).id]]
    /\ chain' = [chain EXCEPT ![o] = Tail(@)]
    /\ UNCHANGED <<openRow, storeFaults>>

RemoveOpen(o) ==
    /\ Head1(o, "removeOpen")
    /\ openRow' = [openRow EXCEPT ![o] = {}]
    /\ chain' = [chain EXCEPT ![o] = Tail(@)]
    /\ UNCHANGED <<batchRow, storeFaults>>

RemoveBatch(o) ==
    /\ Head1(o, "removeBatch")
    /\ batchRow' = [batchRow EXCEPT ![Head(chain[o]).id] = {}]
    /\ chain' = [chain EXCEPT ![o] = Tail(@)]
    /\ UNCHANGED <<openRow, storeFaults>>

(* A store command fails: the error is logged and swallowed, and the rest   *)
(* of the task (removeOpen after a failed putBatch) is skipped.             *)
WriteFails(o) ==
    /\ storeFaults < MaxStoreFaults
    /\ \E op \in {"putOpen", "promote", "putBatch", "removeOpen", "removeBatch"} :
          Head1(o, op)
    /\ storeFaults' = storeFaults + 1
    /\ chain' = [chain EXCEPT ![o] = Tail(@)]
    /\ UNCHANGED <<openRow, batchRow>>

-----------------------------------------------------------------------------
(* runPayout.                                                               *)

JobAt(b, state) ==
    /\ phase \in Serving
    /\ job[b] = state
    /\ UNCHANGED <<phase, intake, accruing, recs, unbatched, recovery, store,
                   debt, ends, storeFaults, loadFaults>>

(* finalizeSettled: the mirror entry goes, the batch row's removal is       *)
(* enqueued, every record is marked settled.                                *)
finalizeSettled(b) ==
    /\ job' = [job EXCEPT ![b] = "done"]
    /\ liability' = [liability EXCEPT ![b] = "none"]
    /\ ledger' = [r \in Requests |-> IF r \in recs[b] THEN "settled" ELSE ledger[r]]
    /\ rows' = persistLedger(recs[b], {"settled"})
    /\ chain' = IF b \in unbatched THEN chain ELSE enqueueWrite(owner[b], "removeBatch", b)
    /\ UNCHANGED attempt

(* Mutants of finalizeFailed: the mirror entry is dropped; the stored batch *)
(* is released as if it had been paid.                                      *)
FailedHidden(b) ==
    /\ job' = [job EXCEPT ![b] = "done"]
    /\ liability' = [liability EXCEPT ![b] = "none"]
    /\ ledger' = [r \in Requests |-> IF r \in recs[b] THEN "failed" ELSE ledger[r]]
    /\ rows' = persistLedger(recs[b], {"failed"})
    /\ UNCHANGED <<chain, attempt>>

FailedReleased(b) ==
    /\ job' = [job EXCEPT ![b] = "done"]
    /\ liability' = [liability EXCEPT ![b] = "stuck"]
    /\ ledger' = [r \in Requests |-> IF r \in recs[b] THEN "failed" ELSE ledger[r]]
    /\ rows' = persistLedger(recs[b], {"failed"})
    /\ chain' = enqueueWrite(owner[b], "removeBatch", b)
    /\ UNCHANGED attempt

(* finalizeFailed: the batch row is kept, the mirror entry marked stuck.    *)
finalizeFailed(b) ==
    /\ job' = [job EXCEPT ![b] = "done"]
    /\ liability' = [liability EXCEPT ![b] = IF b \in unbatched THEN "none" ELSE "stuck"]
    /\ ledger' = [r \in Requests |-> IF r \in recs[b] THEN "failed" ELSE ledger[r]]
    /\ rows' = persistLedger(recs[b], {"failed"})
    /\ UNCHANGED <<chain, attempt>>

GoTo(b, state) ==
    /\ job' = [job EXCEPT ![b] = state]
    /\ UNCHANGED <<liability, ledger, rows, chain>>

(* findLandedPayout: the indexer's answer, or "not found" when the lookup   *)
(* failed or the indexer lags behind the chain.                             *)
findLandedPayout(b, found) ==
    \/ found = (b \in landed) /\ UNCHANGED lookupFaults
    \/ /\ b \in landed /\ found = FALSE
       /\ lookupFaults < MaxLookupFaults
       /\ lookupFaults' = lookupFaults + 1

CheckLandedFirst(b) ==
    /\ JobAt(b, "check")
    /\ UNCHANGED network
    /\ \E found \in BOOLEAN :
          /\ findLandedPayout(b, found)
          /\ IF found THEN finalizeSettled(b) ELSE GoTo(b, "pay") /\ UNCHANGED attempt

(* Mutant of Pay: the transfer carries no lease.                            *)
PayWithoutLease(b) ==
    /\ JobAt(b, "pay")
    /\ UNCHANGED <<lease, landed, paid, lookupFaults, attempt>>
    /\ \/ /\ pool[b] = {}
          /\ pool' = [pool EXCEPT ![b] = recs[b]]
          /\ GoTo(b, "await")
       \/ UNCHANGED pool /\ GoTo(b, "look")

(* pay: the transfer enters the pool and its confirmation is awaited, or    *)
(* the call throws: always when a transfer with this lease is pending or    *)
(* committed, at any time when algod cannot be reached or refuses it.       *)
Pay(b) ==
    /\ JobAt(b, "pay")
    /\ UNCHANGED <<lease, landed, paid, lookupFaults, attempt>>
    /\ \/ /\ pool[b] = {} /\ b \notin lease
          /\ pool' = [pool EXCEPT ![b] = recs[b]]
          /\ GoTo(b, "await")
       \/ UNCHANGED pool /\ GoTo(b, "look")

PayConfirmed(b) ==
    /\ JobAt(b, "await")
    /\ b \in lease
    /\ finalizeSettled(b)
    /\ UNCHANGED <<network, lookupFaults>>

(* Mutant of PayThrows: a submitted transfer is taken for a settled one.    *)
SubmittedIsSettled(b) ==
    /\ JobAt(b, "await")
    /\ finalizeSettled(b)
    /\ UNCHANGED <<network, lookupFaults>>

(* The wait for the confirmation fails: the transfer may have landed, may   *)
(* still land, or may never.                                                *)
PayThrows(b) ==
    /\ JobAt(b, "await")
    /\ GoTo(b, "look")
    /\ UNCHANGED <<network, lookupFaults, attempt>>

(* After a failed attempt: settled if it landed, otherwise back off and try *)
(* again, or fall out of the loop after the last attempt.                   *)
LookAfterAttempt(b) ==
    /\ JobAt(b, "look")
    /\ UNCHANGED network
    /\ \E found \in BOOLEAN :
          /\ findLandedPayout(b, found)
          /\ \/ found /\ finalizeSettled(b)
             \/ /\ ~found /\ attempt[b] < Attempts
                /\ GoTo(b, "pay")
                /\ attempt' = [attempt EXCEPT ![b] = @ + 1]
             \/ ~found /\ attempt[b] = Attempts /\ GoTo(b, "last") /\ UNCHANGED attempt

(* Mutant of LastLook: keep looking until the payout is found.              *)
LookForever(b) ==
    /\ JobAt(b, "last")
    /\ UNCHANGED network
    /\ \E found \in BOOLEAN :
          /\ findLandedPayout(b, found)
          /\ IF found THEN finalizeSettled(b) ELSE GoTo(b, "last") /\ UNCHANGED attempt

(* The look after the loop: settled after all, or failed.                   *)
LastLook(b) ==
    /\ JobAt(b, "last")
    /\ UNCHANGED network
    /\ \E found \in BOOLEAN :
          /\ findLandedPayout(b, found)
          /\ IF found THEN finalizeSettled(b) ELSE finalizeFailed(b)

-----------------------------------------------------------------------------
(* The network (external): a pending transfer commits, which holds its      *)
(* lease until the end of its validity window, or expires uncommitted.      *)

NetworkStep == UNCHANGED <<phase, intake, ledger, rows, accruing, payouts, liability, chain,
                           recovery, store, history>>

Land(b) ==
    /\ NetworkStep
    /\ pool[b] # {}
    /\ pool' = [pool EXCEPT ![b] = {}]
    /\ lease' = lease \cup {b}
    /\ landed' = landed \cup {b}
    /\ paid' = [r \in Requests |->
                  IF r \in pool[b] THEN Append(paid[r], owner[b]) ELSE paid[r]]

Expire(b) ==
    /\ NetworkStep
    /\ pool[b] # {}
    /\ pool' = [pool EXCEPT ![b] = {}]
    /\ UNCHANGED <<lease, landed, paid>>

LeaseEnds(b) ==
    /\ NetworkStep
    /\ b \in lease
    /\ LeaseCoversRetry => job[b] \notin {"pay", "await", "look", "last"}
    /\ lease' = lease \ {b}
    /\ UNCHANGED <<pool, landed, paid>>

-----------------------------------------------------------------------------
(* Shutdown (gateway/src/server.ts): the listener closes, flushPayouts      *)
(* loops until no accrual is left, and a last whenIdle precedes the exit.   *)
(* A handler whose client has gone may still settle while that runs.        *)

Accruing == {o \in Operators : accrual[o] # NoId}

Idle ==
    /\ \A b \in Ids : job[b] \notin Active
    /\ \A o \in Operators : chain[o] = <<>>

Shutdown ==
    /\ phase = "up" /\ ends < MaxEnds
    /\ phase' = "closing"
    /\ ends' = ends + 1
    /\ UNCHANGED <<intake, ledger, rows, accruing, payouts, liability, chain, recovery,
                   store, network, debt, storeFaults, loadFaults, lookupFaults>>

(* One round of flushPayouts' loop: the first starts when the listener has  *)
(* closed, the others when whenIdle returns.                                *)
FlushPayouts ==
    /\ phase = "closing" \/ (phase = "flushing" /\ Idle)
    /\ phase' = IF Accruing = {} THEN "final" ELSE "flushing"
    /\ flushAccrual(accrual, Accruing)
    /\ UNCHANGED <<intake, ledger, rows, nextId, owner, recs, unbatched, recovery, store,
                   network, history>>

(* What a process leaves behind: the stores, and nothing of its memory.     *)
(* Where no put fails, a process that ends drained has written every row.   *)
LoseMemory(drained) ==
    /\ rows' = [r \in Requests |->
                  IF drained /\ MaxStoreFaults = 0 /\ ledger[r] # "none"
                  THEN {ledger[r]} ELSE rows[r]]
    /\ req' = [r \in Requests |-> IF req[r] = "live" THEN "over" ELSE req[r]]
    /\ routing' = [r \in Requests |-> None]
    /\ claimed' = {}
    /\ ledger' = [r \in Requests |-> "none"]
    /\ accrual' = [o \in Operators |-> NoId]
    /\ total' = [o \in Operators |-> 0]
    /\ recs' = [b \in Ids |-> {}]
    /\ job' = [b \in Ids |-> "none"]
    /\ attempt' = [b \in Ids |-> 0]
    /\ unbatched' = {}
    /\ liability' = [b \in Ids |-> "none"]
    /\ chain' = [o \in Operators |-> <<>>]
    /\ handled' = {} /\ todoBatch' = {} /\ todoOpen' = {}
    /\ UNCHANGED <<batchMin, nextId, owner, store, network, debt, storeFaults, loadFaults,
                   lookupFaults>>

Exit ==
    /\ phase = "final" /\ Idle
    /\ phase' = "exited"
    /\ LoseMemory(TRUE)
    /\ UNCHANGED ends

(* A crash, or the exit forced when the grace period ends.                  *)
Crash ==
    /\ CrashMode # "none"
    /\ CrashMode = "drained" => \A o \in Operators : chain[o] = <<>>
    /\ \/ phase \in {"up", "recovering"} /\ ends < MaxEnds /\ ends' = ends + 1
       \/ phase \in {"closing", "flushing", "final"} /\ UNCHANGED ends
    /\ phase' = "crashed"
    /\ LoseMemory(CrashMode = "drained")

-----------------------------------------------------------------------------
(* recoverAccruals, before the listener opens.  The loop is synchronous:    *)
(* nothing but the network moves until it has considered every row.         *)

(* hydrateLedger, first of all: each request's row, as it was last written, *)
(* goes into the ledger and its id is claimed.  When the rows cannot be     *)
(* read the history starts from this boot.                                  *)
hydrateLedger ==
    \/ /\ ledger' \in {read \in [Requests -> Status] : \A r \in Requests : read[r] \in rows[r]}
       /\ rows' = [r \in Requests |-> {ledger'[r]}]
       /\ claimed' = {r \in Requests : ledger'[r] # "none"}
    \/ MaxLoadFaults > 0 /\ UNCHANGED <<ledger, rows, claimed>>

(* A deployment may come back with another threshold.                       *)
Boot ==
    /\ phase \in {"crashed", "exited"}
    /\ phase' = "recovering"
    /\ batchMin' \in BatchMins
    /\ todoBatch' = {b \in Ids : batchRow[b] # {}}
    /\ todoOpen' = {o \in Operators : openRow[o] # {}}
    /\ hydrateLedger
    /\ UNCHANGED <<req, routing, accruing, payouts, liability, chain,
                   handled, store, network, history>>

(* loadAll throws: the gateway serves all the same and recovers nothing.    *)
BootBlind ==
    /\ phase \in {"crashed", "exited"}
    /\ loadFaults < MaxLoadFaults
    /\ loadFaults' = loadFaults + 1
    /\ phase' = "up"
    /\ batchMin' \in BatchMins
    /\ hydrateLedger
    /\ UNCHANGED <<req, routing, accruing, payouts, liability, chain, recovery,
                   store, network, debt, ends, storeFaults, lookupFaults>>

(* An accrual holds only requests to which something is owed, so a row with *)
(* a request left to pay has a sum to pay.                                  *)
(*                                                                          *)
(* A stored row of operator o is paid under id b: a request the ledger does *)
(* not have is remembered, any other keeps the status that was read back.   *)
(* `write` is enqueued to keep the store in step, `start` is where the job  *)
(* begins.                                                                  *)
payRecovered(o, b, payable, write, start) ==
    /\ claimed' = claimed \cup payable
    /\ handled' = handled \cup payable
    /\ ledger' = [r \in Requests |->
                    IF r \in payable /\ ledger[r] = "none" THEN "pending" ELSE ledger[r]]
    /\ rows' = persistLedger({r \in payable : ledger[r] = "none"}, {"pending"})
    /\ recs' = [recs EXCEPT ![b] = payable]
    /\ job' = [job EXCEPT ![b] = start]
    /\ attempt' = [attempt EXCEPT ![b] = 1]
    /\ liability' = [liability EXCEPT ![b] = "paying"]
    /\ chain' = enqueueWrite(o, write, b)

dropRecovered(o, write, b) ==
    /\ chain' = enqueueWrite(o, write, b)
    /\ UNCHANGED <<claimed, handled, ledger, rows, recs, job, attempt, liability>>

Recovering ==
    /\ phase = "recovering"
    /\ UNCHANGED <<phase, batchMin, req, routing, accrual, total, unbatched, store,
                   network, history>>

(* Mutant of RecoverBatch: resume without asking the chain.                 *)
ResumeUnchecked(b) ==
    LET payable == batchRow[b] \ handled
    IN  /\ Recovering
        /\ b \in todoBatch
        /\ todoBatch' = todoBatch \ {b}
        /\ IF payable = {}
           THEN dropRecovered(owner[b], "removeBatch", b)
           ELSE payRecovered(owner[b], b, payable, "putBatch", "pay")
        /\ UNCHANGED <<nextId, owner, todoOpen>>

(* A stored batch keeps its id, and the chain is asked before it is paid.   *)
RecoverBatch(b) ==
    LET payable == batchRow[b] \ handled
    IN  /\ Recovering
        /\ b \in todoBatch
        /\ todoBatch' = todoBatch \ {b}
        /\ IF payable = {}
           THEN dropRecovered(owner[b], "removeBatch", b)
           ELSE payRecovered(owner[b], b, payable, "putBatch", "check")
        /\ UNCHANGED <<nextId, owner, todoOpen>>

(* Mutant of RecoverOpen: rows are not de-duplicated against batches.       *)
RecoverOverlap(o) ==
    /\ Recovering
    /\ todoBatch = {} /\ o \in todoOpen
    /\ todoOpen' = todoOpen \ {o}
    /\ nextId \in Ids
    /\ nextId' = nextId + 1
    /\ owner' = [owner EXCEPT ![nextId] = o]
    /\ payRecovered(o, nextId, openRow[o], "promote", "pay")
    /\ UNCHANGED todoBatch

(* An open row is paid at once, under a fresh id.                           *)
RecoverOpen(o) ==
    LET payable == openRow[o] \ handled
    IN  /\ Recovering
        /\ todoBatch = {} /\ o \in todoOpen
        /\ todoOpen' = todoOpen \ {o}
        /\ IF payable = {}
           THEN /\ dropRecovered(o, "removeOpen", NoId)
                /\ UNCHANGED <<nextId, owner>>
           ELSE /\ nextId \in Ids
                /\ nextId' = nextId + 1
                /\ owner' = [owner EXCEPT ![nextId] = o]
                /\ payRecovered(o, nextId, payable, "promote", "pay")
        /\ UNCHANGED todoBatch

Listen ==
    /\ phase = "recovering" /\ todoBatch = {} /\ todoOpen = {}
    /\ phase' = "up"
    /\ handled' = {}
    /\ UNCHANGED <<intake, ledger, rows, accruing, payouts, liability, chain, todoBatch,
                   todoOpen, store, network, history>>

-----------------------------------------------------------------------------
SettleInbound(r) ==
    \/ SettleDuplicate(r)
    \/ SettleNothingOwed(r)
    \/ SettleUnbatched(r)
    \/ SettleAccrued(r)

StoreStep(o) ==
    \/ PutOpen(o)
    \/ Promote(o)
    \/ PutBatch(o)
    \/ RemoveOpen(o)
    \/ RemoveBatch(o)

JobStep(b) ==
    \/ CheckLandedFirst(b)
    \/ Pay(b)
    \/ PayConfirmed(b)
    \/ PayThrows(b)
    \/ LookAfterAttempt(b)
    \/ LastLook(b)

ChainStep(b) == Land(b) \/ Expire(b) \/ LeaseEnds(b)

RecoveryStep ==
    \/ Boot
    \/ \E b \in Ids : RecoverBatch(b)
    \/ \E o \in Operators : RecoverOpen(o)
    \/ Listen

Next ==
    \/ \E r \in Requests, o \in Operators : RecordRouting(r, o)
    \/ \E r \in Requests : SettleInbound(r)
    \/ \E o \in Operators : Deadline(o) \/ StoreStep(o) \/ WriteFails(o)
    \/ \E b \in Ids : JobStep(b) \/ ChainStep(b)
    \/ Shutdown \/ FlushPayouts \/ Exit \/ Crash
    \/ RecoveryStep \/ BootBlind

Spec == Init /\ [][Next]_vars

(* The event loop runs what is due: timers fire, promises settle, commands  *)
(* reach the store, a wait for a confirmation ends, a supervisor restarts   *)
(* the process.  Clients, operators of the gateway, faults and the network  *)
(* promise nothing.                                                         *)
Fairness ==
    /\ \A o \in Operators : WF_vars(Deadline(o)) /\ WF_vars(StoreStep(o))
    /\ \A b \in Ids : WF_vars(JobStep(b))
    /\ WF_vars(FlushPayouts) /\ WF_vars(Exit) /\ WF_vars(RecoveryStep)

FairSpec == Spec /\ Fairness

-----------------------------------------------------------------------------
(* Properties.                                                              *)

(* The service implements the abstract debt: each request's debt is paid    *)
(* once, to the operator whose node served it, by a transfer that covers    *)
(* that operator's requests only (runPayout, flushAccrual, recoverAccruals).*)
Abstract == INSTANCE Debt WITH debt <- debt, paid <- paid
ImplementsDebt == Abstract!Spec

(* No request is covered by two committed transfers, whatever is retried    *)
(* and whatever is recovered (claimed, the lease, findLandedPayout).        *)
PaidAtMostOnce == \A r \in Requests : Len(paid[r]) <= 1

(* No request is in two accruals or payouts of the process, nor in two      *)
(* stored batches, nor in an accrual or payout and another's stored batch;  *)
(* all that the process holds is claimed (settleInbound, recoverAccruals).  *)
OnePayoutPerRequest ==
    /\ \A b \in Ids : recs[b] \subseteq claimed
    /\ \A b, c \in Ids : b # c =>
          (recs[b] \cup batchRow[b]) \cap (recs[c] \cup batchRow[c]) = {}

(* The ledger says settled only of a request whose payout is on chain       *)
(* (finalizeSettled, its four callers), or to which nothing was owed.       *)
LedgerTruth ==
    \A r \in Requests : ledger[r] = "settled" /\ Payout(r) > 0 => paid[r] # <<>>

(* What is done stands, whatever fails.  A process changes a verdict of its *)
(* ledger only by ending a payout it resumed, of a request whose verdict it *)
(* has read back and not reached itself: what it has said of a payout it    *)
(* does not take back (a retry, a late look at the chain).  A debt is never *)
(* reassigned, and a request leaves a stored batch only once a transfer     *)
(* covers it (finalizeSettled alone has rows removed; a promotion or a      *)
(* rewrite never stores less).                                              *)
Verdicts == {"settled", "failed"}

ResumedWith(r, verdict) ==
    /\ rows[r] = {verdict}
    /\ \E b \in Ids : r \in recs[b] /\ job[b] \in Active

Irrevocable ==
    [][/\ \A r \in Requests : /\ ledger[r] \in Verdicts =>
                                    \/ ledger'[r] = ledger[r]
                                    \/ phase' \in {"crashed", "exited"}
                                    \/ ResumedWith(r, ledger[r])
                              /\ debt[r] # None => debt'[r] = debt[r]
       /\ \A b \in Ids : \A r \in batchRow[b] : r \in batchRow'[b] \/ paid[r] # <<>>]_vars

(* The requests of a batch are in one row of getPendingPayouts until this   *)
(* process has settled them, and in none afterwards; and money owed that    *)
(* the store records is not invisible: every unpaid request of a stored row *)
(* is in one row of the report, if every boot so far could read the store.  *)
(* A row read back into the ledger alone (its batch lost, or never stored)  *)
(* is not reported: the mirror may say too little.                          *)
Reported(r) ==
    {b \in Ids : r \in recs[b] /\ (liability[b] # "none" \/ b \in {accrual[o] : o \in Operators})}

Recorded(r) == (\E b \in Ids : r \in batchRow[b]) \/ (\E o \in Operators : r \in openRow[o])

PendingReport ==
    /\ \A b \in Ids \ unbatched : \A r \in recs[b] :
          Cardinality(Reported(r)) = IF job[b] = "done" /\ ledger[r] = "settled" THEN 0 ELSE 1
    /\ phase \in Serving /\ loadFaults = 0 =>
          \A r \in Requests : Recorded(r) /\ paid[r] = <<>> => Cardinality(Reported(r)) = 1

(* A debt not yet paid is in the process's hands, in the pool or in the     *)
(* store; a process that ends leaves it in the store (accrue's open row,    *)
(* flushAccrual's promotion, finalizeFailed keeping the batch row).         *)
Held(r) ==
    \/ \E b \in Ids : r \in recs[b] /\ (job[b] \in Active \/ \E o \in Operators : accrual[o] = b)
    \/ \E o \in Operators : \E i \in DOMAIN chain[o] :
          chain[o][i].op \in {"promote", "putBatch"} /\ r \in recs[chain[o][i].id]
    \/ \E b \in Ids : r \in pool[b] \cup batchRow[b]
    \/ \E o \in Operators : r \in openRow[o]

DebtHeld ==
    \A r \in Requests : debt[r] # None /\ paid[r] = <<>> => Held(r)

(* Every record in the process's hands reaches a terminal status: an        *)
(* accrual is flushed at its deadline at the latest and a payout ends       *)
(* settled or failed (runPayout).                                           *)
Resolved ==
    \A r \in Requests :
        (\E b \in Ids : r \in recs[b]) /\ ledger[r] \in {"pending", "accrued"}
            ~> ledger[r] \in Verdicts

(* A shutdown ends: flushPayouts does not wait for itself (server.ts).      *)
ShutdownEnds == phase = "closing" ~> phase \in {"exited", "crashed"}
=============================================================================
