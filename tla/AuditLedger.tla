---------------------------- MODULE AuditLedger -----------------------------
(***************************************************************************)
(* The audit ledger: the settlement service's map of the newest requests   *)
(* (packages/settlement/src/service.ts) and its copy in Redis              *)
(* (packages/registry/src/store/ledger.ts), one command at a time.  Writes *)
(* of one request are chained, writes of different requests overlap.  A    *)
(* command may fail, which ends its write, and the process may crash and   *)
(* start again from what is stored.                                        *)
(***************************************************************************)
EXTENDS Naturals, Sequences, FiniteSets, SequencesExt

CONSTANTS
    Requests,
    None,           \* no entry, no row
    MaxEntries,     \* maxLedgerEntries
    MaxFailures,    \* commands that fail
    MaxRestarts     \* crashes of the process

VARIABLES
    entries,    \* the ledger map's keys, oldest first
    status,     \* the status of each request as the service last set it
    live,       \* the requests whose payout is still to end
    chain,      \* each request's queue of writes: the statuses to store
    at,         \* where the write at the head of a chain is
    dropped,    \* the ids it read before it trims
    row,        \* Redis: ledger:record:<id>
    order,      \* Redis: ledger:order, newest first
    untrimmed,  \* pushes whose trim was cut off, since the last trim
    failures,   \* commands that have failed
    restarts    \* crashes that have happened
memory == <<entries, status, live>>
writes == <<chain, at, dropped>>
store == <<row, order, untrimmed>>
bounds == <<failures, restarts>>
vars == <<memory, writes, store, bounds>>

Open == {"pending", "accrued"}
Terminal == {"settled", "failed"}
Status == Open \cup Terminal
(* A request of an earlier process that this one knows nothing of, and one  *)
(* that it found in an accrual row.                                         *)
Earlier == {"gone", "found"}

ASSUME AuditLedgerAssumption ==
    /\ IsFiniteSet(Requests) /\ None \notin Status
    /\ MaxEntries \in Nat \ {0} /\ {MaxFailures, MaxRestarts} \subseteq Nat

(* A write waits for its command: the next one, by name.                    *)
Command == {"GET", "SET", "SETNEW", "LPUSH", "LRANGE", "LTRIM", "DEL"}

TypeOK ==
    /\ entries \in Seq(Requests) /\ Len(entries) <= MaxEntries /\ IsInjective(entries)
    /\ status \in [Requests -> Status \cup Earlier \cup {None}]
    /\ chain \in [Requests -> Seq(Status)]
    /\ at \in [Requests -> Command]
    /\ dropped \in [Requests -> SUBSET Requests]
    /\ row \in [Requests -> Status \cup {None}]
    /\ order \in Seq(Requests) /\ untrimmed \in Nat
    /\ live \subseteq Requests
    /\ failures \in 0 .. MaxFailures /\ restarts \in 0 .. MaxRestarts

Init ==
    /\ entries = <<>> /\ status = [r \in Requests |-> None]
    /\ chain = [r \in Requests |-> <<>>] /\ at = [r \in Requests |-> "GET"]
    /\ dropped = [r \in Requests |-> {}]
    /\ row = [r \in Requests |-> None] /\ order = <<>>
    /\ live = {} /\ untrimmed = 0 /\ failures = 0 /\ restarts = 0

(* The writes that have pushed their request and not yet trimmed.           *)
Pushed == {r \in Requests : chain[r] # <<>> /\ at[r] \in {"LRANGE", "LTRIM"}}

-----------------------------------------------------------------------------
(* The service.                                                             *)

InLedger(r) == \E i \in DOMAIN entries : entries[i] = r
Newest(s) == SubSeq(s, 1, IF Len(s) < MaxEntries THEN Len(s) ELSE MaxEntries)

(* Mutant of persistLedger: a write overtakes those that have not begun.    *)
PersistOvertakes(r, st) ==
    chain' = [chain EXCEPT ![r] = IF Len(@) < 2 THEN Append(@, st) ELSE <<Head(@), st>> \o Tail(@)]

(* persistLedger: enqueueWrite on the request's own chain.                  *)
persistLedger(r, st) == chain' = [chain EXCEPT ![r] = Append(@, st)]

(* remember: the entry goes in, and the oldest one out of a full ledger.    *)
remember(r) ==
    /\ entries' = LET all == Append(entries, r)
                  IN  IF Len(all) > MaxEntries THEN Tail(all) ELSE all
    /\ live' = live \cup {r}
    /\ UNCHANGED <<at, dropped, store, bounds>>

(* settleInbound, all in one turn: the record is remembered as pending, and *)
(* accrued or, when nothing is owed, settled at once.                       *)
SettleInbound(r, st) ==
    /\ status[r] = None /\ \A x \in Requests : status[x] # "found"
    /\ st \in {"pending", "accrued", "settled"}
    /\ status' = [status EXCEPT ![r] = st]
    /\ remember(r)
    /\ chain' = [chain EXCEPT ![r] = IF st = "pending" THEN Append(@, st) ELSE @ \o <<"pending", st>>]

(* recoverAccruals, before the gateway listens: a record the ledger does    *)
(* not have is remembered as it was stored, pending.                        *)
Recover(r) ==
    /\ status[r] = "found"
    /\ status' = [status EXCEPT ![r] = "pending"]
    /\ remember(r)
    /\ persistLedger(r, "pending")

(* update, when a payout has ended: an entry that is gone stays gone.       *)
update(r, st) ==
    /\ r \in live
    /\ status' = [status EXCEPT ![r] = st]
    /\ live' = live \ {r}
    /\ IF InLedger(r) THEN persistLedger(r, st) ELSE UNCHANGED chain
    /\ UNCHANGED <<entries, at, dropped, store, bounds>>

-----------------------------------------------------------------------------
(* RedisLedgerStore.put, for the write at the head of a chain.              *)

PutAt(r, from) == chain[r] # <<>> /\ at[r] = from
Done(r) ==
    /\ chain' = [chain EXCEPT ![r] = Tail(@)]
    /\ at' = [at EXCEPT ![r] = "GET"]
    /\ dropped' = [dropped EXCEPT ![r] = {}]
Then(r, to) == at' = [at EXCEPT ![r] = to] /\ UNCHANGED chain

Get(r) ==
    /\ PutAt(r, "GET")
    /\ Then(r, IF row[r] = None THEN "SETNEW" ELSE "SET")
    /\ UNCHANGED <<memory, dropped, store, bounds>>

(* Only a new request extends the order.                                    *)
Set(r) ==
    /\ PutAt(r, "SET")
    /\ row' = [row EXCEPT ![r] = Head(chain[r])]
    /\ Done(r)
    /\ UNCHANGED <<memory, order, untrimmed, bounds>>

SetNew(r) ==
    /\ PutAt(r, "SETNEW")
    /\ row' = [row EXCEPT ![r] = Head(chain[r])]
    /\ Then(r, "LPUSH")
    /\ UNCHANGED <<memory, dropped, order, untrimmed, bounds>>

Lpush(r) ==
    /\ PutAt(r, "LPUSH")
    /\ order' = <<r>> \o order
    /\ Then(r, "LRANGE")
    /\ UNCHANGED <<memory, dropped, row, untrimmed, bounds>>

(* What is beyond the cap now; nothing to trim ends the write.              *)
Lrange(r) ==
    LET overflow == {order[i] : i \in MaxEntries + 1 .. Len(order)}
    IN  /\ PutAt(r, "LRANGE")
        /\ IF overflow = {} THEN Done(r)
           ELSE Then(r, "LTRIM") /\ dropped' = [dropped EXCEPT ![r] = overflow]
        /\ UNCHANGED <<memory, store, bounds>>

(* Mutant of Ltrim: one entry too many is kept.                             *)
LtrimOffByOne(r) ==
    /\ PutAt(r, "LTRIM")
    /\ order' = SubSeq(order, 1, IF Len(order) > MaxEntries THEN MaxEntries + 1 ELSE Len(order))
    /\ untrimmed' = 0
    /\ Then(r, "DEL")
    /\ UNCHANGED <<memory, dropped, row, bounds>>

Ltrim(r) ==
    /\ PutAt(r, "LTRIM")
    /\ order' = Newest(order) /\ untrimmed' = 0
    /\ Then(r, "DEL")
    /\ UNCHANGED <<memory, dropped, row, bounds>>

Del(r) ==
    /\ PutAt(r, "DEL")
    /\ row' = [x \in Requests |-> IF x \in dropped[r] THEN None ELSE row[x]]
    /\ Done(r)
    /\ UNCHANGED <<memory, order, untrimmed, bounds>>

(* A command fails: enqueueWrite logs it and goes on with the chain.        *)
Fail(r) ==
    /\ chain[r] # <<>> /\ failures < MaxFailures
    /\ failures' = failures + 1
    /\ Done(r)
    /\ untrimmed' = untrimmed + (IF r \in Pushed THEN 1 ELSE 0)
    /\ UNCHANGED <<memory, row, order, restarts>>

-----------------------------------------------------------------------------
(* hydrateLedger: the ids loadRecent gives, without those whose key is     *)
(* gone, oldest first; an id listed twice keeps its oldest place in the map. *)
Hydrated ==
    LET recent == Newest(order)
        stored == {x \in Range(recent) : row[x] # None}
        Older(x, y) == \E p \in DOMAIN recent :
                          recent[p] = x /\ \A q \in DOMAIN recent : recent[q] = y => q < p
    IN  {s \in [1 .. Cardinality(stored) -> stored] :
            \A i, j \in DOMAIN s : i < j => Older(s[i], s[j])}

(* The process dies.  The next one hydrates the ledger; a read that fails   *)
(* leaves it empty.  Recovery resumes the payouts that have an accrual row, *)
(* which may outlive their settlement.                                      *)
Restart ==
    /\ restarts < MaxRestarts
    /\ restarts' = restarts + 1
    /\ \E loaded \in Hydrated \cup {<<>>}, resumed \in SUBSET {x \in Requests : status[x] # None} :
          /\ entries' = loaded
          /\ live' = resumed \cap Range(loaded)
          /\ status' = [x \in Requests |->
                          IF x \in Range(loaded) THEN row[x]
                          ELSE IF x \in resumed THEN "found"
                          ELSE IF status[x] = None THEN None ELSE "gone"]
    /\ chain' = [x \in Requests |-> <<>>] /\ at' = [x \in Requests |-> "GET"]
    /\ dropped' = [x \in Requests |-> {}]
    /\ untrimmed' = untrimmed + Cardinality(Pushed)
    /\ UNCHANGED <<row, order, failures>>

-----------------------------------------------------------------------------
Put(r) == Get(r) \/ Set(r) \/ SetNew(r) \/ Lpush(r) \/ Lrange(r) \/ Ltrim(r) \/ Del(r)
Next ==
    \/ \E r \in Requests : Recover(r) \/ Put(r) \/ Fail(r)
    \/ \E r \in Requests, st \in Status : SettleInbound(r, st)
    \/ \E r \in Requests, st \in Terminal : update(r, st)
    \/ Restart
(* ioredis answers a command or fails it.                                   *)
Spec == Init /\ [][Next]_vars /\ \A r \in Requests : WF_vars(Put(r) \/ Fail(r))

-----------------------------------------------------------------------------
(* The stored order holds at most the cap, one entry more for each write    *)
(* that has pushed and not yet trimmed, and what writes cut off by a crash  *)
(* or a failure left behind, which the next trim clears.                    *)
OrderCapped == Len(order) <= MaxEntries + Cardinality(Pushed) + untrimmed

(* The audit trail does not lie: once the writes of a request that is in    *)
(* the ledger are done, and none has failed, its stored row, if it still    *)
(* has one, says what the ledger says.  A terminal status is never          *)
(* overwritten by the insert it supersedes, not even across a restart.      *)
RowsCurrent ==
    failures = 0 =>
        \A r \in Requests : InLedger(r) /\ chain[r] = <<>> /\ row[r] # None => row[r] = status[r]

(* No evicted record leaks its key: when nothing is being written, and      *)
(* nothing has failed, every stored row is in the order and will be evicted *)
(* in its turn.                                                             *)
NoLeakedRows ==
    (\A r \in Requests : chain[r] = <<>>) /\ failures = 0 /\ restarts = 0
        => \A r \in Requests : row[r] # None => r \in Range(order)

=============================================================================
