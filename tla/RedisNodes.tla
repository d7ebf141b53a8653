----------------------------- MODULE RedisNodes -----------------------------
(***************************************************************************)
(* The Redis node store (packages/registry/src/store/redis.ts), one Redis  *)
(* command at a time, with several gateways, their crashes, and the fall   *)
(* of a gateway to its process-local mirror at the first failing command.  *)
(* One node: the keys of different nodes are disjoint.                     *)
(*                                                                         *)
(* Each gateway has at most one call to the node in progress (the router's *)
(* bracket beginRequest, recordOutcome, endRequest).  The node's daemon    *)
(* has one registration or heartbeat under way, at any gateway.  A command *)
(* and the handling of its answer are one step.  A command that takes      *)
(* effect and whose answer is lost is that command followed by the failure *)
(* of the next one.  Of a record the model keeps the health flag and the   *)
(* lifetime counter, of a mirror's record the flag: the in-flight count    *)
(* lives in a key of its own, and what a record says of it is overwritten  *)
(* whenever the record is read.                                            *)
(***************************************************************************)
EXTENDS NodeHealth

CONSTANTS
    Gateways,
    None,           \* no record
    MaxCalls,       \* calls made in a behaviour
    MaxFaults       \* commands that fail, and gateways that crash

ASSUME RedisNodesAssumption ==
    /\ IsFiniteSet(Gateways)
    /\ UnhealthyAfter \in Nat \ {0} /\ HealthWindow \in Nat \ {0}
    /\ {MaxCalls, MaxFaults} \subseteq Nat

VARIABLES
    record,     \* Redis: node:<id>, a JSON document
    window,     \* Redis: window:<id>, newest first
    inFlight,   \* Redis: inflight:<id>
    index,      \* Redis: the id is a member of the index set
    degraded,   \* #degraded of each gateway
    mirror,     \* its #fallback: the record's health flag
    past,       \* its #fallback: the window, oldest first
    call,       \* its call to the node
    put,        \* the node's registration or heartbeat, and the gateway that has it
    known,      \* the daemon's view: it is registered, until it gets a 404
    calls,      \* calls made
    faults,     \* faults that have happened
    leaked      \* increments whose decrement will never come
redis == <<record, window, inFlight, index>>
local == <<degraded, mirror, past>>
bounds == <<calls, faults>>
vars == <<redis, local, call, put, known, bounds, leaked>>

Record == [healthy : BOOLEAN, total : Nat]
(* The phases of a call are named for the command that comes next.          *)
Command == {"INCR", "GET", "LPUSH", "LTRIM", "LRANGE", "SET", "DECR"}
Holding == {"run", "GET", "LPUSH", "LTRIM", "LRANGE", "SET", "DECR"}
NoCall == [at |-> "idle", ok |-> FALSE, read |-> None]
Writing == {"GET", "LRANGE", "SET", "SADD"}
NoPut == [at |-> "idle", by |-> None, incoming |-> None, read |-> None]

TypeOK ==
    /\ record \in Record \cup {None}
    /\ window \in Seq(BOOLEAN)
    /\ Len(window) <= HealthWindow + faults + Cardinality({g \in Gateways : call[g].at = "LTRIM"})
    /\ inFlight \in Nat /\ leaked \in Nat
    /\ index \in BOOLEAN
    /\ degraded \in [Gateways -> BOOLEAN]
    /\ mirror \in [Gateways -> BOOLEAN \cup {None}]
    /\ past \in [Gateways -> Seq(BOOLEAN)]
    /\ \A g \in Gateways : Len(past[g]) <= HealthWindow
    /\ call \in [Gateways -> [at : {"idle", "run"} \cup Command, ok : BOOLEAN,
                              read : Record \cup {None}]]
    /\ put \in [at : {"idle"} \cup Writing, by : Gateways \cup {None},
                incoming : Record \cup {None}, read : Record \cup {None}]
    /\ known \in BOOLEAN

Init ==
    /\ record = None /\ window = <<>> /\ inFlight = 0 /\ index = FALSE
    /\ degraded = [g \in Gateways |-> FALSE]
    /\ mirror = [g \in Gateways |-> None] /\ past = [g \in Gateways |-> <<>>]
    /\ call = [g \in Gateways |-> NoCall] /\ put = NoPut
    /\ known = FALSE
    /\ calls = 0 /\ faults = 0 /\ leaked = 0

-----------------------------------------------------------------------------
(* What the stores share.                                                   *)

Reverse(s) == [i \in 1 .. Len(s) |-> s[Len(s) + 1 - i]]
Newest(s) == SubSeq(s, 1, IF Len(s) < HealthWindow THEN Len(s) ELSE HealthWindow)

(* Mutant of mergeHealth: the caller's health is believed.                  *)
MergeBelieves(incoming, outcomes) == incoming

(* mergeRecord, its health flag: an incoming flag and the outcomes, oldest  *)
(* first, must both be good.                                                *)
mergeHealth(incoming, outcomes) == incoming /\ (outcomes = <<>> \/ deriveHealth(outcomes))

(* Mutant of mergeRecord: the counters are added up.                        *)
MergeAdds(existing, incoming, outcomes) ==
    IF existing = None THEN incoming
    ELSE [healthy |-> mergeHealth(incoming.healthy, outcomes),
          total |-> incoming.total + existing.total]

(* mergeRecord: a record that is not there yet is the incoming one.         *)
mergeRecord(existing, incoming, outcomes) ==
    IF existing = None THEN incoming
    ELSE [healthy |-> mergeHealth(incoming.healthy, outcomes),
          total |-> IF incoming.total < existing.total THEN existing.total ELSE incoming.total]

(* The mirror's operations: MemoryNodeStore for this one node.              *)
MirrorUpsert(g, healthy) ==
    mirror' = [mirror EXCEPT ![g] = IF @ = None THEN healthy ELSE mergeHealth(healthy, past[g])]
MirrorOutcome(g, success) ==
    LET all == Append(past[g], success)
        kept == IF Len(all) > HealthWindow THEN Tail(all) ELSE all
    IN  IF mirror[g] = None THEN UNCHANGED <<mirror, past>>
        ELSE /\ past' = [past EXCEPT ![g] = kept]
             /\ mirror' = [mirror EXCEPT ![g] = deriveHealth(kept)]

(* #readRecord, or the mirror's get in a degraded store.                    *)
readRecord(g) ==
    IF ~degraded[g] THEN record
    ELSE IF mirror[g] = None THEN None ELSE [healthy |-> mirror[g], total |-> 0]

(* list: SMEMBERS, then the records of the members.                         *)
Lists(g) == IF degraded[g] THEN mirror[g] # None ELSE index /\ record # None

-----------------------------------------------------------------------------
(* A call: the router's bracket around it.                                  *)

CallAt(g, from, to) ==
    /\ call[g].at = from
    /\ call' = [call EXCEPT ![g].at = to]
    /\ UNCHANGED <<put, known, leaked>>
(* The next command of a call on Redis, which only a connected store sends. *)
CallCommand(g, from, to) ==
    /\ ~degraded[g] /\ CallAt(g, from, to)
    /\ UNCHANGED <<local, bounds>>

(* select finds the node routable, and beginRequest counts the call.        *)
Begin(g) ==
    /\ calls < MaxCalls /\ Lists(g) /\ readRecord(g).healthy
    /\ CallAt(g, "idle", IF degraded[g] THEN "run" ELSE "INCR")
    /\ calls' = calls + 1
    /\ UNCHANGED <<redis, local, faults>>

Incr(g) ==
    /\ CallCommand(g, "INCR", "run")
    /\ inFlight' = inFlight + 1
    /\ UNCHANGED <<record, window, index>>

(* The call is over: recordOutcome begins with the mirror's.                *)
Outcome(g, success) ==
    /\ call[g].at = "run"
    /\ call' = [call EXCEPT ![g] = [at |-> IF degraded[g] THEN "idle" ELSE "GET",
                                    ok |-> success, read |-> None]]
    /\ MirrorOutcome(g, success)
    /\ UNCHANGED <<redis, degraded, put, known, bounds, leaked>>

(* A record that is not there ends recordOutcome.                           *)
GetRecord(g) ==
    /\ ~degraded[g] /\ call[g].at = "GET"
    /\ call' = [call EXCEPT ![g].read = record,
                            ![g].at = IF record = None THEN "DECR" ELSE "LPUSH"]
    /\ UNCHANGED <<redis, local, put, known, bounds, leaked>>

Lpush(g) ==
    /\ CallCommand(g, "LPUSH", "LTRIM")
    /\ window' = <<call[g].ok>> \o window
    /\ UNCHANGED <<record, inFlight, index>>

Ltrim(g) ==
    /\ CallCommand(g, "LTRIM", "LRANGE")
    /\ window' = Newest(window)
    /\ UNCHANGED <<record, inFlight, index>>

(* The window as it is now goes into the record read four commands ago.     *)
LrangeOutcome(g) ==
    /\ ~degraded[g] /\ call[g].at = "LRANGE"
    /\ call' = [call EXCEPT ![g].at = "SET",
                            ![g].read = [healthy |-> deriveHealth(Reverse(Newest(window))),
                                         total |-> @.total + 1]]
    /\ UNCHANGED <<redis, local, put, known, bounds, leaked>>

SetOutcome(g) ==
    /\ ~degraded[g] /\ call[g].at = "SET"
    /\ call' = [call EXCEPT ![g] = [NoCall EXCEPT !.at = "DECR"]]
    /\ record' = call[g].read
    /\ UNCHANGED <<window, inFlight, index, local, put, known, bounds, leaked>>

(* The clamp at zero, in one step with the DECR it follows: InFlightExact   *)
(* shows that it is never needed.                                           *)
Decr(g) ==
    /\ CallCommand(g, "DECR", "idle")
    /\ inFlight' = IF inFlight = 0 THEN 0 ELSE inFlight - 1
    /\ UNCHANGED <<record, window, index>>

-----------------------------------------------------------------------------
(* A registration or a heartbeat.                                           *)

(* store.upsert writes the mirror first, then Redis.                        *)
Upsert(g, incoming) ==
    /\ MirrorUpsert(g, incoming.healthy)
    /\ put' = IF degraded[g] THEN NoPut
              ELSE [at |-> "GET", by |-> g, incoming |-> incoming, read |-> None]

(* The daemon registers with the gateway it gets: handleRegister,           *)
(* once its checks have passed.  buildRecord keeps the counters it finds.   *)
Register(g) ==
    LET existing == readRecord(g)
    IN  /\ ~known /\ put.at = "idle"
        /\ Upsert(g, [healthy |-> TRUE, total |-> IF existing = None THEN 0 ELSE existing.total])
        /\ known' = TRUE
        /\ UNCHANGED <<redis, degraded, past, call, bounds, leaked>>

(* Mutant of Heartbeat: an unknown node is answered with 400, for which the *)
(* daemon does not register again.                                          *)
HeartbeatGivesUp(g) ==
    LET existing == readRecord(g)
    IN  /\ known /\ put.at = "idle"
        /\ IF existing = None
           THEN UNCHANGED <<put, mirror>>
           ELSE Upsert(g, [existing EXCEPT !.healthy = TRUE])
        /\ UNCHANGED <<redis, degraded, past, call, known, bounds, leaked>>

(* handleHeartbeat: the record read, with a clean bill of health, or 404.   *)
Heartbeat(g) ==
    LET existing == readRecord(g)
    IN  /\ known /\ put.at = "idle"
        /\ IF existing = None
           THEN /\ UNCHANGED put
                /\ known' = FALSE
                /\ UNCHANGED mirror
           ELSE Upsert(g, [existing EXCEPT !.healthy = TRUE]) /\ UNCHANGED known
        /\ UNCHANGED <<redis, degraded, past, call, bounds, leaked>>

PutCommand(g, from) ==
    /\ ~degraded[g] /\ put.by = g /\ put.at = from
    /\ UNCHANGED <<local, call, known, bounds, leaked>>

UpsertGet(g) ==
    /\ PutCommand(g, "GET")
    /\ put' = [put EXCEPT !.at = "LRANGE", !.read = readRecord(g)]
    /\ UNCHANGED redis

UpsertLrange(g) ==
    /\ PutCommand(g, "LRANGE")
    /\ put' = [put EXCEPT !.at = "SET",
                          !.incoming = mergeRecord(put.read, @, Reverse(Newest(window)))]
    /\ UNCHANGED redis

UpsertSet(g) ==
    /\ PutCommand(g, "SET")
    /\ record' = put.incoming
    /\ put' = [put EXCEPT !.at = "SADD"]
    /\ UNCHANGED <<window, inFlight, index>>

UpsertSadd(g) ==
    /\ PutCommand(g, "SADD")
    /\ index' = TRUE
    /\ put' = NoPut
    /\ UNCHANGED <<record, window, inFlight>>

-----------------------------------------------------------------------------
(* Faults.                                                                  *)

(* #degrade: the gateway serves from its mirror for good.  Each operation   *)
(* under way falls back, which for a write is to do nothing more; a read    *)
(* goes to the mirror.                                                      *)
Degrade(g) ==
    /\ ~degraded[g]
    /\ degraded' = [degraded EXCEPT ![g] = TRUE]
    /\ leaked' = leaked + (IF call[g].at \in Holding THEN 1 ELSE 0)
    /\ call' = [call EXCEPT ![g].at =
                   CASE @ = "INCR" -> "run"
                     [] @ \in Command \ {"INCR"} -> "idle"
                     [] OTHER -> @]
    /\ put' = IF put.by = g THEN NoPut ELSE put
    /\ UNCHANGED <<redis, mirror, past, known>>

(* Mutant of Fail: a failing command is swallowed and Redis kept.           *)
FailSwallowed(g) ==
    /\ faults < MaxFaults
    /\ call[g].at = "INCR" /\ ~degraded[g]
    /\ call' = [call EXCEPT ![g].at = "run"]
    /\ faults' = faults + 1
    /\ UNCHANGED <<redis, local, put, known, calls, leaked>>

(* A command fails.                                                         *)
Fail(g) ==
    /\ faults < MaxFaults
    /\ call[g].at \in Command \/ put.by = g
    /\ Degrade(g)
    /\ faults' = faults + 1
    /\ UNCHANGED calls

(* The process dies and is started again: createNodeStore connects, or      *)
(* settles for a memory store.                                              *)
Crash(g) ==
    /\ faults < MaxFaults
    /\ faults' = faults + 1
    /\ leaked' = leaked + (IF ~degraded[g] /\ call[g].at \in Holding THEN 1 ELSE 0)
    /\ \E d \in BOOLEAN : degraded' = [degraded EXCEPT ![g] = d]
    /\ mirror' = [mirror EXCEPT ![g] = None] /\ past' = [past EXCEPT ![g] = <<>>]
    /\ call' = [call EXCEPT ![g] = NoCall] /\ put' = (IF put.by = g THEN NoPut ELSE put)
    /\ UNCHANGED <<redis, known, calls>>

-----------------------------------------------------------------------------
CallStep(g) ==
    \/ Incr(g) \/ (\E b \in BOOLEAN : Outcome(g, b)) \/ GetRecord(g) \/ Lpush(g) \/ Ltrim(g)
    \/ LrangeOutcome(g) \/ SetOutcome(g) \/ Decr(g)
PutStep(g) ==
    \/ Register(g) \/ Heartbeat(g)
    \/ UpsertGet(g) \/ UpsertLrange(g) \/ UpsertSet(g) \/ UpsertSadd(g)
Next == \E g \in Gateways : Begin(g) \/ CallStep(g) \/ PutStep(g) \/ Fail(g) \/ Crash(g)

(* A call has a deadline, a command is answered or fails, and the daemon's  *)
(* beats and registrations, spread over all gateways by the balancer, do    *)
(* not stop.                                                                *)
Spec ==
    /\ Init /\ [][Next]_vars
    /\ \A g \in Gateways : /\ WF_vars(CallStep(g)) /\ WF_vars(PutStep(g))
                         /\ SF_vars(Register(g)) /\ SF_vars(Heartbeat(g))

-----------------------------------------------------------------------------
(* The counter in Redis is the calls that connected gateways have in        *)
(* progress, and one for each call that a crash or a fall to the mirror cut *)
(* off from its DECR: it is never below the real load, whatever fails, and  *)
(* what was leaked is all it is above it.                                   *)
InFlightExact ==
    inFlight = leaked + Cardinality({g \in Gateways : ~degraded[g] /\ call[g].at \in Holding})

(* The lifetime counter never counts an outcome twice, however the read-    *)
(* modify-writes of recordOutcome and upsert interleave.                    *)
NoInventedOutcomes == record # None => record.total <= calls

(* Concurrent recordOutcome and upsert calls write back what they read      *)
(* earlier, so the stored flag may contradict the window, but not for good: *)
(* the heartbeats of one connected gateway set it right, because            *)
(* mergeRecord derives it again from the window.                            *)
HealthHeals ==
    (\E g \in Gateways : <>[]~degraded[g])
        => <>[](record # None /\ (window # <<>> => record.healthy = deriveHealth(Reverse(Newest(window)))))

(* A gateway that has crashed, that lost Redis with an empty mirror, or     *)
(* that died between SET and SADD comes to list the node again: its beats   *)
(* are answered with 404 and the daemon registers, and every upsert indexes.*)
ComesBack == \A g \in Gateways : []<>Lists(g)

=============================================================================
