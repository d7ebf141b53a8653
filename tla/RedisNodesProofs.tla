-------------------------- MODULE RedisNodesProofs --------------------------
(***************************************************************************)
(* Invariance proofs for the Redis node store, for every number of         *)
(* gateways, every window length and threshold, and any number of calls,   *)
(* of failing commands and of crashes.                                     *)
(***************************************************************************)
EXTENDS RedisNodes, FiniteSetTheorems, TLAPS

Phase == {"idle", "run"} \cup Command
CallType == [at : Phase, ok : BOOLEAN, read : Record \cup {None}]
PutType == [at : {"idle"} \cup Writing, by : Gateways \cup {None},
            incoming : Record \cup {None}, read : Record \cup {None}]

(* The calls that Redis counts, those whose outcome no record counts yet,   *)
(* and those that have pushed an outcome and not trimmed the window.        *)
Counted == {g \in Gateways : ~degraded[g] /\ call[g].at \in Holding}
Pending == {g \in Gateways : call[g].at \in {"INCR", "run", "GET", "LPUSH", "LTRIM", "LRANGE"}}
Trimming == {g \in Gateways : call[g].at = "LTRIM"}

CountInv ==
    /\ degraded \in [Gateways -> BOOLEAN]
    /\ call \in [Gateways -> CallType]
    /\ inFlight \in Nat /\ leaked \in Nat /\ calls \in Nat /\ faults \in Nat
    /\ InFlightExact

(* A record that some step has read and may write back counts no outcome of *)
(* a call that is still to write its own.                                   *)
Sound(r) == r \in Record /\ r.total + Cardinality(Pending) <= calls

TotalsInv ==
    /\ Cardinality(Pending) <= calls
    /\ record \in Record \cup {None} /\ put \in PutType
    /\ record # None => Sound(record)
    /\ \A g \in Gateways : call[g].at \in {"LPUSH", "LTRIM", "LRANGE", "SET"} => Sound(call[g].read)
    /\ put.at \in {"GET", "LRANGE", "SET"} => Sound(put.incoming)
    /\ put.at = "LRANGE" /\ put.read # None => Sound(put.read)

(* Each call pushes one outcome at most before it trims; only a failure     *)
(* between the two leaves one too many behind.                              *)
WindowInv ==
    /\ window \in Seq(BOOLEAN)
    /\ Len(window) <= HealthWindow + faults + Cardinality(Trimming)
    /\ mirror \in [Gateways -> BOOLEAN \cup {None}]
    /\ past \in [Gateways -> Seq(BOOLEAN)]
    /\ \A g \in Gateways : Len(past[g]) <= HealthWindow
    /\ index \in BOOLEAN /\ known \in BOOLEAN

IInv == CountInv /\ TotalsInv /\ WindowInv

-----------------------------------------------------------------------------
(* Sets of gateways that differ in one gateway.                             *)
LEMMA OneGateway ==
    ASSUME NEW S \in SUBSET Gateways, NEW T \in SUBSET Gateways, NEW g \in Gateways,
           S \ {g} = T \ {g}
    PROVE  /\ Cardinality(S) \in Nat /\ Cardinality(T) \in Nat
           /\ Cardinality(T) = Cardinality(S) + (IF g \in T THEN 1 ELSE 0)
                                              - (IF g \in S THEN 1 ELSE 0)
           /\ g \in S => Cardinality(S) > 0
<1>1. IsFiniteSet(S) /\ IsFiniteSet(T)
  BY RedisNodesAssumption, FS_Subset
<1>2. Cardinality(S) \in Nat /\ Cardinality(T) \in Nat
  BY <1>1, FS_CardinalityType
<1>3. Cardinality(S \ {g}) = IF g \in S THEN Cardinality(S) - 1 ELSE Cardinality(S)
  BY <1>1, FS_RemoveElement
<1>4. Cardinality(T \ {g}) = IF g \in T THEN Cardinality(T) - 1 ELSE Cardinality(T)
  BY <1>1, FS_RemoveElement
<1>5. g \in S => Cardinality(S) > 0
  BY <1>1, <1>2, FS_EmptySet
<1> QED BY <1>2, <1>3, <1>4, <1>5

(* A step that is of one gateway.                                           *)
OthersKept(g) ==
    \A h \in Gateways \ {g} : call'[h] = call[h] /\ degraded'[h] = degraded[h]

(* A step of one gateway changes each count by that gateway alone.          *)
LEMMA StepCounts ==
    ASSUME NEW g \in Gateways, OthersKept(g)
    PROVE  /\ Cardinality(Counted) \in Nat /\ Cardinality(Counted)' \in Nat
           /\ Cardinality(Pending) \in Nat /\ Cardinality(Pending)' \in Nat
           /\ Cardinality(Trimming) \in Nat /\ Cardinality(Trimming)' \in Nat
           /\ Cardinality(Counted)' = Cardinality(Counted)
                 + (IF g \in Counted' THEN 1 ELSE 0) - (IF g \in Counted THEN 1 ELSE 0)
           /\ Cardinality(Pending)' = Cardinality(Pending)
                 + (IF g \in Pending' THEN 1 ELSE 0) - (IF g \in Pending THEN 1 ELSE 0)
           /\ Cardinality(Trimming)' = Cardinality(Trimming)
                 + (IF g \in Trimming' THEN 1 ELSE 0) - (IF g \in Trimming THEN 1 ELSE 0)
           /\ g \in Counted => Cardinality(Counted) > 0
<1>1. Counted \ {g} = Counted' \ {g} /\ Counted \subseteq Gateways /\ Counted' \subseteq Gateways
  BY DEF OthersKept, Counted
<1>2. Pending \ {g} = Pending' \ {g} /\ Pending \subseteq Gateways /\ Pending' \subseteq Gateways
  BY DEF OthersKept, Pending
<1>3. Trimming \ {g} = Trimming' \ {g} /\ Trimming \subseteq Gateways /\ Trimming' \subseteq Gateways
  BY DEF OthersKept, Trimming
<1> QED
  BY <1>1, <1>2, <1>3, OneGateway

-----------------------------------------------------------------------------
(* The counter.                                                             *)

(* The steps of a call keep their gateway connected or not.                 *)
LEMMA CallStepsAlone ==
    ASSUME CountInv, NEW g \in Gateways, Begin(g) \/ CallStep(g)
    PROVE  degraded' = degraded /\ leaked' = leaked /\ faults' = faults /\ OthersKept(g)
<1>1. CASE Begin(g)
  BY <1>1 DEF Begin, CallAt, local, OthersKept, CountInv
<1>2. CASE Incr(g) \/ Lpush(g) \/ Ltrim(g) \/ Decr(g)
  BY <1>2 DEF Incr, Lpush, Ltrim, Decr, CallCommand, CallAt, local, bounds, OthersKept, CountInv
<1>3. CASE (\E b \in BOOLEAN : Outcome(g, b)) \/ GetRecord(g) \/ LrangeOutcome(g) \/ SetOutcome(g)
  BY <1>3 DEF Outcome, GetRecord, LrangeOutcome, SetOutcome, local, bounds, OthersKept, CountInv
<1> QED BY <1>1, <1>2, <1>3 DEF CallStep

(* INCR and DECR are the steps of a call that change the counter.           *)
LEMMA CountCall ==
    ASSUME CountInv, TotalsInv, NEW g \in Gateways, Begin(g) \/ CallStep(g)
    PROVE  CountInv'
<1>1. degraded' = degraded /\ leaked' = leaked /\ faults' = faults /\ OthersKept(g)
  BY CallStepsAlone
<1>2. /\ Cardinality(Counted)' = Cardinality(Counted)
            + (IF g \in Counted' THEN 1 ELSE 0) - (IF g \in Counted THEN 1 ELSE 0)
      /\ Cardinality(Counted) \in Nat /\ (g \in Counted => Cardinality(Counted) > 0)
  BY <1>1, StepCounts
<1>3. call[g] \in CallType /\ inFlight = leaked + Cardinality(Counted)
  BY DEF CountInv, InFlightExact, Counted
<1>4. ASSUME call' \in [Gateways -> CallType], inFlight' \in Nat, calls' \in Nat,
             inFlight' - inFlight = (IF g \in Counted' THEN 1 ELSE 0) - (IF g \in Counted THEN 1 ELSE 0)
      PROVE  CountInv'
  <2>1. inFlight' = leaked' + Cardinality(Counted)'
    BY <1>1, <1>2, <1>3, <1>4 DEF CountInv
  <2> QED BY <1>1, <1>4, <2>1 DEF CountInv, InFlightExact, Counted
<1>5. CASE Begin(g)
  <2>1. PICK to \in {"run", "INCR"} :
            /\ call' = [call EXCEPT ![g].at = to] /\ calls' = calls + 1 /\ inFlight' = inFlight
            /\ call[g].at = "idle" /\ (to = "run" => degraded[g])
    BY <1>5 DEF Begin, CallAt, redis
  <2>2. call' \in [Gateways -> CallType] /\ call'[g].at = to
    BY <2>1, <1>3 DEF CountInv, CallType, Phase, Command
  <2>3. g \notin Counted /\ g \notin Counted'
    BY <1>1, <2>1, <2>2 DEF Counted, Holding
  <2> QED BY <1>4, <2>1, <2>2, <2>3 DEF CountInv
<1>6. CASE Incr(g)
  <2>1. /\ call' = [call EXCEPT ![g].at = "run"] /\ inFlight' = inFlight + 1 /\ calls' = calls
        /\ call[g].at = "INCR" /\ ~degraded[g]
    BY <1>6 DEF Incr, CallCommand, CallAt, bounds
  <2>2. call' \in [Gateways -> CallType] /\ call'[g].at = "run"
    BY <2>1, <1>3 DEF CountInv, CallType, Phase
  <2>3. g \notin Counted /\ g \in Counted'
    BY <1>1, <2>1, <2>2 DEF Counted, Holding
  <2> QED BY <1>4, <2>1, <2>2, <2>3 DEF CountInv
<1>7. CASE Decr(g)
  <2>1. /\ call' = [call EXCEPT ![g].at = "idle"] /\ calls' = calls
        /\ inFlight' = IF inFlight = 0 THEN 0 ELSE inFlight - 1
        /\ call[g].at = "DECR" /\ ~degraded[g]
    BY <1>7 DEF Decr, CallCommand, CallAt, bounds
  <2>2. call' \in [Gateways -> CallType] /\ call'[g].at = "idle"
    BY <2>1, <1>3 DEF CountInv, CallType, Phase
  <2>3. g \in Counted /\ g \notin Counted'
    BY <1>1, <2>1, <2>2 DEF Counted, Holding
  <2>4. inFlight > 0
    BY <1>2, <1>3, <2>3 DEF CountInv
  <2> QED BY <1>4, <2>1, <2>2, <2>3, <2>4 DEF CountInv
<1>8. CASE Lpush(g) \/ Ltrim(g)
  <2>1. PICK to \in {"LTRIM", "LRANGE"} :
            /\ call' = [call EXCEPT ![g].at = to] /\ inFlight' = inFlight /\ calls' = calls
            /\ call[g].at \in {"LPUSH", "LTRIM"} /\ ~degraded[g]
    BY <1>8 DEF Lpush, Ltrim, CallCommand, CallAt, bounds
  <2>2. call' \in [Gateways -> CallType] /\ call'[g].at = to
    BY <2>1, <1>3 DEF CountInv, CallType, Phase, Command
  <2>3. g \in Counted /\ g \in Counted'
    BY <1>1, <2>1, <2>2 DEF Counted, Holding
  <2> QED BY <1>4, <2>1, <2>2, <2>3 DEF CountInv
<1>9. CASE \E b \in BOOLEAN : Outcome(g, b)
  <2>1. PICK b \in BOOLEAN :
            /\ call[g].at = "run" /\ inFlight' = inFlight /\ calls' = calls
            /\ call' = [call EXCEPT ![g] = [at |-> IF degraded[g] THEN "idle" ELSE "GET",
                                            ok |-> b, read |-> None]]
    BY <1>9 DEF Outcome, redis, bounds
  <2>2. call' \in [Gateways -> CallType] /\ call'[g].at = IF degraded[g] THEN "idle" ELSE "GET"
    BY <2>1, <1>3 DEF CountInv, CallType, Phase, Command
  <2>3. g \in Counted <=> g \in Counted'
    BY <1>1, <2>1, <2>2 DEF Counted, Holding
  <2> QED BY <1>4, <2>1, <2>2, <2>3 DEF CountInv
<1>10. CASE GetRecord(g)
  <2>1. /\ call[g].at = "GET" /\ ~degraded[g] /\ inFlight' = inFlight /\ calls' = calls
        /\ call' = [call EXCEPT ![g].read = record,
                                ![g].at = IF record = None THEN "DECR" ELSE "LPUSH"]
    BY <1>10 DEF GetRecord, redis, bounds
  <2>2. call' \in [Gateways -> CallType] /\ call'[g].at \in {"DECR", "LPUSH"}
    BY <2>1, <1>3 DEF CountInv, TotalsInv, CallType, Phase, Command
  <2>3. g \in Counted /\ g \in Counted'
    BY <1>1, <2>1, <2>2 DEF Counted, Holding
  <2> QED BY <1>4, <2>1, <2>2, <2>3 DEF CountInv
<1>11. CASE LrangeOutcome(g)
  <2>1. /\ call[g].at = "LRANGE" /\ ~degraded[g] /\ inFlight' = inFlight /\ calls' = calls
        /\ call' = [call EXCEPT ![g].at = "SET",
                       ![g].read = [healthy |-> deriveHealth(Reverse(Newest(window))),
                                    total |-> @.total + 1]]
    BY <1>11 DEF LrangeOutcome, redis, bounds
  <2>2. call[g].read.total \in Nat
    BY <2>1 DEF TotalsInv, Sound, Record
  <2>3. deriveHealth(Reverse(Newest(window))) \in BOOLEAN
    BY DEF deriveHealth
  <2>4. [healthy |-> deriveHealth(Reverse(Newest(window))), total |-> call[g].read.total + 1] \in Record
    BY <2>2, <2>3 DEF Record
  <2>5. call' \in [Gateways -> CallType] /\ call'[g].at = "SET"
    BY <2>1, <2>4, <1>3 DEF CountInv, CallType, Phase, Command
  <2>6. g \in Counted /\ g \in Counted'
    BY <1>1, <2>1, <2>5 DEF Counted, Holding
  <2> QED BY <1>4, <2>1, <2>5, <2>6 DEF CountInv
<1>12. CASE SetOutcome(g)
  <2>1. /\ call[g].at = "SET" /\ ~degraded[g] /\ inFlight' = inFlight /\ calls' = calls
        /\ call' = [call EXCEPT ![g] = [NoCall EXCEPT !.at = "DECR"]]
    BY <1>12 DEF SetOutcome, bounds
  <2>2. call' \in [Gateways -> CallType] /\ call'[g].at = "DECR"
    BY <2>1, <1>3 DEF CountInv, CallType, Phase, Command, NoCall
  <2>3. g \in Counted /\ g \in Counted'
    BY <1>1, <2>1, <2>2 DEF Counted, Holding
  <2> QED BY <1>4, <2>1, <2>2, <2>3 DEF CountInv
<1> QED BY <1>5, <1>6, <1>7, <1>8, <1>9, <1>10, <1>11, <1>12 DEF CallStep

(* Registrations and heartbeats do not touch the counter.                   *)
LEMMA PutStepsAlone ==
    ASSUME NEW g, PutStep(g)
    PROVE  UNCHANGED <<call, degraded, inFlight, leaked, calls, faults, window, past>>
  BY DEF PutStep, Register, Heartbeat, UpsertGet, UpsertLrange, UpsertSet, UpsertSadd, PutCommand,
         redis, local, bounds

(* A gateway that falls to its mirror or dies leaks the count of its call,  *)
(* if Redis had it.                                                         *)
LEMMA FaultEffect ==
    ASSUME CountInv, NEW g \in Gateways, Fail(g) \/ Crash(g)
    PROVE  /\ OthersKept(g) /\ UNCHANGED <<redis, calls, known>> /\ faults' = faults + 1
           /\ degraded' \in [Gateways -> BOOLEAN] /\ call' \in [Gateways -> CallType]
           /\ call'[g].at \in {"idle", "run"}
           /\ call'[g].at = "run" => call[g].at \in {"INCR", "run"}
           /\ g \notin Counted'
           /\ leaked' = leaked + (IF g \in Counted THEN 1 ELSE 0)
           /\ put' \in {put, NoPut}
<1>1. call[g] \in CallType /\ degraded[g] \in BOOLEAN
  BY DEF CountInv
<1>2. CASE Fail(g)
  <2>1. /\ ~degraded[g] /\ degraded' = [degraded EXCEPT ![g] = TRUE]
        /\ leaked' = leaked + (IF call[g].at \in Holding THEN 1 ELSE 0)
        /\ UNCHANGED <<redis, calls, known>> /\ faults' = faults + 1
        /\ put' \in {put, NoPut}
    BY <1>2 DEF Fail, Degrade
  <2> DEFINE to == CASE call[g].at = "INCR" -> "run"
                     [] call[g].at \in Command \ {"INCR"} -> "idle"
                     [] OTHER -> call[g].at
  <2>2. call' = [call EXCEPT ![g].at = to]
    BY <1>2 DEF Fail, Degrade
  <2>3. to \in {"idle", "run"} /\ (to = "run" => call[g].at \in {"INCR", "run"})
    BY <1>1 DEF CallType, Phase, Command
  <2> HIDE DEF to
  <2>4. call' \in [Gateways -> CallType] /\ call'[g].at = to
    BY <1>1, <2>2, <2>3 DEF CountInv, CallType, Phase
  <2>5. OthersKept(g) /\ degraded' \in [Gateways -> BOOLEAN] /\ degraded'[g]
    BY <2>1, <2>2 DEF CountInv, OthersKept
  <2> QED BY <2>1, <2>3, <2>4, <2>5 DEF Counted
<1>3. CASE Crash(g)
  <2>1. PICK d \in BOOLEAN :
        /\ degraded' = [degraded EXCEPT ![g] = d]
        /\ leaked' = leaked + (IF ~degraded[g] /\ call[g].at \in Holding THEN 1 ELSE 0)
        /\ UNCHANGED <<redis, calls, known>> /\ faults' = faults + 1
        /\ put' \in {put, NoPut} /\ call' = [call EXCEPT ![g] = NoCall]
    BY <1>3 DEF Crash
  <2>2. /\ call' \in [Gateways -> CallType] /\ call'[g].at = "idle" /\ OthersKept(g)
        /\ degraded' \in [Gateways -> BOOLEAN]
    BY <2>1 DEF CountInv, CallType, Phase, NoCall, OthersKept
  <2>3. g \notin Counted' /\ (g \in Counted <=> ~degraded[g] /\ call[g].at \in Holding)
    BY <2>2 DEF Counted, Holding
  <2> QED BY <2>1, <2>2, <2>3
<1> QED BY <1>2, <1>3

(* A fault leaves the counter off by what it cut off.                       *)
LEMMA CountFault ==
    ASSUME CountInv, NEW g \in Gateways, Fail(g) \/ Crash(g)
    PROVE  CountInv'
<1>1. /\ OthersKept(g) /\ UNCHANGED <<redis, calls, known>> /\ faults' = faults + 1
      /\ degraded' \in [Gateways -> BOOLEAN] /\ call' \in [Gateways -> CallType]
      /\ g \notin Counted'
      /\ leaked' = leaked + (IF g \in Counted THEN 1 ELSE 0)
  BY FaultEffect
<1>2. /\ Cardinality(Counted)' = Cardinality(Counted)
            + (IF g \in Counted' THEN 1 ELSE 0) - (IF g \in Counted THEN 1 ELSE 0)
      /\ Cardinality(Counted) \in Nat
  BY <1>1, StepCounts
<1>3. inFlight = leaked + Cardinality(Counted)
  BY DEF CountInv, InFlightExact, Counted
<1>4. inFlight' = leaked' + Cardinality(Counted)'
  BY <1>1, <1>2, <1>3 DEF CountInv, redis
<1> QED BY <1>1, <1>4 DEF CountInv, InFlightExact, Counted, redis

-----------------------------------------------------------------------------
(* The lifetime counters.                                                   *)

(* A call pushes the one outcome it has, once.                              *)
LEMMA TotalsCall ==
    ASSUME CountInv, TotalsInv, NEW g \in Gateways, Begin(g) \/ CallStep(g)
    PROVE  TotalsInv'
<1>1. OthersKept(g) /\ CountInv'
  BY CallStepsAlone, CountCall
<1>2. /\ Cardinality(Pending)' = Cardinality(Pending)
            + (IF g \in Pending' THEN 1 ELSE 0) - (IF g \in Pending THEN 1 ELSE 0)
      /\ Cardinality(Pending) \in Nat /\ Cardinality(Pending)' \in Nat
      /\ calls \in Nat /\ calls' \in Nat
  BY <1>1, StepCounts DEF CountInv
<1>3. call \in [Gateways -> CallType] /\ call[g] \in CallType
  BY DEF CountInv
(* A step keeps the totals sound if it writes nothing unsound and the calls *)
(* begun, less those still pending, do not become fewer.                    *)
<1>4. ASSUME Cardinality(Pending)' - calls' <= Cardinality(Pending) - calls,
             record' \in Record \cup {None}, put' = put,
             record' # None => record' \in Record /\ record'.total + Cardinality(Pending)' <= calls',
             call'[g].at \in {"LPUSH", "LTRIM", "LRANGE", "SET"}
                => call'[g].read \in Record /\ call'[g].read.total + Cardinality(Pending)' <= calls'
      PROVE  TotalsInv'
  <2>1. Cardinality(Pending)' <= calls'
    BY <1>2, <1>4 DEF TotalsInv
  <2>2. \A r \in Record : r.total + Cardinality(Pending) <= calls
                         => r.total + Cardinality(Pending)' <= calls'
    BY <1>2, <1>4 DEF Record
  <2>3. ASSUME NEW h \in Gateways, call'[h].at \in {"LPUSH", "LTRIM", "LRANGE", "SET"}
        PROVE  call'[h].read \in Record /\ call'[h].read.total + Cardinality(Pending)' <= calls'
    BY <2>2, <2>3, <1>1, <1>4 DEF OthersKept, TotalsInv, Sound
  <2>4. /\ put.at \in {"GET", "LRANGE", "SET"} =>
              put.incoming \in Record /\ put.incoming.total + Cardinality(Pending)' <= calls'
        /\ put.at = "LRANGE" /\ put.read # None =>
              put.read \in Record /\ put.read.total + Cardinality(Pending)' <= calls'
    BY <2>2 DEF TotalsInv, Sound
  <2>5. put' \in PutType
    BY <1>4 DEF TotalsInv
  <2> QED BY <1>4, <2>1, <2>3, <2>4, <2>5 DEF TotalsInv, Sound
<1>5. ASSUME record' = record, put' = put, calls' = calls,
             call' = [call EXCEPT ![g].at = call'[g].at],
             call[g].at # "idle",
             call'[g].at \in {"LTRIM", "LRANGE", "SET"} => call[g].at \in {"LPUSH", "LTRIM"},
             g \in Pending' => g \in Pending,
             call'[g].at # "LPUSH"
      PROVE  TotalsInv'
  <2>1. Cardinality(Pending)' <= Cardinality(Pending)
    BY <1>2, <1>5
  <2>2. call'[g].read = call[g].read
    BY <1>3, <1>5 DEF CallType
  <2>3. record # None => record \in Record /\ record.total + Cardinality(Pending)' <= calls
    BY <2>1, <1>2 DEF TotalsInv, Sound, Record
  <2>4. call[g].at \in {"LPUSH", "LTRIM"}
           => call[g].read \in Record /\ call[g].read.total + Cardinality(Pending)' <= calls
    BY <2>1, <1>2 DEF TotalsInv, Sound, Record
  <2> QED BY <1>2, <1>4, <1>5, <2>1, <2>2, <2>3, <2>4 DEF TotalsInv
<1>6. CASE Begin(g)
  <2>1. PICK to \in {"run", "INCR"} :
            /\ call' = [call EXCEPT ![g].at = to] /\ calls' = calls + 1
            /\ call[g].at = "idle" /\ record' = record /\ put' = put
    BY <1>6 DEF Begin, CallAt, redis
  <2>2. call'[g].at = to
    BY <2>1, <1>3
  <2>3. g \notin Pending /\ g \in Pending'
    BY <2>1, <2>2 DEF Pending
  <2>4. record # None => record \in Record /\ record.total + Cardinality(Pending)' <= calls'
    BY <2>1, <2>3, <1>2 DEF TotalsInv, Sound, Record
  <2> QED BY <1>2, <1>4, <2>1, <2>2, <2>3, <2>4 DEF TotalsInv
<1>7. CASE Incr(g) \/ Lpush(g) \/ Ltrim(g) \/ Decr(g)
  <2>1. PICK to \in {"run", "LTRIM", "LRANGE", "idle"} :
            /\ call' = [call EXCEPT ![g].at = to] /\ calls' = calls
            /\ record' = record /\ put' = put
            /\ call[g].at = CASE to = "run" -> "INCR" [] to = "LTRIM" -> "LPUSH"
                               [] to = "LRANGE" -> "LTRIM" [] to = "idle" -> "DECR"
    BY <1>7 DEF Incr, Lpush, Ltrim, Decr, CallCommand, CallAt, bounds
  <2>2. call'[g].at = to
    BY <2>1, <1>3
  <2>3. g \in Pending' => g \in Pending
    BY <2>1, <2>2 DEF Pending
  <2> QED BY <1>5, <2>1, <2>2, <2>3
<1>8. CASE \E b \in BOOLEAN : Outcome(g, b)
  <2>1. PICK b \in BOOLEAN :
            /\ call[g].at = "run" /\ calls' = calls /\ record' = record /\ put' = put
            /\ call' = [call EXCEPT ![g] = [at |-> IF degraded[g] THEN "idle" ELSE "GET",
                                            ok |-> b, read |-> None]]
    BY <1>8 DEF Outcome, redis, bounds
  <2>2. call'[g].at \in {"idle", "GET"}
    BY <2>1, <1>3
  <2>3. g \in Pending
    BY <2>1 DEF Pending
  <2>4. Cardinality(Pending)' <= Cardinality(Pending)
    BY <1>2, <2>3
  <2>5. record # None => record \in Record /\ record.total + Cardinality(Pending)' <= calls
    BY <2>4, <1>2 DEF TotalsInv, Sound, Record
  <2> QED BY <1>2, <1>4, <2>1, <2>2, <2>4, <2>5 DEF TotalsInv
<1>9. CASE GetRecord(g)
  <2>1. /\ call[g].at = "GET" /\ calls' = calls /\ record' = record /\ put' = put
        /\ call' = [call EXCEPT ![g].read = record,
                                ![g].at = IF record = None THEN "DECR" ELSE "LPUSH"]
    BY <1>9 DEF GetRecord, redis, bounds
  <2>2. /\ call'[g].at = (IF record = None THEN "DECR" ELSE "LPUSH")
        /\ call'[g].read = record
    BY <2>1, <1>3 DEF CallType
  <2>3. g \in Pending
    BY <2>1 DEF Pending
  <2>4. Cardinality(Pending)' <= Cardinality(Pending)
    BY <1>2, <2>3
  <2>5. record # None => record \in Record /\ record.total + Cardinality(Pending)' <= calls
    BY <2>4, <1>2 DEF TotalsInv, Sound, Record
  <2>6. call'[g].at \in {"LPUSH", "LTRIM", "LRANGE", "SET"}
          => call'[g].read \in Record /\ call'[g].read.total + Cardinality(Pending)' <= calls'
    BY <2>1, <2>2, <2>5
  <2>7. Cardinality(Pending)' - calls' <= Cardinality(Pending) - calls
    BY <1>2, <2>1, <2>4
  <2>8. record' \in Record \cup {None}
    BY <2>1 DEF TotalsInv
  <2> QED BY <1>4, <2>1, <2>5, <2>6, <2>7, <2>8
<1>10. CASE LrangeOutcome(g)
  <2> DEFINE h == deriveHealth(Reverse(Newest(window)))
             r == [healthy |-> h, total |-> call[g].read.total + 1]
  <2>1. /\ call[g].at = "LRANGE" /\ calls' = calls /\ record' = record /\ put' = put
        /\ call' = [call EXCEPT ![g].at = "SET", ![g].read = r]
    BY <1>10 DEF LrangeOutcome, redis, bounds
  <2>2. call[g].read \in Record /\ call[g].read.total + Cardinality(Pending) <= calls
    BY <2>1 DEF TotalsInv, Sound
  <2>3. h \in BOOLEAN
    BY DEF deriveHealth
  <2> HIDE DEF h
  <2>4. r \in Record /\ r.total = call[g].read.total + 1 /\ call[g].read.total \in Nat
    BY <2>2, <2>3 DEF Record
  <2> HIDE DEF r
  <2>5. call'[g].at = "SET" /\ call'[g].read = r
    BY <2>1, <1>3 DEF CallType
  <2>6. g \in Pending /\ g \notin Pending'
    BY <2>1, <2>5 DEF Pending
  <2>7. r.total + Cardinality(Pending)' <= calls
    BY <2>2, <2>4, <2>6, <1>2
  <2>8. record # None => record \in Record /\ record.total + Cardinality(Pending)' <= calls
    BY <2>6, <1>2 DEF TotalsInv, Sound, Record
  <2>9. Cardinality(Pending)' - calls' <= Cardinality(Pending) - calls
    BY <1>2, <2>1, <2>6
  <2>10. record' \in Record \cup {None}
    BY <2>1 DEF TotalsInv
  <2> QED BY <1>4, <2>1, <2>4, <2>5, <2>7, <2>8, <2>9, <2>10
<1>11. CASE SetOutcome(g)
  <2>1. /\ call[g].at = "SET" /\ calls' = calls /\ record' = call[g].read /\ put' = put
        /\ call' = [call EXCEPT ![g] = [NoCall EXCEPT !.at = "DECR"]]
    BY <1>11 DEF SetOutcome, bounds
  <2>2. call'[g].at = "DECR"
    BY <2>1, <1>3 DEF NoCall
  <2>3. g \notin Pending /\ g \notin Pending'
    BY <2>1, <2>2 DEF Pending
  <2>4. call[g].read \in Record /\ call[g].read.total + Cardinality(Pending) <= calls
    BY <2>1 DEF TotalsInv, Sound
  <2> QED BY <1>2, <1>4, <2>1, <2>2, <2>3, <2>4
<1> QED BY <1>6, <1>7, <1>8, <1>9, <1>10, <1>11 DEF CallStep

(* mergeRecord yields a record with one of the counters it is given.        *)
LEMMA MergeTotals ==
    ASSUME NEW existing, NEW incoming \in Record, NEW outcomes, NEW n \in Nat,
           existing # None => existing \in Record /\ existing.total <= n,
           incoming.total <= n
    PROVE  /\ mergeRecord(existing, incoming, outcomes) \in Record
           /\ mergeRecord(existing, incoming, outcomes).total <= n
<1>1. mergeHealth(incoming.healthy, outcomes) \in BOOLEAN
  BY DEF mergeHealth, Record
<1> DEFINE h == mergeHealth(incoming.healthy, outcomes)
<1> HIDE DEF h
<1>2. CASE existing = None
  BY <1>2 DEF mergeRecord
<1>3. CASE existing # None
  <2>1. mergeRecord(existing, incoming, outcomes)
           = [healthy |-> h, total |-> IF incoming.total < existing.total
                                       THEN existing.total ELSE incoming.total]
    BY <1>3 DEF mergeRecord, h
  <2> QED BY <1>1, <1>3, <2>1 DEF Record, h
<1> QED BY <1>2, <1>3

(* A registration or a heartbeat pushes no outcome.                         *)
LEMMA TotalsPut ==
    ASSUME CountInv, TotalsInv, NEW g \in Gateways, PutStep(g)
    PROVE  TotalsInv'
<1>1. UNCHANGED <<call, calls, Pending>>
  BY PutStepsAlone DEF Pending
<1>2. Cardinality(Pending) \in Nat /\ calls \in Nat /\ Cardinality(Pending) <= calls
  BY RedisNodesAssumption, FS_Subset, FS_CardinalityType DEF CountInv, TotalsInv, Pending
<1>3. ASSUME record' \in Record \cup {None}, put' \in PutType,
             (record # None => Sound(record))',
             (put.at \in {"GET", "LRANGE", "SET"} => Sound(put.incoming))',
             (put.at = "LRANGE" /\ put.read # None => Sound(put.read))'
      PROVE  TotalsInv'
  BY <1>1, <1>3 DEF TotalsInv, Sound
(* What is about to be registered counts what the record counts, or nothing.*)
<1>4. ASSUME NEW incoming \in Record, record' = record,
             incoming.total = 0 \/ (record # None /\ incoming.total = record.total),
             put' \in {NoPut, [at |-> "GET", by |-> g, incoming |-> incoming, read |-> None]}
      PROVE  TotalsInv'
  <2>1. incoming.total + Cardinality(Pending) <= calls
    BY <1>2, <1>4 DEF TotalsInv, Sound, Record
  <2>2. put' \in PutType
    BY <1>4 DEF PutType, NoPut, Writing
  <2> QED BY <1>1, <1>3, <1>4, <2>1, <2>2 DEF TotalsInv, Sound, NoPut
<1>5. CASE Register(g)
  <2> DEFINE existing == readRecord(g)
             incoming == [healthy |-> TRUE, total |-> IF existing = None THEN 0 ELSE existing.total]
  <2>1. /\ record' = record
        /\ put' = IF degraded[g] THEN NoPut
                  ELSE [at |-> "GET", by |-> g, incoming |-> incoming, read |-> None]
    BY <1>5 DEF Register, Upsert, redis
  <2>2. CASE degraded[g]
    <3>1. [healthy |-> TRUE, total |-> 0] \in Record
      BY DEF Record
    <3> QED BY <1>4, <2>1, <2>2, <3>1
  <2>3. CASE ~degraded[g]
    <3>1. existing = record
      BY <2>3 DEF readRecord
    <3>2. incoming \in Record /\ (incoming.total = 0 \/ (record # None /\ incoming.total = record.total))
      BY <3>1 DEF TotalsInv, Record
    <3> QED BY <1>4, <2>1, <2>3, <3>2
  <2> QED BY <2>2, <2>3
<1>6. CASE Heartbeat(g)
  <2> DEFINE existing == readRecord(g)
             incoming == [existing EXCEPT !.healthy = TRUE]
  <2>1. /\ record' = record
        /\ IF existing = None THEN put' = put
           ELSE put' = IF degraded[g] THEN NoPut
                       ELSE [at |-> "GET", by |-> g, incoming |-> incoming, read |-> None]
    BY <1>6 DEF Heartbeat, Upsert, redis
  <2>2. CASE existing = None
    BY <1>1, <2>1, <2>2 DEF TotalsInv, Sound
  <2>3. CASE existing # None /\ degraded[g]
    <3>1. [healthy |-> TRUE, total |-> 0] \in Record
      BY DEF Record
    <3> QED BY <1>4, <2>1, <2>3, <3>1
  <2>4. CASE existing # None /\ ~degraded[g]
    <3>1. existing = record
      BY <2>4 DEF readRecord
    <3>2. incoming \in Record /\ incoming.total = record.total
      BY <2>4, <3>1 DEF TotalsInv, Record
    <3> QED BY <1>4, <2>1, <2>4, <3>1, <3>2
  <2> QED BY <2>2, <2>3, <2>4
<1>7. CASE UpsertGet(g)
  <2>1. /\ put.at = "GET" /\ record' = record
        /\ put' = [put EXCEPT !.at = "LRANGE", !.read = record]
    BY <1>7 DEF UpsertGet, PutCommand, redis, readRecord
  <2>2. put' \in PutType /\ put'.at = "LRANGE" /\ put'.incoming = put.incoming /\ put'.read = record
    BY <2>1 DEF TotalsInv, PutType, Writing
  <2> QED BY <1>1, <1>3, <2>1, <2>2 DEF TotalsInv, Sound
<1>8. CASE UpsertLrange(g)
  <2> DEFINE r == mergeRecord(put.read, put.incoming, Reverse(Newest(window)))
  <2>1. /\ put.at = "LRANGE" /\ record' = record
        /\ put' = [put EXCEPT !.at = "SET", !.incoming = r]
    BY <1>8 DEF UpsertLrange, PutCommand, redis
  <2>2. put.incoming \in Record /\ put.incoming.total <= calls - Cardinality(Pending)
    BY <2>1, <1>2 DEF TotalsInv, Sound, Record
  <2>3. put.read # None => put.read \in Record /\ put.read.total <= calls - Cardinality(Pending)
    BY <2>1, <1>2 DEF TotalsInv, Sound, Record
  <2>4. calls - Cardinality(Pending) \in Nat
    BY <1>2
  <2>5. r \in Record /\ r.total <= calls - Cardinality(Pending)
    BY <2>2, <2>3, <2>4, MergeTotals
  <2> HIDE DEF r
  <2>6. r.total + Cardinality(Pending) <= calls
    BY <2>5, <1>2 DEF Record
  <2>7. put' \in PutType /\ put'.at = "SET" /\ put'.incoming = r
    BY <2>1, <2>5 DEF TotalsInv, PutType, Writing
  <2> QED BY <1>1, <1>3, <2>1, <2>5, <2>6, <2>7 DEF TotalsInv, Sound
<1>9. CASE UpsertSet(g)
  <2>1. put.at = "SET" /\ record' = put.incoming /\ put' = [put EXCEPT !.at = "SADD"]
    BY <1>9 DEF UpsertSet, PutCommand
  <2>2. put' \in PutType /\ put'.at = "SADD"
    BY <2>1 DEF TotalsInv, PutType, Writing
  <2> QED BY <1>1, <1>3, <2>1, <2>2 DEF TotalsInv, Sound
<1>10. CASE UpsertSadd(g)
  <2>1. record' = record /\ put' = NoPut /\ put' \in PutType
    BY <1>10 DEF UpsertSadd, PutCommand, PutType, NoPut, Writing
  <2> QED BY <1>1, <1>3, <2>1 DEF TotalsInv, Sound, NoPut
<1> QED BY <1>5, <1>6, <1>7, <1>8, <1>9, <1>10 DEF PutStep

(* A fault neither adds an outcome nor takes one back.                      *)
LEMMA TotalsFault ==
    ASSUME CountInv, TotalsInv, NEW g \in Gateways, Fail(g) \/ Crash(g)
    PROVE  TotalsInv'
<1>1. /\ OthersKept(g) /\ UNCHANGED <<redis, calls, known>>
      /\ call'[g].at \in {"idle", "run"} /\ (call'[g].at = "run" => call[g].at \in {"INCR", "run"})
      /\ put' \in {put, NoPut}
  BY FaultEffect
<1>2. /\ Cardinality(Pending)' = Cardinality(Pending)
            + (IF g \in Pending' THEN 1 ELSE 0) - (IF g \in Pending THEN 1 ELSE 0)
      /\ Cardinality(Pending) \in Nat /\ Cardinality(Pending)' \in Nat /\ calls \in Nat
  BY <1>1, StepCounts DEF CountInv
<1>3. g \in Pending' => g \in Pending
  BY <1>1 DEF Pending
<1>4. Cardinality(Pending)' <= Cardinality(Pending)
  BY <1>2, <1>3
<1>5. \A r \in Record : r.total + Cardinality(Pending) <= calls
                       => r.total + Cardinality(Pending)' <= calls'
  BY <1>1, <1>2, <1>4 DEF Record
<1>6. ASSUME NEW h \in Gateways, call'[h].at \in {"LPUSH", "LTRIM", "LRANGE", "SET"}
      PROVE  call'[h].read \in Record /\ call'[h].read.total + Cardinality(Pending)' <= calls'
  BY <1>1, <1>5, <1>6 DEF OthersKept, TotalsInv, Sound
<1>7. record' = record /\ (record # None
         => record \in Record /\ record.total + Cardinality(Pending)' <= calls')
  BY <1>1, <1>5 DEF TotalsInv, Sound, redis
<1>8. put' = put \/ put' = NoPut
  BY <1>1
<1>9. put' \in PutType
  BY <1>8 DEF TotalsInv, PutType, NoPut
<1>10. /\ put'.at \in {"GET", "LRANGE", "SET"} =>
             put'.incoming \in Record /\ put'.incoming.total + Cardinality(Pending)' <= calls'
       /\ put'.at = "LRANGE" /\ put'.read # None =>
             put'.read \in Record /\ put'.read.total + Cardinality(Pending)' <= calls'
  BY <1>5, <1>8 DEF TotalsInv, Sound, NoPut
<1>11. Cardinality(Pending)' <= calls'
  BY <1>1, <1>2, <1>4 DEF TotalsInv
<1> QED BY <1>6, <1>7, <1>9, <1>10, <1>11 DEF TotalsInv, Sound

-----------------------------------------------------------------------------
(* The windows.                                                             *)

(* LTRIM leaves the newest outcomes, at most as many as the window holds.   *)
LEMMA NewestType ==
    ASSUME NEW w \in Seq(BOOLEAN)
    PROVE  Newest(w) \in Seq(BOOLEAN) /\ Len(Newest(w)) <= HealthWindow
<1> DEFINE n == IF Len(w) < HealthWindow THEN Len(w) ELSE HealthWindow
<1>1. n \in 0 .. Len(w) /\ n <= HealthWindow
  BY RedisNodesAssumption
<1> HIDE DEF n
<1>2. SubSeq(w, 1, n) \in Seq(BOOLEAN) /\ Len(SubSeq(w, 1, n)) = n
  BY <1>1
<1>3. Newest(w) = SubSeq(w, 1, n)
  BY DEF Newest, n
<1> QED BY <1>1, <1>2, <1>3

(* The mirror's own window is cut whenever it is longer.                    *)
LEMMA KeptType ==
    ASSUME NEW w \in Seq(BOOLEAN), Len(w) <= HealthWindow, NEW x \in BOOLEAN,
           NEW kept,
           kept = IF Len(Append(w, x)) > HealthWindow THEN Tail(Append(w, x)) ELSE Append(w, x)
    PROVE  kept \in Seq(BOOLEAN) /\ Len(kept) <= HealthWindow
<1> DEFINE all == Append(w, x)
<1>1. all \in Seq(BOOLEAN) /\ Len(all) = Len(w) + 1 /\ Len(w) \in Nat /\ all # <<>>
  OBVIOUS
<1>2. Tail(all) \in Seq(BOOLEAN) /\ Len(Tail(all)) = Len(all) - 1
  BY <1>1
<1> HIDE DEF all
<1>3. kept = IF Len(all) > HealthWindow THEN Tail(all) ELSE all
  BY DEF all
<1>4. CASE Len(all) > HealthWindow
  BY <1>1, <1>2, <1>3, <1>4, RedisNodesAssumption
<1>5. CASE ~(Len(all) > HealthWindow)
  BY <1>1, <1>3, <1>5, RedisNodesAssumption
<1> QED BY <1>4, <1>5

(* What is read and written of the window is within its bound.              *)
LEMMA WindowCall ==
    ASSUME CountInv, WindowInv, NEW g \in Gateways, Begin(g) \/ CallStep(g)
    PROVE  WindowInv'
<1>1. faults' = faults /\ OthersKept(g)
  BY CallStepsAlone
<1>2. /\ Cardinality(Trimming)' = Cardinality(Trimming)
            + (IF g \in Trimming' THEN 1 ELSE 0) - (IF g \in Trimming THEN 1 ELSE 0)
      /\ Cardinality(Trimming) \in Nat /\ Cardinality(Trimming)' \in Nat /\ faults \in Nat
  BY <1>1, StepCounts DEF CountInv
<1>3. call[g] \in CallType /\ call \in [Gateways -> CallType]
  BY DEF CountInv
<1>4. UNCHANGED <<index, known>>
  BY DEF Begin, CallStep, CallAt, CallCommand, Incr, Outcome, GetRecord, Lpush, Ltrim,
         LrangeOutcome, SetOutcome, Decr, redis
<1>5. CASE Lpush(g)
  <2>1. /\ call[g].at = "LPUSH" /\ call' = [call EXCEPT ![g].at = "LTRIM"]
        /\ window' = <<call[g].ok>> \o window /\ UNCHANGED <<mirror, past>>
    BY <1>5 DEF Lpush, CallCommand, CallAt, local
  <2>2. call'[g].at = "LTRIM" /\ call[g].ok \in BOOLEAN
    BY <2>1, <1>3 DEF CallType
  <2>3. g \in Trimming' /\ g \notin Trimming
    BY <2>1, <2>2 DEF Trimming
  <2>4. window \in Seq(BOOLEAN) /\ <<call[g].ok>> \in Seq(BOOLEAN) /\ Len(<<call[g].ok>>) = 1
    BY <2>2 DEF WindowInv
  <2>5. window' \in Seq(BOOLEAN) /\ Len(window') = 1 + Len(window) /\ Len(window) \in Nat
    BY <2>1, <2>4
  <2>6. Len(window') <= HealthWindow + faults' + Cardinality(Trimming)'
    BY <1>1, <1>2, <2>3, <2>5, RedisNodesAssumption DEF WindowInv
  <2> QED BY <1>4, <2>1, <2>5, <2>6 DEF WindowInv
<1>6. CASE Ltrim(g)
  <2>1. window' = Newest(window) /\ UNCHANGED <<mirror, past>>
    BY <1>6 DEF Ltrim, CallCommand, local
  <2>2. window' \in Seq(BOOLEAN) /\ Len(window') <= HealthWindow /\ Len(window') \in Nat
    BY <2>1, NewestType DEF WindowInv
  <2>3. Len(window') <= HealthWindow + faults' + Cardinality(Trimming)'
    BY <1>1, <1>2, <2>2, RedisNodesAssumption
  <2> QED BY <1>4, <2>1, <2>2, <2>3 DEF WindowInv
<1>7. ASSUME window' = window, call[g].at # "LTRIM" PROVE
             window' \in Seq(BOOLEAN) /\ Len(window') <= HealthWindow + faults' + Cardinality(Trimming)'
  <2>1. g \notin Trimming
    BY <1>7 DEF Trimming
  <2>2. Cardinality(Trimming)' >= Cardinality(Trimming)
    BY <1>2, <2>1
  <2>3. window \in Seq(BOOLEAN) /\ Len(window) \in Nat
        /\ Len(window) <= HealthWindow + faults + Cardinality(Trimming)
    BY DEF WindowInv
  <2> QED BY <1>1, <1>2, <1>7, <2>2, <2>3, RedisNodesAssumption
<1>8. CASE \E b \in BOOLEAN : Outcome(g, b)
  <2>1. PICK b \in BOOLEAN : call[g].at = "run" /\ MirrorOutcome(g, b) /\ window' = window
    BY <1>8 DEF Outcome, redis
  <2> DEFINE all == Append(past[g], b)
             kept == IF Len(all) > HealthWindow THEN Tail(all) ELSE all
  <2>2. kept \in Seq(BOOLEAN) /\ Len(kept) <= HealthWindow
    BY KeptType DEF WindowInv
  <2>3. deriveHealth(kept) \in BOOLEAN
    BY DEF deriveHealth
  <2>4. \/ UNCHANGED <<mirror, past>>
        \/ past' = [past EXCEPT ![g] = kept] /\ mirror' = [mirror EXCEPT ![g] = deriveHealth(kept)]
    BY <2>1 DEF MirrorOutcome
  <2> HIDE DEF kept
  <2>5. /\ past' \in [Gateways -> Seq(BOOLEAN)] /\ mirror' \in [Gateways -> BOOLEAN \cup {None}]
        /\ \A h \in Gateways : Len(past'[h]) <= HealthWindow
    BY <2>2, <2>3, <2>4 DEF WindowInv
  <2>6. call[g].at # "LTRIM"
    BY <2>1
  <2> QED BY <1>4, <1>7, <2>1, <2>5, <2>6 DEF WindowInv
<1>9. CASE Begin(g) \/ Incr(g) \/ GetRecord(g) \/ LrangeOutcome(g) \/ SetOutcome(g) \/ Decr(g)
  <2>1. call[g].at # "LTRIM" /\ window' = window /\ UNCHANGED <<mirror, past>>
    BY <1>9 DEF Begin, CallAt, CallCommand, Incr, GetRecord, LrangeOutcome, SetOutcome, Decr,
                redis, local
  <2> QED BY <1>4, <1>7, <2>1 DEF WindowInv
<1> QED BY <1>5, <1>6, <1>8, <1>9 DEF CallStep

(* A registration or a heartbeat only reads the window.                     *)
LEMMA WindowPut ==
    ASSUME CountInv, TotalsInv, WindowInv, NEW g \in Gateways, PutStep(g)
    PROVE  WindowInv'
<1>1. UNCHANGED <<window, past, faults, Trimming>>
  BY PutStepsAlone DEF Trimming
<1>2. index' \in BOOLEAN /\ known' \in BOOLEAN
  BY DEF PutStep, Register, Heartbeat, UpsertGet, UpsertLrange, UpsertSet, UpsertSadd, PutCommand,
         redis, WindowInv
<1>3. ASSUME NEW healthy \in BOOLEAN, MirrorUpsert(g, healthy)
      PROVE  mirror' \in [Gateways -> BOOLEAN \cup {None}]
  <2>1. mergeHealth(healthy, past[g]) \in BOOLEAN
    BY DEF mergeHealth
  <2> QED BY <1>3, <2>1 DEF MirrorUpsert, WindowInv
<1>4. ASSUME Register(g) PROVE mirror' \in [Gateways -> BOOLEAN \cup {None}]
  <2>1. PICK r : r.healthy = TRUE /\ Upsert(g, r)
    BY <1>4 DEF Register
  <2>2. MirrorUpsert(g, TRUE)
    BY <2>1 DEF Upsert
  <2> QED BY <1>3, <2>2
<1>5. ASSUME Heartbeat(g) PROVE mirror' \in [Gateways -> BOOLEAN \cup {None}]
  <2> DEFINE existing == readRecord(g)
  <2>1. CASE existing = None
    BY <1>5, <2>1 DEF Heartbeat, WindowInv
  <2>2. CASE existing # None
    <3>1. [existing EXCEPT !.healthy = TRUE].healthy = TRUE
      BY <2>2 DEF readRecord, TotalsInv, Record
    <3>2. Upsert(g, [existing EXCEPT !.healthy = TRUE])
      BY <1>5, <2>2 DEF Heartbeat
    <3>3. MirrorUpsert(g, TRUE)
      BY <3>1, <3>2 DEF Upsert
    <3> QED BY <1>3, <3>3
  <2> QED BY <2>1, <2>2
<1>6. ASSUME UpsertGet(g) \/ UpsertLrange(g) \/ UpsertSet(g) \/ UpsertSadd(g)
      PROVE  mirror' \in [Gateways -> BOOLEAN \cup {None}]
  BY <1>6 DEF UpsertGet, UpsertLrange, UpsertSet, UpsertSadd, PutCommand, local, WindowInv
<1>7. mirror' \in [Gateways -> BOOLEAN \cup {None}]
  BY <1>4, <1>5, <1>6 DEF PutStep
<1> QED BY <1>1, <1>2, <1>7 DEF WindowInv

(* A fault leaves the window in Redis alone.                                *)
LEMMA WindowFault ==
    ASSUME CountInv, WindowInv, NEW g \in Gateways, Fail(g) \/ Crash(g)
    PROVE  WindowInv'
<1>1. /\ OthersKept(g) /\ UNCHANGED <<redis, calls, known>> /\ faults' = faults + 1
  BY FaultEffect
<1>2. /\ Cardinality(Trimming)' = Cardinality(Trimming)
            + (IF g \in Trimming' THEN 1 ELSE 0) - (IF g \in Trimming THEN 1 ELSE 0)
      /\ Cardinality(Trimming) \in Nat /\ Cardinality(Trimming)' \in Nat /\ faults \in Nat
  BY <1>1, StepCounts DEF CountInv
<1>3. Len(window) <= HealthWindow + faults + Cardinality(Trimming) /\ Len(window) \in Nat
  BY DEF WindowInv
<1>4. Len(window') <= HealthWindow + faults' + Cardinality(Trimming)'
  BY <1>1, <1>2, <1>3, RedisNodesAssumption DEF redis
<1>5. <<>> \in Seq(BOOLEAN) /\ Len(<<>>) = 0 /\ HealthWindow >= 0
  BY RedisNodesAssumption
<1>6. /\ mirror' \in [Gateways -> BOOLEAN \cup {None}] /\ past' \in [Gateways -> Seq(BOOLEAN)]
      /\ \A h \in Gateways : Len(past'[h]) <= HealthWindow
  BY <1>5 DEF Fail, Degrade, Crash, WindowInv
<1> QED BY <1>1, <1>4, <1>6 DEF WindowInv, redis

-----------------------------------------------------------------------------
(* A fresh store satisfies the invariant.                                   *)
LEMMA InitInv == Init => IInv
<1> SUFFICES ASSUME Init PROVE IInv
  OBVIOUS
<1>1. Counted = {} /\ Pending = {} /\ Trimming = {}
  BY DEF Init, Counted, Pending, Trimming, Holding, NoCall
<1>2. CountInv
  <2>1. NoCall \in CallType
    BY DEF NoCall, CallType, Phase
  <2>2. inFlight = leaked + Cardinality(Counted)
    BY <1>1, FS_EmptySet DEF Init
  <2> QED BY <2>1, <2>2 DEF Init, CountInv, InFlightExact, Counted
<1>3. TotalsInv
  BY <1>1, FS_EmptySet DEF Init, TotalsInv, PutType, NoPut, NoCall
<1>4. WindowInv
  <2>1. <<>> \in Seq(BOOLEAN) /\ Len(<<>>) = 0 /\ HealthWindow >= 0 /\ HealthWindow \in Nat
    BY RedisNodesAssumption
  <2>2. faults = 0 /\ Cardinality(Trimming) = 0
    BY <1>1, FS_EmptySet DEF Init
  <2>3. window \in Seq(BOOLEAN) /\ Len(window) <= HealthWindow + faults + Cardinality(Trimming)
    BY <2>1, <2>2 DEF Init
  <2>4. /\ past \in [Gateways -> Seq(BOOLEAN)] /\ \A g \in Gateways : Len(past[g]) <= HealthWindow
        /\ mirror \in [Gateways -> BOOLEAN \cup {None}]
    BY <2>1 DEF Init
  <2> QED BY <2>3, <2>4 DEF Init, WindowInv
<1> QED BY <1>2, <1>3, <1>4 DEF IInv

(* Every step preserves the invariant.                                      *)
LEMMA NextInv == IInv /\ [Next]_vars => IInv'
<1> SUFFICES ASSUME IInv, [Next]_vars PROVE IInv'
  OBVIOUS
<1> USE DEF IInv
<1>1. ASSUME NEW g \in Gateways, Begin(g) \/ CallStep(g) PROVE IInv'
  BY <1>1, CountCall, TotalsCall, WindowCall
<1>2. ASSUME NEW g \in Gateways, PutStep(g) PROVE IInv'
  <2>1. CountInv'
    BY <1>2, PutStepsAlone DEF CountInv, InFlightExact
  <2> QED BY <1>2, <2>1, TotalsPut, WindowPut
<1>3. ASSUME NEW g \in Gateways, Fail(g) \/ Crash(g) PROVE IInv'
  BY <1>3, CountFault, TotalsFault, WindowFault
<1>4. CASE UNCHANGED vars
  BY <1>4 DEF vars, redis, local, bounds, CountInv, InFlightExact, TotalsInv, Sound, Pending,
              WindowInv, Trimming
<1> QED BY <1>1, <1>2, <1>3, <1>4 DEF Next

(* The invariant holds in every state of every behaviour.                   *)
THEOREM Inductive == Spec => []IInv
<1>1. Init => IInv
  BY InitInv
<1>2. IInv /\ [Next]_vars => IInv'
  BY NextInv
<1> QED BY <1>1, <1>2, PTL DEF Spec

(* Every variable keeps its type; the list in Redis is never longer than    *)
(* the window, the pushes on their way to LTRIM and the trims that failed.  *)
THEOREM TypeCorrect == Spec => []TypeOK
<1>1. IInv => TypeOK
  BY DEF IInv, CountInv, TotalsInv, WindowInv, TypeOK, CallType, PutType, Phase, Trimming
<1> QED BY <1>1, Inductive, PTL

(* beginRequest, endRequest and #degrade: the counter in Redis is the calls *)
(* in progress and those that were cut off, whatever fails and whenever.    *)
THEOREM CounterIsExact == Spec => []InFlightExact
<1>1. IInv => InFlightExact
  BY DEF IInv, CountInv
<1> QED BY <1>1, Inductive, PTL

(* recordOutcome and upsert: no interleaving of their reads and writes      *)
(* counts an outcome twice.                                                 *)
THEOREM OutcomesAreReal == Spec => []NoInventedOutcomes
<1>1. IInv => NoInventedOutcomes
  <2> SUFFICES ASSUME IInv, record # None PROVE record.total <= calls
    BY DEF NoInventedOutcomes
  <2>1. Sound(record)
    BY DEF IInv, TotalsInv
  <2>2. Cardinality(Pending) \in Nat
    BY RedisNodesAssumption, FS_Subset, FS_CardinalityType DEF Pending
  <2> QED BY <2>1, <2>2 DEF IInv, CountInv, Sound, Record
<1> QED BY <1>1, Inductive, PTL
=============================================================================
