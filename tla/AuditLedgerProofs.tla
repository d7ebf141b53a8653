------------------------- MODULE AuditLedgerProofs --------------------------
(***************************************************************************)
(* Invariance proofs for the audit ledger, for every finite set of         *)
(* requests, every cap and any number of failing commands and restarts.    *)
(***************************************************************************)
EXTENDS AuditLedger, FiniteSetTheorems, TLAPS

(* The ledger has the status of each of its entries.                        *)
Known == \A r \in Requests : InLedger(r) => status[r] \in Status

(* A write that has set its row finds there what it wrote, or nothing when  *)
(* another write has evicted the request: nobody else sets it, since the    *)
(* writes of one request are chained.                                       *)
Written(r) ==
    chain[r] # <<>> /\ at[r] \in {"LPUSH", "LRANGE", "LTRIM", "DEL"} =>
        row[r] \in {Head(chain[r]), None}

(* The last write under way for an entry of the ledger stores the status    *)
(* the ledger has.                                                          *)
Following(r) ==
    /\ chain[r] = <<>> => at[r] = "GET"
    /\ Written(r)
    /\ InLedger(r) /\ chain[r] # <<>> => chain[r][Len(chain[r])] = status[r]
    /\ InLedger(r) /\ chain[r] = <<>> /\ row[r] # None => row[r] = status[r]

IInv ==
    /\ TypeOK /\ Known
    /\ OrderCapped
    /\ failures = 0 => \A r \in Requests : Following(r)

-----------------------------------------------------------------------------
(* The order.                                                               *)

(* There are finitely many writes between their push and their trim.        *)
LEMMA PushedFinite == IsFiniteSet(Pushed) /\ Cardinality(Pushed) \in Nat
BY AuditLedgerAssumption, FS_Subset, FS_CardinalityType DEF Pushed

(* Steps that leave the order alone, and every pushed write as it is.       *)
LEMMA CapKept ==
  ASSUME OrderCapped, TypeOK, UNCHANGED <<order, untrimmed>>,
         Pushed \subseteq Pushed', Pushed' \subseteq Requests
  PROVE  OrderCapped'
<1>1. Cardinality(Pushed) <= Cardinality(Pushed')
  BY AuditLedgerAssumption, FS_Subset
<1>2. Cardinality(Pushed') \in Nat
  BY AuditLedgerAssumption, FS_Subset, FS_CardinalityType
<1> QED
  BY <1>1, <1>2, PushedFinite, AuditLedgerAssumption DEF OrderCapped, TypeOK

(* A trim, and the end of a write that has nothing to trim.                 *)
LEMMA CapMet ==
  ASSUME TypeOK', Len(order') <= MaxEntries, Pushed' \subseteq Requests
  PROVE  OrderCapped'
<1>1. Cardinality(Pushed') \in Nat
  BY AuditLedgerAssumption, FS_Subset, FS_CardinalityType
<1>2. Len(order') \in Nat /\ untrimmed' \in Nat
  BY DEF TypeOK
<1> QED
  BY <1>1, <1>2, AuditLedgerAssumption DEF OrderCapped

-----------------------------------------------------------------------------
(* The rows.                                                                *)

(* What persistLedger, once or twice, does to a queue.                      *)
LEMMA QueueGrows ==
  ASSUME NEW q \in Seq(Status), NEW st \in Status,
         NEW p, p = Append(q, st) \/ p = q \o <<"pending", st>>
  PROVE  /\ p \in Seq(Status) /\ p # <<>> /\ p[Len(p)] = st
         /\ q # <<>> => Head(p) = Head(q)
<1>1. CASE p = Append(q, st)
  BY <1>1
<1>2. CASE p = q \o <<"pending", st>>
  <2>1. <<"pending", st>> \in Seq(Status)
    BY DEF Status, Open
  <2>2. p \in Seq(Status) /\ Len(p) = Len(q) + 2
    BY <1>2, <2>1
  <2>3. p[Len(q) + 2] = st
    BY <1>2, <2>1, <2>2
  <2>4. q # <<>> => p[1] = q[1]
    BY <1>2, <2>1
  <2> QED
    BY <2>2, <2>3, <2>4
<1> QED
  BY <1>1, <1>2

(* What the end of a write leaves of its queue.                             *)
LEMMA QueueShrinks ==
  ASSUME NEW q \in Seq(Status), q # <<>>
  PROVE  /\ Tail(q) \in Seq(Status)
         /\ Tail(q) = <<>> => q[Len(q)] = Head(q)
         /\ Tail(q) # <<>> => Tail(q)[Len(Tail(q))] = q[Len(q)]
<1> DEFINE t == Tail(q)
<1>1. /\ Len(q) \in Nat /\ Len(q) > 0 /\ Head(q) = q[1] /\ t \in Seq(Status)
      /\ Len(t) = Len(q) - 1
      /\ \A i \in 1 .. Len(q) - 1 : t[i] = q[i + 1]
  OBVIOUS
<1> HIDE DEF t
<1>2. t = <<>> => Len(t) = 0
  BY <1>1
<1>3. t # <<>> => Len(t) > 0
  BY <1>1
<1>4. ASSUME t = <<>> PROVE q[Len(q)] = Head(q)
  <2>1. Len(q) = 1
    BY <1>1, <1>2, <1>4
  <2> QED
    BY <1>1, <2>1
<1>5. t # <<>> => t[Len(t)] = q[Len(q)]
  BY <1>1, <1>3
<1> QED
  BY <1>1, <1>2, <1>4, <1>5 DEF t

(* What remember leaves: one entry more, or one more and one less.          *)
LEMMA Remembered ==
  ASSUME TypeOK, NEW r \in Requests, remember(r), ~InLedger(r)
  PROVE  /\ entries' \in Seq(Requests) /\ Len(entries') <= MaxEntries /\ IsInjective(entries')
         /\ \A x \in Requests : x # r /\ InLedger(x)' => InLedger(x)
<1> DEFINE all == Append(entries, r)
           n == Len(entries)
<1>1. /\ entries \in Seq(Requests) /\ n \in Nat /\ n <= MaxEntries
      /\ DOMAIN entries = 1 .. n
      /\ \A i, j \in 1 .. n : entries[i] = entries[j] => i = j
      /\ \A i \in 1 .. n : entries[i] # r
      /\ MaxEntries \in Nat \ {0}
  BY AuditLedgerAssumption DEF TypeOK, IsInjective, InLedger
<1>2. /\ all \in Seq(Requests) /\ Len(all) = n + 1 /\ all[n + 1] = r
      /\ \A i \in 1 .. n : all[i] = entries[i]
  BY <1>1
<1>3. IF n + 1 > MaxEntries THEN entries' = Tail(all) ELSE entries' = all
  BY <1>2 DEF remember
<1> HIDE DEF all, n
<1>4. CASE n + 1 > MaxEntries
  <2>1. /\ Tail(all) \in Seq(Requests) /\ Len(Tail(all)) = n
        /\ \A i \in 1 .. n : Tail(all)[i] = all[i + 1]
    BY <1>1, <1>2
  <2>2. /\ entries' \in Seq(Requests) /\ Len(entries') = n /\ DOMAIN entries' = 1 .. n
        /\ \A i \in 1 .. n : entries'[i] = all[i + 1]
    <3>1. entries' = Tail(all)
      BY <1>3, <1>4
    <3>2. /\ entries' \in Seq(Requests) /\ Len(entries') = n
          /\ \A i \in 1 .. n : entries'[i] = all[i + 1]
      BY <2>1, <3>1
    <3>3. DOMAIN entries' = 1 .. n
      BY <3>2
    <3> QED
      BY <3>2, <3>3
  <2>3. ASSUME NEW i \in 1 .. n, i # n
        PROVE  i + 1 \in 1 .. n /\ entries'[i] = entries[i + 1]
    <3>1. i + 1 \in 1 .. n
      BY <1>1, <2>3
    <3>2. entries'[i] = all[i + 1]
      BY <2>2
    <3>3. all[i + 1] = entries[i + 1]
      BY <1>2, <3>1
    <3> QED
      BY <3>1, <3>2, <3>3
  <2>4. ASSUME NEW i \in 1 .. n, i = n
        PROVE  entries'[i] = r
    <3>1. entries'[i] = all[n + 1]
      BY <2>2, <2>4
    <3> QED
      BY <1>2, <3>1
  <2>5. \A i, j \in 1 .. n : entries'[i] = entries'[j] => i = j
    BY <1>1, <2>3, <2>4
  <2>6. \A i \in DOMAIN entries' : entries'[i] = r \/ InLedger(entries'[i])
    BY <1>1, <2>2, <2>3, <2>4 DEF InLedger
  <2> QED
    BY <1>1, <2>2, <2>5, <2>6 DEF InLedger, IsInjective
<1>5. CASE ~(n + 1 > MaxEntries)
  <2>1. /\ entries' \in Seq(Requests) /\ Len(entries') = n + 1 /\ DOMAIN entries' = 1 .. n + 1
        /\ entries'[n + 1] = r /\ \A i \in 1 .. n : entries'[i] = entries[i]
    BY <1>1, <1>2, <1>3, <1>5
  <2>2. \A i \in 1 .. n + 1 : i = n + 1 \/ i \in 1 .. n
    BY <1>1
  <2>3. \A i, j \in 1 .. n + 1 : entries'[i] = entries'[j] => i = j
    BY <1>1, <2>1, <2>2
  <2> QED
    BY <1>1, <1>5, <2>1, <2>2, <2>3 DEF InLedger, IsInjective
<1> QED
  BY <1>4, <1>5

(* A request whose writes do not move: its row stays, or is evicted.        *)
LEMMA FollowsStill ==
  ASSUME NEW x \in Requests, Following(x), chain'[x] = chain[x], at'[x] = at[x],
         InLedger(x)' => InLedger(x) /\ status'[x] = status[x],
         row'[x] \in {row[x], None}
  PROVE  Following(x)'
BY DEF Following, Written

(* A write that ends has stored its status, unless another evicted it.      *)
LEMMA FollowsDone ==
  ASSUME TypeOK, NEW r \in Requests, Following(r), chain[r] # <<>>, Done(r),
         UNCHANGED <<entries, status>>, row'[r] \in {Head(chain[r]), None}
  PROVE  Following(r)'
<1>1. chain[r] \in Seq(Status) /\ chain'[r] = Tail(chain[r]) /\ at'[r] = "GET"
  BY DEF TypeOK, Done
<1> QED
  BY <1>1, QueueShrinks DEF Following, Written, InLedger

(* A write that goes on to its next command.                                *)
LEMMA FollowsThen ==
  ASSUME TypeOK, NEW r \in Requests, Following(r), chain[r] # <<>>, NEW to, Then(r, to),
         UNCHANGED <<entries, status>>,
         to \in {"LPUSH", "LRANGE", "LTRIM", "DEL"} => row'[r] \in {Head(chain[r]), None}
  PROVE  Following(r)'
<1>1. chain'[r] = chain[r] /\ at'[r] = to
  BY DEF TypeOK, Then
<1> QED
  BY <1>1 DEF Following, Written, InLedger

-----------------------------------------------------------------------------
(* The types, and what the ledger knows.                                    *)

(* A cap's worth of a sequence.                                             *)
LEMMA NewestOnes ==
  ASSUME NEW s \in Seq(Requests)
  PROVE  Newest(s) \in Seq(Requests) /\ Len(Newest(s)) <= MaxEntries
<1> DEFINE n == IF Len(s) < MaxEntries THEN Len(s) ELSE MaxEntries
<1>1. n \in Nat /\ n <= Len(s) /\ n <= MaxEntries /\ Len(s) \in Nat
  BY AuditLedgerAssumption
<1>2. SubSeq(s, 1, n) \in Seq(Requests) /\ Len(SubSeq(s, 1, n)) = n
  BY <1>1
<1> QED
  BY <1>1, <1>2 DEF Newest

(* What a new process finds is a ledger: within the cap, each request once, *)
(* and with a stored row.                                                   *)
LEMMA Rehydrated ==
  ASSUME TypeOK, NEW s \in Hydrated \cup {<<>>}
  PROVE  /\ s \in Seq(Requests) /\ Len(s) <= MaxEntries /\ IsInjective(s)
         /\ \A i \in DOMAIN s : s[i] \in Requests /\ row[s[i]] # None
<1>1. CASE s = <<>>
  BY <1>1, AuditLedgerAssumption DEF IsInjective
<1>2. CASE s \in Hydrated
  <2> DEFINE recent == Newest(order)
             stored == {x \in Range(recent) : row[x] # None}
             n == Cardinality(stored)
             Older(x, y) == \E p \in DOMAIN recent :
                               recent[p] = x /\ \A q \in DOMAIN recent : recent[q] = y => q < p
  <2>1. s \in [1 .. n -> stored] /\ \A i, j \in DOMAIN s : i < j => Older(s[i], s[j])
    BY <1>2 DEF Hydrated
  <2>2. recent \in Seq(Requests) /\ Len(recent) <= MaxEntries /\ Len(recent) \in Nat
        /\ DOMAIN recent = 1 .. Len(recent)
    BY NewestOnes DEF TypeOK
  <2> HIDE DEF recent
  <2>3. stored \subseteq Requests
    BY <2>2 DEF Range
  <2>4. n \in Nat /\ n <= Len(recent)
    <3>1. recent \in Surjection(1 .. Len(recent), Range(recent))
      BY <2>2 DEF Surjection, Range
    <3>2. IsFiniteSet(1 .. Len(recent)) /\ Cardinality(1 .. Len(recent)) = Len(recent)
      <4>1. /\ IsFiniteSet(1 .. Len(recent))
            /\ Cardinality(1 .. Len(recent)) =
                  IF 1 > Len(recent) THEN 0 ELSE Len(recent) - 1 + 1
        BY <2>2, FS_Interval
      <4> HIDE DEF stored
      <4> QED
        BY <4>1, <2>2
    <3>3. IsFiniteSet(Range(recent)) /\ Cardinality(Range(recent)) <= Len(recent)
      BY <3>1, <3>2, FS_Surjection
    <3> QED
      BY <2>2, <3>3, FS_Subset, FS_CardinalityType
  <2> HIDE DEF n
  <2>5. s \in Seq(Requests) /\ Len(s) = n /\ DOMAIN s = 1 .. n
    BY <2>1, <2>3, <2>4
  <2>6. ASSUME NEW i \in DOMAIN s, NEW j \in DOMAIN s, s[i] = s[j], i < j
        PROVE  FALSE
    <3>1. Older(s[i], s[i])
      BY <2>1, <2>6
    <3>2. PICK p \in DOMAIN recent : p < p
      BY <3>1
    <3> QED
      BY <3>2, <2>2
  <2>7. IsInjective(s)
    BY <2>4, <2>5, <2>6 DEF IsInjective
  <2>8. \A i \in DOMAIN s : s[i] \in stored
    BY <2>1
  <2> QED
    BY <2>2, <2>3, <2>4, <2>5, <2>7, <2>8, AuditLedgerAssumption
<1> QED
  BY <1>1, <1>2

(* The ledger's entry, added or not, keeps the types.                       *)
LEMMA TypeService ==
  ASSUME TypeOK, Known, NEW r \in Requests,
         \/ Recover(r)
         \/ \E st \in Status : SettleInbound(r, st)
         \/ \E st \in Terminal : update(r, st)
  PROVE  TypeOK' /\ Known'
<1>1. ASSUME NEW st \in Status, remember(r), ~InLedger(r), status' = [status EXCEPT ![r] = st],
             chain' = [chain EXCEPT ![r] = chain'[r]], chain'[r] \in Seq(Status)
      PROVE  TypeOK' /\ Known'
  <2>1. /\ entries' \in Seq(Requests) /\ Len(entries') <= MaxEntries /\ IsInjective(entries')
        /\ \A x \in Requests : x # r /\ InLedger(x)' => InLedger(x)
    BY <1>1, Remembered
  <2>2. /\ status' \in [Requests -> Status \cup Earlier \cup {None}] /\ status'[r] = st
        /\ \A x \in Requests : x # r => status'[x] = status[x]
    BY <1>1 DEF TypeOK
  <2>3. chain' \in [Requests -> Seq(Status)]
    BY <1>1 DEF TypeOK
  <2>4. live' \subseteq Requests /\ UNCHANGED <<at, dropped, row, order, untrimmed, failures, restarts>>
    BY <1>1 DEF remember, TypeOK, store, bounds
  <2>5. Known'
    BY <2>1, <2>2 DEF Known
  <2> QED
    BY <2>1, <2>2, <2>3, <2>4, <2>5 DEF TypeOK
<1>2. status[r] \in {None, "found"} => ~InLedger(r)
  BY AuditLedgerAssumption DEF Known, Status, Open, Terminal
<1>3. chain[r] \in Seq(Status) /\ r \in DOMAIN chain
  BY DEF TypeOK
<1>4. ASSUME Recover(r) PROVE TypeOK' /\ Known'
  <2>1. "pending" \in Status
    BY DEF Status, Open
  <2>2. chain'[r] = Append(chain[r], "pending") /\ chain' = [chain EXCEPT ![r] = chain'[r]]
    BY <1>4 DEF Recover, persistLedger, TypeOK
  <2>3. chain'[r] \in Seq(Status)
    BY <2>1, <2>2, <1>3, QueueGrows
  <2> QED
    BY <1>1, <1>2, <1>4, <2>1, <2>2, <2>3 DEF Recover
<1>5. ASSUME NEW st \in Status, SettleInbound(r, st) PROVE TypeOK' /\ Known'
  <2>1. (chain'[r] = Append(chain[r], st) \/ chain'[r] = chain[r] \o <<"pending", st>>)
        /\ chain' = [chain EXCEPT ![r] = chain'[r]]
    BY <1>5 DEF SettleInbound, TypeOK
  <2>2. chain'[r] \in Seq(Status)
    BY <2>1, <1>3, QueueGrows
  <2> QED
    BY <1>1, <1>2, <1>5, <2>1, <2>2 DEF SettleInbound
<1>6. ASSUME NEW st \in Terminal, update(r, st) PROVE TypeOK' /\ Known'
  <2>1. st \in Status
    BY DEF Status
  <2>2. chain' \in [Requests -> Seq(Status)]
    <3>1. Append(chain[r], st) \in Seq(Status)
      BY <2>1, <1>3
    <3>2. chain' = chain \/ chain' = [chain EXCEPT ![r] = Append(chain[r], st)]
      BY <1>6 DEF update, persistLedger
    <3> QED
      BY <3>1, <3>2 DEF TypeOK
  <2>3. /\ status' \in [Requests -> Status \cup Earlier \cup {None}] /\ status'[r] = st
        /\ \A x \in Requests : x # r => status'[x] = status[x]
    BY <1>6, <2>1 DEF TypeOK, update
  <2>4. live' \subseteq Requests
        /\ UNCHANGED <<entries, at, dropped, row, order, untrimmed, failures, restarts>>
    BY <1>6 DEF update, TypeOK, store, bounds
  <2>5. Known'
    BY <2>1, <2>3, <2>4 DEF Known, InLedger
  <2> QED
    BY <2>2, <2>3, <2>4, <2>5 DEF TypeOK
<1> QED
  BY <1>4, <1>5, <1>6

(* Done and Then keep the types of the writes.                              *)
LEMMA TypeWrites ==
  ASSUME TypeOK, NEW r \in Requests, chain[r] # <<>>
  PROVE  /\ Done(r) => /\ chain' \in [Requests -> Seq(Status)]
                       /\ at' \in [Requests -> Command]
                       /\ dropped' \in [Requests -> SUBSET Requests]
         /\ \A to \in Command : Then(r, to) => /\ chain' = chain /\ chain' \in [Requests -> Seq(Status)]
                                               /\ at' \in [Requests -> Command]
         /\ Head(chain[r]) \in Status
<1>1. chain[r] \in Seq(Status) /\ Tail(chain[r]) \in Seq(Status) /\ Head(chain[r]) \in Status
  <2>1. chain[r] \in Seq(Status)
    BY DEF TypeOK
  <2> QED
    BY <2>1, QueueShrinks
<1>2. Done(r) => chain' \in [Requests -> Seq(Status)]
  BY <1>1 DEF TypeOK, Done
<1>3. Done(r) => at' \in [Requests -> Command] /\ dropped' \in [Requests -> SUBSET Requests]
  BY DEF TypeOK, Done, Command
<1>4. \A to \in Command : Then(r, to) => chain' = chain /\ at' \in [Requests -> Command]
  BY DEF TypeOK, Then
<1> QED
  BY <1>1, <1>2, <1>3, <1>4 DEF TypeOK

(* The commands of a write keep the types, and leave the service alone.     *)
LEMMA TypePut ==
  ASSUME TypeOK, Known, NEW r \in Requests, Put(r) \/ Fail(r)
  PROVE  TypeOK' /\ Known'
<1> USE DEF PutAt
<1>1. chain[r] # <<>> /\ UNCHANGED memory
  BY DEF Put, Get, Set, SetNew, Lpush, Lrange, Ltrim, Del, Fail
<1>2. Known' /\ UNCHANGED <<entries, status, live>>
  BY <1>1 DEF Known, InLedger, memory
<1>3. "SET" \in Command /\ "SETNEW" \in Command /\ "LPUSH" \in Command
      /\ "LRANGE" \in Command /\ "LTRIM" \in Command /\ "DEL" \in Command
  BY DEF Command
<1>4. Head(chain[r]) \in Status
  BY <1>1, TypeWrites
<1>5. CASE Get(r)
  <2>1. PICK to \in Command : Then(r, to)
    BY <1>3, <1>5 DEF Get
  <2> QED
    BY <1>1, <1>2, <1>5, <2>1, TypeWrites DEF Get, TypeOK, store, bounds
<1>6. CASE Set(r)
  BY <1>1, <1>2, <1>4, <1>6, TypeWrites DEF Set, TypeOK, bounds
<1>7. CASE SetNew(r)
  BY <1>1, <1>2, <1>3, <1>4, <1>7, TypeWrites DEF SetNew, TypeOK, bounds
<1>8. CASE Lpush(r)
  <2>1. order' \in Seq(Requests)
    BY <1>8 DEF Lpush, TypeOK
  <2> QED
    BY <1>1, <1>2, <1>3, <1>8, <2>1, TypeWrites DEF Lpush, TypeOK, bounds
<1>9. CASE Lrange(r)
  <2> DEFINE overflow == {order[i] : i \in MaxEntries + 1 .. Len(order)}
  <2>1. overflow \subseteq Requests
    BY AuditLedgerAssumption DEF TypeOK
  <2>2. CASE Done(r)
    BY <1>1, <1>2, <1>9, <2>2, TypeWrites DEF Lrange, TypeOK, store, bounds
  <2>3. CASE Then(r, "LTRIM") /\ dropped' = [dropped EXCEPT ![r] = overflow]
    <3> HIDE DEF overflow
    <3>1. dropped' \in [Requests -> SUBSET Requests]
      BY <2>1, <2>3 DEF TypeOK
    <3> QED
      BY <1>1, <1>2, <1>3, <1>9, <2>3, <3>1, TypeWrites DEF Lrange, TypeOK, store, bounds
  <2> QED
    BY <1>9, <2>2, <2>3 DEF Lrange
<1>10. CASE Ltrim(r)
  <2>1. order' \in Seq(Requests)
    BY <1>10, NewestOnes DEF Ltrim, TypeOK
  <2> QED
    BY <1>1, <1>2, <1>3, <1>10, <2>1, TypeWrites DEF Ltrim, TypeOK, bounds
<1>11. CASE Del(r)
  <2>1. row' \in [Requests -> Status \cup {None}]
    BY <1>11 DEF Del, TypeOK
  <2> QED
    BY <1>1, <1>2, <1>11, <2>1, TypeWrites DEF Del, TypeOK, bounds
<1>12. CASE Fail(r)
  <2>1. failures' \in 0 .. MaxFailures /\ untrimmed' \in Nat
    BY <1>12, AuditLedgerAssumption DEF Fail, TypeOK
  <2> QED
    BY <1>1, <1>2, <1>12, <2>1, TypeWrites DEF Fail, TypeOK
<1> QED
  BY <1>5, <1>6, <1>7, <1>8, <1>9, <1>10, <1>11, <1>12 DEF Put

(* A new process starts with what it finds.                                 *)
LEMMA TypeRestart ==
  ASSUME TypeOK, Restart
  PROVE  /\ TypeOK' /\ Known'
         /\ \A x \in Requests : InLedger(x)' => status'[x] = row[x]
<1>1. PICK loaded \in Hydrated \cup {<<>>}, resumed \in SUBSET {x \in Requests : status[x] # None} :
        /\ entries' = loaded
        /\ live' = resumed \cap Range(loaded)
        /\ status' = [x \in Requests |->
                        IF x \in Range(loaded) THEN row[x]
                        ELSE IF x \in resumed THEN "found"
                        ELSE IF status[x] = None THEN None ELSE "gone"]
  BY DEF Restart
<1>2. /\ loaded \in Seq(Requests) /\ Len(loaded) <= MaxEntries /\ IsInjective(loaded)
      /\ \A i \in DOMAIN loaded : loaded[i] \in Requests /\ row[loaded[i]] # None
  BY Rehydrated
<1>3. \A x \in Requests : InLedger(x)' => x \in Range(loaded) /\ row[x] \in Status
  BY <1>1, <1>2 DEF InLedger, Range, TypeOK
<1>4. \A x \in Range(loaded) : x \in Requests /\ row[x] \in Status
  BY <1>2 DEF Range, TypeOK
<1>5. status' \in [Requests -> Status \cup Earlier \cup {None}]
  BY <1>1, <1>4 DEF Earlier
<1>6. restarts' \in 0 .. MaxRestarts /\ untrimmed' \in Nat
  BY AuditLedgerAssumption, PushedFinite DEF Restart, TypeOK
<1>7. /\ chain' \in [Requests -> Seq(Status)] /\ at' \in [Requests -> Command]
      /\ dropped' \in [Requests -> SUBSET Requests]
  BY DEF Restart, Command
<1>8. live' \subseteq Requests /\ UNCHANGED <<row, order, failures>>
  BY <1>1 DEF Restart
<1> QED
  BY <1>1, <1>2, <1>3, <1>5, <1>6, <1>7, <1>8 DEF TypeOK, Known

-----------------------------------------------------------------------------
(* The cap.                                                                 *)

(* The service does not touch the order, nor the writes under way.          *)
LEMMA CapService ==
  ASSUME TypeOK, OrderCapped, NEW r \in Requests,
         \/ Recover(r)
         \/ \E st \in Status : SettleInbound(r, st)
         \/ \E st \in Terminal : update(r, st)
  PROVE  OrderCapped'
<1>1. UNCHANGED <<order, untrimmed, at>>
  BY DEF Recover, SettleInbound, update, remember, store
<1>2. \A x \in Requests : chain[x] # <<>> => chain'[x] # <<>>
  <2>1. \A st : Append(chain[r], st) # <<>> /\ chain[r] \o <<"pending", st>> # <<>>
    <3>1. chain[r] \in Seq(Status)
      BY DEF TypeOK
    <3> QED
      BY <3>1
  <2>2. \/ chain' = chain
        \/ \E st : \/ chain' = [chain EXCEPT ![r] = Append(@, st)]
                   \/ chain' = [chain EXCEPT ![r] = @ \o <<"pending", st>>]
    BY DEF Recover, SettleInbound, update, persistLedger
  <2> QED
    BY <2>1, <2>2 DEF TypeOK
<1>3. Pushed \subseteq Pushed' /\ Pushed' \subseteq Requests
  BY <1>1, <1>2 DEF Pushed
<1> QED
  BY <1>1, <1>3, CapKept

(* A push makes room for itself until its trim; a trim, or finding nothing  *)
(* to trim, puts the order within the cap.                                  *)
LEMMA CapPut ==
  ASSUME TypeOK, TypeOK', OrderCapped, NEW r \in Requests, Put(r)
  PROVE  OrderCapped'
<1> USE DEF PutAt
<1>1. Pushed' \subseteq Requests
  BY DEF Pushed
<1>2. ASSUME at[r] \notin {"LRANGE", "LTRIM"}, UNCHANGED <<order, untrimmed>>,
             \A x \in Requests : x # r => chain'[x] = chain[x] /\ at'[x] = at[x]
      PROVE  OrderCapped'
  <2>1. Pushed \subseteq Pushed'
    BY <1>2 DEF Pushed
  <2> QED
    BY <1>1, <1>2, <2>1, CapKept
<1>3. /\ Done(r) => \A x \in Requests : x # r => chain'[x] = chain[x] /\ at'[x] = at[x]
      /\ \A to : Then(r, to) => \A x \in Requests : x # r => chain'[x] = chain[x] /\ at'[x] = at[x]
  BY DEF Done, Then, TypeOK
<1>4. CASE Get(r) \/ Set(r) \/ SetNew(r) \/ Del(r)
  BY <1>2, <1>3, <1>4 DEF Get, Set, SetNew, Del, store
<1>5. CASE Lpush(r)
  <2>1. Len(order') = Len(order) + 1 /\ Len(order) \in Nat /\ untrimmed' = untrimmed /\ untrimmed \in Nat
    BY <1>5 DEF Lpush, TypeOK
  <2>2. Pushed' = Pushed \cup {r} /\ r \notin Pushed
    BY <1>5 DEF Lpush, Then, Pushed, TypeOK
  <2>3. Cardinality(Pushed') = Cardinality(Pushed) + 1
    BY <2>2, PushedFinite, FS_AddElement
  <2> QED
    BY <2>1, <2>3, PushedFinite, AuditLedgerAssumption DEF OrderCapped
<1>6. CASE Lrange(r)
  <2> DEFINE overflow == {order[i] : i \in MaxEntries + 1 .. Len(order)}
  <2>1. CASE overflow = {}
    <3>1. Len(order) \in Nat /\ order' = order
      BY <1>6 DEF TypeOK, Lrange, store
    <3>2. MaxEntries + 1 \in MaxEntries + 1 .. Len(order) => order[MaxEntries + 1] \in overflow
      OBVIOUS
    <3>3. MaxEntries + 1 \notin MaxEntries + 1 .. Len(order)
      BY <2>1, <3>2
    <3>4. Len(order') <= MaxEntries
      BY <3>1, <3>3, AuditLedgerAssumption
    <3> QED
      BY <1>1, <3>4, CapMet
  <2>2. CASE overflow # {}
    <3>1. Then(r, "LTRIM") /\ UNCHANGED <<order, untrimmed>>
      BY <1>6, <2>2 DEF Lrange, store
    <3>2. Pushed \subseteq Pushed'
      BY <3>1 DEF Then, Pushed, TypeOK
    <3> QED
      BY <1>1, <3>1, <3>2, CapKept
  <2> QED
    BY <2>1, <2>2
<1>7. CASE Ltrim(r)
  BY <1>1, <1>7, CapMet, NewestOnes DEF Ltrim, TypeOK
<1> QED
  BY <1>4, <1>5, <1>6, <1>7 DEF Put

(* A push whose trim is cut off is counted.                                 *)
LEMMA CapFail ==
  ASSUME TypeOK, OrderCapped, NEW r \in Requests, Fail(r)
  PROVE  OrderCapped'
<1>1. order' = order /\ Len(order) \in Nat /\ untrimmed \in Nat
  BY DEF Fail, TypeOK
<1>2. CASE r \in Pushed
  <2>1. Pushed \ {r} \subseteq Pushed' /\ Pushed' \subseteq Requests
    BY DEF Fail, Done, Pushed, TypeOK
  <2>2. Cardinality(Pushed \ {r}) = Cardinality(Pushed) - 1
    BY <1>2, PushedFinite, FS_RemoveElement
  <2>3. Cardinality(Pushed \ {r}) <= Cardinality(Pushed') /\ Cardinality(Pushed') \in Nat
    BY <2>1, AuditLedgerAssumption, FS_Subset, FS_CardinalityType
  <2>4. untrimmed' = untrimmed + 1
    BY <1>2 DEF Fail
  <2> QED
    BY <1>1, <2>2, <2>3, <2>4, PushedFinite, AuditLedgerAssumption DEF OrderCapped
<1>3. CASE r \notin Pushed
  <2>1. Pushed \subseteq Pushed' /\ Pushed' \subseteq Requests
    BY <1>3 DEF Fail, Done, Pushed, TypeOK
  <2>2. untrimmed' = untrimmed
    BY <1>1, <1>3 DEF Fail
  <2> QED
    BY <1>1, <2>1, <2>2, CapKept
<1> QED
  BY <1>2, <1>3

(* So are those of a crash.                                                 *)
LEMMA CapRestart ==
  ASSUME TypeOK, OrderCapped, Restart
  PROVE  OrderCapped'
<1>1. order' = order /\ Len(order) \in Nat /\ untrimmed' = untrimmed + Cardinality(Pushed)
      /\ untrimmed \in Nat
  BY DEF Restart, TypeOK
<1>2. Pushed' \subseteq Requests
  BY DEF Pushed
<1>3. Cardinality(Pushed') \in Nat
  BY <1>2, AuditLedgerAssumption, FS_Subset, FS_CardinalityType
<1> QED
  BY <1>1, <1>3, PushedFinite, AuditLedgerAssumption DEF OrderCapped

-----------------------------------------------------------------------------
(* The rows follow the ledger.                                              *)

(* The service: what it queues last is the status it sets.                  *)
LEMMA FollowService ==
  ASSUME TypeOK, Known, NEW r \in Requests,
         \/ Recover(r)
         \/ \E st \in Status : SettleInbound(r, st)
         \/ \E st \in Terminal : update(r, st),
         \A x \in Requests : Following(x)
  PROVE  \A x \in Requests : Following(x)'
<1>1. chain[r] \in Seq(Status) /\ UNCHANGED <<at, row>>
  BY DEF TypeOK, Recover, SettleInbound, update, remember, store
<1>2. ASSUME NEW x \in Requests, x # r PROVE Following(x)'
  <2>1. chain'[x] = chain[x] /\ status'[x] = status[x]
    BY <1>2 DEF TypeOK, Recover, SettleInbound, update, persistLedger
  <2>2. InLedger(x)' => InLedger(x)
    <3>1. CASE UNCHANGED entries
      BY <3>1 DEF InLedger
    <3>2. CASE remember(r) /\ status[r] \in {None, "found"}
      <4>1. ~InLedger(r)
        BY <3>2, AuditLedgerAssumption DEF Known, Status, Open, Terminal
      <4> QED
        BY <1>2, <3>2, <4>1, Remembered
    <3> QED
      BY <3>1, <3>2 DEF Recover, SettleInbound, update
  <2> QED
    BY <1>1, <2>1, <2>2, FollowsStill
<1>3. ASSUME NEW st \in Status, status'[r] = st,
             chain'[r] = Append(chain[r], st) \/ chain'[r] = chain[r] \o <<"pending", st>>
      PROVE  Following(r)'
  <2>1. /\ chain'[r] # <<>> /\ chain'[r][Len(chain'[r])] = st
        /\ chain[r] # <<>> => Head(chain'[r]) = Head(chain[r])
    BY <1>1, <1>3, QueueGrows
  <2>2. Following(r) /\ (chain[r] = <<>> => at[r] = "GET")
    BY DEF Following
  <2> QED
    BY <1>1, <1>3, <2>1, <2>2 DEF Following, Written
<1>4. ASSUME Recover(r) PROVE Following(r)'
  BY <1>3, <1>4 DEF Recover, persistLedger, TypeOK, Status, Open
<1>5. ASSUME NEW st \in Status, SettleInbound(r, st) PROVE Following(r)'
  BY <1>3, <1>5 DEF SettleInbound, TypeOK
<1>6. ASSUME NEW st \in Terminal, update(r, st) PROVE Following(r)'
  <2>1. CASE InLedger(r)
    BY <1>3, <1>6, <2>1 DEF update, persistLedger, TypeOK, Status
  <2>2. CASE ~InLedger(r)
    <3>1. ~InLedger(r)' /\ UNCHANGED chain
      BY <1>6, <2>2 DEF update, InLedger
    <3> QED
      BY <1>1, <3>1 DEF Following, Written
  <2> QED
    BY <2>1, <2>2
<1> QED
  BY <1>2, <1>4, <1>5, <1>6

(* A write's own commands, and what its DEL does to the others.             *)
LEMMA FollowPut ==
  ASSUME TypeOK, NEW r \in Requests, Put(r), \A x \in Requests : Following(x)
  PROVE  \A x \in Requests : Following(x)'
<1> USE DEF PutAt
<1>1. chain[r] # <<>> /\ UNCHANGED <<entries, status>>
  BY DEF Put, Get, Set, SetNew, Lpush, Lrange, Ltrim, Del, memory
<1>2. ASSUME NEW x \in Requests, x # r PROVE Following(x)'
  <2>1. chain'[x] = chain[x] /\ at'[x] = at[x]
    BY <1>2 DEF Put, Get, Set, SetNew, Lpush, Lrange, Ltrim, Del, Done, Then, TypeOK
  <2>2. row'[x] \in {row[x], None}
    BY <1>2 DEF Put, Get, Set, SetNew, Lpush, Lrange, Ltrim, Del, TypeOK, store
  <2> QED
    BY <1>1, <2>1, <2>2, FollowsStill DEF InLedger
<1>3. Following(r) /\ Written(r)
  BY DEF Following
<1>4. ASSUME Get(r) PROVE Following(r)'
  <2>1. PICK to \in {"SET", "SETNEW"} : Then(r, to)
    BY <1>4 DEF Get
  <2> QED
    BY <1>1, <1>3, <2>1, FollowsThen
<1>5. ASSUME Set(r) PROVE Following(r)'
  BY <1>1, <1>3, <1>5, FollowsDone DEF Set, TypeOK
<1>6. ASSUME SetNew(r) PROVE Following(r)'
  BY <1>1, <1>3, <1>6, FollowsThen DEF SetNew, TypeOK
<1>7. ASSUME Lpush(r) PROVE Following(r)'
  BY <1>1, <1>3, <1>7, FollowsThen DEF Lpush, Written
<1>8. ASSUME Lrange(r) PROVE Following(r)'
  <2>1. row' = row /\ row[r] \in {Head(chain[r]), None}
    BY <1>1, <1>3, <1>8 DEF Lrange, Written, store
  <2>2. Done(r) \/ Then(r, "LTRIM")
    BY <1>8 DEF Lrange
  <2> QED
    BY <1>1, <1>3, <2>1, <2>2, FollowsDone, FollowsThen
<1>9. ASSUME Ltrim(r) PROVE Following(r)'
  BY <1>1, <1>3, <1>9, FollowsThen DEF Ltrim, Written
<1>10. ASSUME Del(r) PROVE Following(r)'
  <2>1. row'[r] \in {Head(chain[r]), None}
    BY <1>1, <1>3, <1>10 DEF Del, Written
  <2> QED
    BY <1>1, <1>3, <1>10, <2>1, FollowsDone DEF Del
<1>11. Following(r)'
  BY <1>4, <1>5, <1>6, <1>7, <1>8, <1>9, <1>10 DEF Put
<1> QED
  BY <1>2, <1>11

(* What a new process finds is what it has.                                 *)
LEMMA FollowRestart ==
  ASSUME TypeOK, Restart
  PROVE  \A x \in Requests : Following(x)'
<1>1. \A x \in Requests : InLedger(x)' => status'[x] = row[x]
  BY TypeRestart
<1>2. \A x \in Requests : chain'[x] = <<>> /\ at'[x] = "GET" /\ row'[x] = row[x]
  BY DEF Restart
<1> QED
  BY <1>1, <1>2 DEF Following, Written

-----------------------------------------------------------------------------
(* The theorems.                                                            *)

(* The empty ledger and the empty store.                                    *)
LEMMA InitInv == Init => IInv
<1> SUFFICES ASSUME Init PROVE IInv
  OBVIOUS
<1>1. TypeOK
  BY AuditLedgerAssumption DEF Init, TypeOK, IsInjective, Command
<1>2. \A r \in Requests : ~InLedger(r)
  BY DEF Init, InLedger
<1>3. Len(order) = 0 /\ untrimmed = 0
  BY DEF Init
<1>4. OrderCapped
  BY <1>3, PushedFinite, AuditLedgerAssumption DEF OrderCapped
<1>5. \A r \in Requests : Following(r)
  BY <1>2 DEF Init, Following, Written
<1> QED
  BY <1>1, <1>2, <1>4, <1>5 DEF IInv, Known

(* Every step.                                                              *)
LEMMA NextInv == IInv /\ [Next]_vars => IInv'
<1> SUFFICES ASSUME IInv, [Next]_vars PROVE IInv'
  OBVIOUS
<1> USE DEF IInv
<1>1. ASSUME NEW r \in Requests,
             \/ Recover(r)
             \/ \E st \in Status : SettleInbound(r, st)
             \/ \E st \in Terminal : update(r, st)
      PROVE  IInv'
  <2>1. failures' = failures
    BY <1>1 DEF Recover, SettleInbound, update, remember, bounds
  <2> QED
    BY <1>1, <2>1, TypeService, CapService, FollowService
<1>2. ASSUME NEW r \in Requests, Put(r) PROVE IInv'
  <2>1. failures' = failures
    BY <1>2 DEF Put, Get, Set, SetNew, Lpush, Lrange, Ltrim, Del, bounds
  <2>2. TypeOK' /\ Known'
    BY <1>2, TypePut
  <2> QED
    BY <1>2, <2>1, <2>2, CapPut, FollowPut
<1>3. ASSUME NEW r \in Requests, Fail(r) PROVE IInv'
  <2>1. failures' # 0
    BY <1>3 DEF Fail, TypeOK
  <2> QED
    BY <1>3, <2>1, TypePut, CapFail
<1>4. CASE Restart
  <2>1. failures' = failures
    BY <1>4 DEF Restart
  <2> QED
    BY <1>4, <2>1, TypeRestart, CapRestart, FollowRestart
<1>5. CASE UNCHANGED vars
  BY <1>5 DEF vars, memory, writes, store, bounds, TypeOK, Known, InLedger, OrderCapped, Pushed,
     Following, Written
<1>6. ASSUME NEW r \in Requests, Recover(r) \/ Put(r) \/ Fail(r) PROVE IInv'
  BY <1>1, <1>2, <1>3, <1>6
<1> QED
  BY <1>1, <1>4, <1>5, <1>6 DEF Next

(* The inductive invariant of the audit ledger: types, the stored order's   *)
(* cap, and rows that follow the ledger as the writes go through.           *)
THEOREM Inductive == Spec => []IInv
BY InitInv, NextInv, PTL DEF Spec

(* The map and Redis hold what they should: the ledger never has more than  *)
(* maxLedgerEntries entries, nor one request twice, hydrated or not.        *)
THEOREM TypeCorrect == Spec => []TypeOK
<1>1. IInv => TypeOK
  BY DEF IInv
<1> QED
  BY <1>1, Inductive, PTL

(* ledger:order keeps to the cap, one entry over it for each put between    *)
(* its LPUSH and its LTRIM, and those a crash or a failed command left.     *)
THEOREM OrderStaysCapped == Spec => []OrderCapped
<1>1. IInv => OrderCapped
  BY DEF IInv
<1> QED
  BY <1>1, Inductive, PTL

(* Chained writes keep the stored row of a request in the ledger at the     *)
(* status the ledger has, whatever is evicted and however often the process *)
(* starts again, as long as no command fails.                               *)
THEOREM RowsAreCurrent == Spec => []RowsCurrent
<1>1. IInv => RowsCurrent
  BY DEF IInv, RowsCurrent, Following
<1> QED
  BY <1>1, Inductive, PTL
=============================================================================
