-------------------------- MODULE AdmissionProofs --------------------------
(***************************************************************************)
(* Invariance proofs for the nonce cache and the rate limiter: for any     *)
(* window, caps, capacity and refill rate, any number of messages and      *)
(* clients, and any clock that only sometimes goes back.                   *)
(***************************************************************************)
EXTENDS Admission, SequenceTheorems, WellFoundedInduction, TLAPS

(* What is known of a message that has passed: it did within its window,    *)
(* twice only at its two ends, and the cache has its last pass until it is  *)
(* out of the window that a pass at the start of it opens.                  *)
Passing(m) ==
    LET n == Len(passed[m])
        p == passed[m][n]
    IN  /\ stamp[m] # None /\ stamp[m] - Skew <= p /\ p <= stamp[m] + Skew
        /\ p <= now /\ n <= 2
        /\ n = 2 => passed[m][1] = stamp[m] - Skew /\ p = stamp[m] + Skew
        /\ now - p >= ttlMs \/ \E i \in DOMAIN seen : seen[i] = [nonce |-> m, at |-> p]
PassInv == \A m \in Messages \ excused : passed[m] # <<>> => Passing(m)

(* refill, at any time.                                                     *)
Held(b, t) == AtMost(b.tokens + Max0(t - b.updatedAt), Capacity * Token)

(* What a bucket holds now and what was taken from it since any request is  *)
(* no more than a full one and what time has refilled.                      *)
RateInv ==
    \A k \in Clients :
        /\ BucketOf(k) = {} => served[k] = <<>>
        /\ \A i \in BucketOf(k), j \in DOMAIN served[k] :
              Held(buckets[i], now) + (Len(served[k]) - j + 1) * Token
                  <= Capacity * Token + (ticks - served[k][j]) + setBack

(* The time promised to a client refills its bucket to a token.             *)
RetryInv ==
    \A k \in Clients : promised[k] # None =>
        \A i \in BucketOf(k) : buckets[i].tokens + (promised[k] - buckets[i].updatedAt) >= Token

IInv == TypeOK /\ PassInv /\ RateHeld /\ RateInv /\ RetryInv

-----------------------------------------------------------------------------
(* Numbers.                                                                 *)

(* A set of numbers that is not empty has a least one.                      *)
LEMMA Least ==
  ASSUME NEW T \in SUBSET Nat, T # {}
  PROVE  \E x \in T : \A y \in T : x <= y
<1>1. IsWellFoundedOn(OpToRel(<, Nat), Nat)
  BY NatLessThanWellFounded
<1>2. PICK x \in T : \A y \in T : ~ (<<y, x>> \in OpToRel(<, Nat))
  BY <1>1, WFMin
<1>3. \A y \in T : ~(y < x)
  BY <1>2 DEF OpToRel
<1> QED
  BY <1>3

(* Rounded up to whole units, it is no less.                                *)
LEMMA RoundedUp ==
  ASSUME NEW n \in Int, NEW d \in Nat \ {0}
  PROVE  ((n + d - 1) \div d) \in Int /\ ((n + d - 1) \div d) * d >= n
OBVIOUS

(* One more of a unit, and at least one.                                    *)
LEMMA Units ==
  ASSUME NEW d \in Nat
  PROVE  /\ \A n \in Int : n * d \in Int /\ (n + 1) * d = n * d + d
         /\ \A n \in Nat : n * d \in Nat
         /\ \A n \in Nat \ {0} : n * d >= d
OBVIOUS

-----------------------------------------------------------------------------
(* The nonce cache.                                                         *)

Entry == [nonce: Messages, at: Time]
Once(s) == \A i, j \in DOMAIN s : s[i].nonce = s[j].nonce => i = j
Dropped == {e.nonce : e \in ToSet(Unexpired)} \ {e.nonce : e \in ToSet(prune)}

(* The type invariant's word for it.                                        *)
LEMMA OnceIs ==
  ASSUME NEW s
  PROVE  IsInjective([i \in DOMAIN s |-> s[i].nonce]) <=> Once(s)
BY DEF IsInjective, Once

(* Only the front of the cache goes, and only entries that have expired.    *)
LEMMA UnexpiredOnes ==
  ASSUME TypeOK
  PROVE  /\ Unexpired \in Seq(Entry) /\ Len(Unexpired) <= MaxEntries /\ Once(Unexpired)
         /\ \A i \in DOMAIN seen : ~Expired(seen[i]) => \E j \in DOMAIN Unexpired : Unexpired[j] = seen[i]
<1> DEFINE kept == {i \in DOMAIN seen : ~Expired(seen[i])}
           first == IF kept = {} THEN Len(seen) + 1
                    ELSE CHOOSE i \in kept : \A j \in kept : i <= j
<1>1. /\ seen \in Seq(Entry) /\ Len(seen) \in Nat /\ Len(seen) <= MaxEntries
      /\ DOMAIN seen = 1 .. Len(seen) /\ Once(seen)
  BY OnceIs DEF TypeOK, Entry
<1>2. first \in 1 .. Len(seen) + 1 /\ \A i \in kept : first <= i
  <2>1. CASE kept = {}
    BY <1>1, <2>1
  <2>2. CASE kept # {}
    <3>1. kept \in SUBSET Nat
      BY <1>1
    <3> HIDE DEF kept
    <3>2. \E x \in kept : \A y \in kept : x <= y
      BY <2>2, <3>1, Least
    <3>3. first \in kept /\ \A i \in kept : first <= i
      BY <2>2, <3>2
    <3> QED
      BY <1>1, <3>3 DEF kept
  <2> QED
    BY <2>1, <2>2
<1>3. Unexpired = SubSeq(seen, first, Len(seen))
  BY DEF Unexpired
<1> HIDE DEF first
<1>4. /\ Unexpired \in Seq(Entry) /\ Len(Unexpired) = Len(seen) - first + 1
      /\ DOMAIN Unexpired = 1 .. Len(seen) - first + 1
      /\ \A j \in 1 .. Len(seen) - first + 1 : Unexpired[j] = seen[first + j - 1]
  BY <1>1, <1>2, <1>3
<1>5. Once(Unexpired)
  <2>1. \A j \in DOMAIN Unexpired : first + j - 1 \in DOMAIN seen /\ Unexpired[j] = seen[first + j - 1]
    <3> TAKE j \in DOMAIN Unexpired
    <3>1. j \in 1 .. Len(seen) - first + 1
      BY <1>4
    <3>2. first + j - 1 \in 1 .. Len(seen)
      BY <1>1, <1>2, <3>1
    <3> QED
      BY <1>1, <1>4, <3>1, <3>2
  <2>2. ASSUME NEW i \in DOMAIN Unexpired, NEW j \in DOMAIN Unexpired,
               Unexpired[i].nonce = Unexpired[j].nonce
        PROVE  i = j
    <3>1. first + i - 1 = first + j - 1
      BY <1>1, <2>1, <2>2 DEF Once
    <3> QED
      BY <1>2, <1>4, <3>1
  <2> QED
    BY <2>2 DEF Once
<1>6. ASSUME NEW i \in DOMAIN seen, ~Expired(seen[i])
      PROVE  \E j \in DOMAIN Unexpired : Unexpired[j] = seen[i]
  <2>1. first <= i
    BY <1>2, <1>6
  <2>2. i - first + 1 \in 1 .. Len(seen) - first + 1 /\ first + (i - first + 1) - 1 = i
    BY <1>1, <1>2, <2>1
  <2> QED
    BY <1>4, <2>2
<1>7. Len(Unexpired) <= MaxEntries
  BY <1>1, <1>2, <1>4, AdmissionAssumption
<1> QED
  BY <1>4, <1>5, <1>6, <1>7

(* prune makes room for one entry, and what it drops before its time is     *)
(* the nonces it excuses.                                                   *)
LEMMA PrunedOnes ==
  ASSUME TypeOK
  PROVE  /\ prune \in Seq(Entry) /\ Len(prune) < MaxEntries /\ Once(prune)
         /\ \A i \in DOMAIN seen : ~Expired(seen[i]) =>
                (\E j \in DOMAIN prune : prune[j] = seen[i]) \/ seen[i].nonce \in Dropped
<1> DEFINE u == Unexpired
<1>1. /\ u \in Seq(Entry) /\ Len(u) <= MaxEntries /\ Once(u) /\ Len(u) \in Nat /\ DOMAIN u = 1 .. Len(u)
      /\ MaxEntries \in Nat \ {0}
      /\ \A i \in DOMAIN seen : ~Expired(seen[i]) => \E j \in DOMAIN u : u[j] = seen[i]
  BY UnexpiredOnes, AdmissionAssumption
<1>2. prune = IF Len(u) >= MaxEntries THEN Tail(u) ELSE u
  BY DEF prune
<1>3. Dropped = {e.nonce : e \in ToSet(u)} \ {e.nonce : e \in ToSet(prune)}
  BY DEF Dropped
<1> HIDE DEF u
<1>4. CASE Len(u) >= MaxEntries
  <2>1. /\ prune \in Seq(Entry) /\ Len(prune) = Len(u) - 1 /\ DOMAIN prune = 1 .. Len(u) - 1
        /\ \A j \in 1 .. Len(u) - 1 : prune[j] = u[j + 1]
    BY <1>1, <1>2, <1>4
  <2>2. Once(prune)
    <3> SUFFICES ASSUME NEW i \in 1 .. Len(u) - 1, NEW j \in 1 .. Len(u) - 1, prune[i].nonce = prune[j].nonce
                 PROVE  i = j
      BY <2>1 DEF Once
    <3>1. i + 1 \in DOMAIN u /\ j + 1 \in DOMAIN u
      BY <1>1
    <3>2. u[i + 1].nonce = u[j + 1].nonce
      BY <2>1
    <3>3. i + 1 = j + 1
      BY <1>1, <3>1, <3>2 DEF Once
    <3> QED
      BY <1>1, <3>3
  <2>3. ASSUME NEW j \in DOMAIN u, \A x \in DOMAIN prune : prune[x] # u[j]
        PROVE  u[j].nonce \in Dropped
    <3>1. j = 1
      <4>1. j # 1 => j - 1 \in 1 .. Len(u) - 1 /\ (j - 1) + 1 = j
        BY <1>1
      <4> QED
        BY <2>1, <2>3, <4>1
    <3>2. \A x \in DOMAIN prune : prune[x].nonce # u[j].nonce
      <4>1. \A x \in DOMAIN prune : x + 1 \in DOMAIN u /\ x + 1 # 1 /\ prune[x] = u[x + 1]
        BY <1>1, <2>1
      <4> QED
        BY <1>1, <3>1, <4>1 DEF Once
    <3>3. u[j] \in ToSet(u) /\ \A e \in ToSet(prune) : e.nonce # u[j].nonce
      BY <3>2 DEF ToSet
    <3> QED
      BY <1>3, <3>3
  <2> QED
    BY <1>1, <2>1, <2>2, <2>3
<1>5. CASE ~(Len(u) >= MaxEntries)
  BY <1>1, <1>2, <1>5
<1> QED
  BY <1>4, <1>5

(* The clock stays in its range, whatever it was set back.                  *)
LEMMA ClockType ==
  ASSUME TypeOK
  PROVE  /\ now \in Time /\ now \in Int /\ ticks \in Int /\ setBack \in Nat
         /\ Skew \in Nat \ {0} /\ ttlMs \in Nat /\ ttlMs = Skew + Skew
<1>1. ticks \in 0 .. MaxTicks /\ setBack \in 0 .. MaxSetBack
  BY DEF TypeOK
<1>2. MaxTicks \in Nat /\ MaxSetBack \in Nat /\ Skew \in Nat \ {0}
  BY AdmissionAssumption
<1>3. ticks - setBack \in -MaxSetBack .. MaxTicks
  BY <1>1, <1>2
<1>4. 2 * Skew \in Nat /\ 2 * Skew = Skew + Skew
  BY <1>2
<1> QED
  BY <1>1, <1>2, <1>3, <1>4 DEF now, Time, ttlMs

(* What a claim leaves in the cache: the entries of other messages that     *)
(* have not expired and are not excused; and the message's own, unless it   *)
(* is excused.  It passes only when the cache has no entry of it that is    *)
(* not expired.                                                             *)
LEMMA Claimed ==
  ASSUME TypeOK, NEW m \in Messages, Claim(m)
  PROVE  /\ seen' \in Seq(Entry) /\ Len(seen') <= MaxEntries /\ Once(seen')
         /\ excused' = excused \cup Dropped
         /\ \A i \in DOMAIN seen : ~Expired(seen[i]) /\ seen[i].nonce # m /\ seen[i].nonce \notin excused' =>
                \E j \in DOMAIN seen' : seen'[j] = seen[i]
         /\ \/ /\ passed' = passed
               /\ m \in excused' \/
                  \A i \in DOMAIN seen : ~Expired(seen[i]) /\ seen[i].nonce = m =>
                      \E j \in DOMAIN seen' : seen'[j] = seen[i]
            \/ /\ passed' = [passed EXCEPT ![m] = Append(@, now)]
               /\ \E j \in DOMAIN seen' : seen'[j] = [nonce |-> m, at |-> now]
               /\ \A i \in DOMAIN seen : seen[i].nonce = m => Expired(seen[i])
<1> DEFINE p == prune
           e == [nonce |-> m, at |-> now]
           at == {i \in DOMAIN p : p[i].nonce = m}
<1>1. /\ p \in Seq(Entry) /\ Len(p) < MaxEntries /\ Once(p) /\ Len(p) \in Nat /\ DOMAIN p = 1 .. Len(p)
      /\ \A i \in DOMAIN seen : ~Expired(seen[i]) =>
             (\E j \in DOMAIN p : p[j] = seen[i]) \/ seen[i].nonce \in Dropped
      /\ MaxEntries \in Nat
  BY PrunedOnes, AdmissionAssumption
<1>2. excused' = excused \cup Dropped
  BY DEF Claim, Dropped
<1>3. e \in Entry
  BY ClockType DEF Entry
<1>4. \/ (\E i \in at : ~Expired(p[i])) /\ seen' = p /\ passed' = passed
      \/ /\ \A i \in at : Expired(p[i])
         /\ seen' = IF at = {} THEN Append(p, e) ELSE [i \in DOMAIN p |-> IF i \in at THEN e ELSE p[i]]
         /\ passed' = IF m \in excused' THEN passed ELSE [passed EXCEPT ![m] = Append(@, now)]
  BY DEF Claim
<1> HIDE DEF p, e
<1>5. CASE seen' = p /\ passed' = passed
  BY <1>1, <1>2, <1>5
<1>6. ASSUME \A i \in at : Expired(p[i]),
             seen' = IF at = {} THEN Append(p, e) ELSE [i \in DOMAIN p |-> IF i \in at THEN e ELSE p[i]],
             passed' = IF m \in excused' THEN passed ELSE [passed EXCEPT ![m] = Append(@, now)]
      PROVE  /\ seen' \in Seq(Entry) /\ Len(seen') <= MaxEntries /\ Once(seen')
             /\ \A i \in DOMAIN p : p[i].nonce # m => \E j \in DOMAIN seen' : seen'[j] = p[i]
             /\ \E j \in DOMAIN seen' : seen'[j] = e
  <2>0. e.nonce = m
    BY DEF e
  <2>1. CASE at = {}
    <3>1. /\ seen' \in Seq(Entry) /\ Len(seen') = Len(p) + 1 /\ DOMAIN seen' = 1 .. Len(p) + 1
          /\ seen'[Len(p) + 1] = e /\ \A i \in 1 .. Len(p) : seen'[i] = p[i]
      BY <1>1, <1>3, <1>6, <2>1
    <3>2. \A i \in 1 .. Len(p) + 1 : i \in 1 .. Len(p) \/ i = Len(p) + 1
      BY <1>1
    <3>3. \A i \in 1 .. Len(p) : p[i].nonce # m
      BY <1>1, <2>1
    <3>4. Once(seen')
      BY <1>1, <2>0, <3>1, <3>2, <3>3 DEF Once
    <3> QED
      BY <1>1, <3>1, <3>4
  <2>2. CASE at # {}
    <3>1. /\ DOMAIN seen' = 1 .. Len(p) /\ \A i \in 1 .. Len(p) : seen'[i] = IF i \in at THEN e ELSE p[i]
          /\ seen' \in [1 .. Len(p) -> Entry]
      <4>1. seen' = [i \in 1 .. Len(p) |-> IF i \in at THEN e ELSE p[i]]
        BY <1>1, <1>6, <2>2
      <4>2. \A i \in 1 .. Len(p) : p[i] \in Entry
        BY <1>1
      <4> HIDE DEF at
      <4> QED
        BY <1>3, <4>1, <4>2
    <3>2. seen' \in Seq(Entry) /\ Len(seen') = Len(p)
      BY <1>1, <3>1
    <3>3. \A i \in 1 .. Len(p) : seen'[i].nonce = p[i].nonce
      BY <1>1, <2>0, <3>1
    <3>4. Once(seen')
      BY <1>1, <3>1, <3>3 DEF Once
    <3> QED
      BY <1>1, <2>2, <3>1, <3>2, <3>4
  <2> QED
    BY <2>1, <2>2
<1>7. ASSUME \A i \in at : Expired(p[i]), m \notin excused', NEW i \in DOMAIN seen, seen[i].nonce = m
      PROVE  Expired(seen[i])
  BY <1>1, <1>2, <1>7
<1>8. CASE \A i \in at : Expired(p[i])
  <2>1. /\ seen' \in Seq(Entry) /\ Len(seen') <= MaxEntries /\ Once(seen')
        /\ \A i \in DOMAIN p : p[i].nonce # m => \E j \in DOMAIN seen' : seen'[j] = p[i]
        /\ \E j \in DOMAIN seen' : seen'[j] = e
        /\ passed' = IF m \in excused' THEN passed ELSE [passed EXCEPT ![m] = Append(@, now)]
    BY <1>4, <1>6, <1>8
  <2>2. ASSUME NEW i \in DOMAIN seen, ~Expired(seen[i]), seen[i].nonce # m, seen[i].nonce \notin excused'
        PROVE  \E j \in DOMAIN seen' : seen'[j] = seen[i]
    BY <1>1, <1>2, <2>1, <2>2
  <2> QED
    BY <1>2, <1>7, <1>8, <2>1, <2>2 DEF e
<1> QED
  BY <1>4, <1>5, <1>8

(* The last of a sequence.                                                  *)
LEMMA LastOf ==
  ASSUME NEW S, NEW s \in Seq(S), s # <<>>
  PROVE  Len(s) \in Nat /\ Len(s) > 0 /\ s[Len(s)] \in S
OBVIOUS

(* A pass within the window it was found in.                                *)
LEMMA ClaimPasses ==
  ASSUME TypeOK, PassInv, NEW m \in Messages, Claim(m)
  PROVE  PassInv'
<1>1. /\ excused' = excused \cup Dropped /\ stamp' = stamp /\ now' = now
      /\ stamp[m] # None /\ stamp[m] - now \in -Skew .. Skew
  BY Claimed DEF Claim, clock, now, assertFreshTimestamp
<1>2. /\ now \in Int /\ Skew \in Nat \ {0} /\ ttlMs = Skew + Skew /\ Time \subseteq Int
      /\ \A x \in Messages : stamp[x] # None => stamp[x] \in Int
      /\ \A x \in Messages : passed[x] \in Seq(Time) /\ Len(passed[x]) \in Nat
  <2>1. \A x \in Messages : stamp[x] # None => stamp[x] \in Int
    BY ClockType, AdmissionAssumption DEF TypeOK
  <2>2. \A x \in Messages : passed[x] \in Seq(Time) /\ Len(passed[x]) \in Nat
    BY DEF TypeOK
  <2>3. Time \subseteq Int
    BY AdmissionAssumption DEF Time
  <2> QED
    BY ClockType, <2>1, <2>2, <2>3
<1>3. ASSUME NEW x \in Messages \ excused', passed'[x] = passed[x], passed'[x] # <<>>,
             \A i \in DOMAIN seen : ~Expired(seen[i]) /\ seen[i].nonce = x =>
                 \E j \in DOMAIN seen' : seen'[j] = seen[i]
      PROVE  Passing(x)'
  <2> DEFINE p == passed[x][Len(passed[x])]
  <2>1. Passing(x)
    BY <1>1, <1>3 DEF PassInv
  <2>2. passed[x][Len(passed[x])] \in Int
    BY <1>2, <1>3, LastOf
  <2>3. ASSUME ~(now - p >= ttlMs)
        PROVE  \E j \in DOMAIN seen' : seen'[j] = [nonce |-> x, at |-> p]
    <3>1. PICK i \in DOMAIN seen : seen[i] = [nonce |-> x, at |-> p]
      BY <2>1, <2>3 DEF Passing
    <3>2. ~Expired(seen[i]) /\ seen[i].nonce = x
      BY <2>3, <3>1 DEF Expired
    <3> QED
      BY <1>3, <3>1, <3>2
  <2>4. ttlMs' = ttlMs
    BY DEF ttlMs
  <2> QED
    BY <1>1, <1>3, <2>1, <2>3, <2>4 DEF Passing
<1>4. ASSUME NEW x \in Messages \ excused', x # m, passed'[x] # <<>>
      PROVE  Passing(x)'
  <2>1. passed'[x] = passed[x]
    BY <1>4, Claimed DEF TypeOK
  <2>2. \A i \in DOMAIN seen : ~Expired(seen[i]) /\ seen[i].nonce = x =>
            \E j \in DOMAIN seen' : seen'[j] = seen[i]
    BY <1>4, Claimed
  <2> QED
    BY <1>3, <1>4, <2>1, <2>2
<1>5. ASSUME m \notin excused', passed'[m] # <<>>, passed' = passed
      PROVE  Passing(m)'
  <2>1. \A i \in DOMAIN seen : ~Expired(seen[i]) /\ seen[i].nonce = m =>
            \E j \in DOMAIN seen' : seen'[j] = seen[i]
    BY <1>5, Claimed, <1>2 DEF TypeOK
  <2> QED
    BY <1>3, <1>5, <2>1
<1>6. ASSUME m \notin excused', passed' = [passed EXCEPT ![m] = Append(@, now)],
             \E j \in DOMAIN seen' : seen'[j] = [nonce |-> m, at |-> now],
             \A i \in DOMAIN seen : seen[i].nonce = m => Expired(seen[i])
      PROVE  Passing(m)'
  <2> DEFINE n == Len(passed[m])
             p == passed[m][n]
  <2>1. passed'[m] = Append(passed[m], now)
    BY <1>6 DEF TypeOK
  <2>2. /\ Len(passed'[m]) = n + 1 /\ passed'[m][n + 1] = now /\ n \in Nat
        /\ n # 0 => passed'[m][1] = passed[m][1]
    BY <1>2, <2>1
  <2>3. CASE passed[m] = <<>>
    <3>1. n = 0
      BY <2>3
    <3> QED
      BY <1>1, <1>2, <1>6, <2>2, <3>1 DEF Passing
  <2>4. CASE passed[m] # <<>>
    <3>1. Passing(m) /\ n # 0
      BY <1>1, <1>2, <1>6, <2>4 DEF PassInv
    <3>2. p \in Int
      BY <1>2, <2>4, LastOf
    <3>3. now - p >= ttlMs
      <4>1. ASSUME NEW i \in DOMAIN seen, seen[i] = [nonce |-> m, at |-> p]
            PROVE  now - p >= ttlMs
        BY <1>6, <4>1 DEF Expired
      <4> QED
        BY <3>1, <4>1 DEF Passing
    <3>4. stamp[m] - Skew <= p /\ n <= 2 /\ (n = 2 => p = stamp[m] + Skew)
      BY <3>1 DEF Passing
    <3>5. stamp[m] \in Int /\ now <= stamp[m] + Skew
      BY <1>1, <1>2
    <3>e. n \in Nat /\ n # 0 /\ n <= 2
      BY <2>2, <3>1, <3>4
    <3> HIDE DEF p, n
    <3>6. p = stamp[m] - Skew /\ now = stamp[m] + Skew /\ n = 1
      <4> DEFINE s == stamp[m]
      <4>1. s \in Int /\ now \in Int /\ Skew \in Nat \ {0} /\ now - p >= Skew + Skew
            /\ s - Skew <= p /\ now <= s + Skew /\ (n = 2 => p = s + Skew)
        BY <1>2, <3>3, <3>4, <3>5
      <4> HIDE DEF s
      <4>2. p = s - Skew /\ now = s + Skew /\ n = 1
        BY <3>2, <3>e, <4>1
      <4> QED
        BY <4>2 DEF s
    <3> QED
      BY <1>1, <1>2, <1>6, <2>2, <3>5, <3>6 DEF Passing, p, n
  <2> QED
    BY <2>3, <2>4
<1>7. m \notin excused' /\ passed'[m] # <<>> => Passing(m)'
  BY <1>5, <1>6, Claimed
<1> QED
  BY <1>4, <1>7 DEF PassInv

(* Time passing forgets no pass; a clock that is set back excuses them all. *)
LEMMA OthersPass ==
  ASSUME TypeOK, PassInv,
         \/ Tick \/ SetBack
         \/ \E m \in Messages : Sign(m)
         \/ \E k \in Clients : Limited(k) \/ Let(k)
         \/ UNCHANGED vars
  PROVE  PassInv'
<1>1. CASE SetBack
  BY <1>1 DEF SetBack, PassInv
<1>2. ASSUME excused' = excused, passed' = passed, seen' = seen,
             now' = now \/ now' = now + 1,
             \A m \in Messages : stamp[m] # None => stamp'[m] = stamp[m]
      PROVE  PassInv'
  <2>1. ASSUME NEW m \in Messages \ excused, passed[m] # <<>>
        PROVE  Passing(m)'
    <3> DEFINE p == passed[m][Len(passed[m])]
    <3>1. Passing(m) /\ now \in Int /\ ttlMs \in Int /\ ttlMs' = ttlMs
      BY <2>1, ClockType DEF PassInv, ttlMs
    <3>2. passed[m] \in Seq(Time) /\ Time \subseteq Int
      BY AdmissionAssumption DEF TypeOK, Time
    <3>3. p \in Int
      BY <2>1, <3>2, LastOf
    <3>4. stamp[m] # None /\ stamp'[m] = stamp[m]
      BY <1>2, <3>1 DEF Passing
    <3>5. (p <= now => p <= now') /\ (now - p >= ttlMs => now' - p >= ttlMs)
      BY <1>2, <3>1, <3>3
    <3> QED
      BY <1>2, <3>1, <3>4, <3>5 DEF Passing
  <2> QED
    BY <1>2, <2>1 DEF PassInv
<1>3. CASE Tick
  <2>1. now' = now + 1
    BY <1>3, ClockType DEF Tick, now
  <2> QED
    BY <1>2, <1>3, <2>1 DEF Tick, cache
<1>4. ASSUME NEW m \in Messages, Sign(m) PROVE PassInv'
  <2>1. now' = now /\ \A x \in Messages : stamp[x] # None => stamp'[x] = stamp[x]
    BY <1>4 DEF Sign, clock, now, TypeOK
  <2> QED
    BY <1>2, <1>4, <2>1 DEF Sign
<1>5. CASE UNCHANGED <<clock, cache>>
  BY <1>2, <1>5 DEF clock, cache, now
<1>6. ASSUME NEW k \in Clients, Limited(k) \/ Let(k) PROVE UNCHANGED <<clock, cache>>
  BY <1>6 DEF Limited, Let
<1> QED
  BY <1>1, <1>3, <1>4, <1>5, <1>6 DEF vars

-----------------------------------------------------------------------------
(* The buckets.                                                             *)

Full == Capacity * Token
Bucket == [key: Clients, tokens: 0 .. Capacity * Token, updatedAt: Time]
OnePerKey(s) == \A i, j \in DOMAIN s : s[i].key = s[j].key => i = j

(* The type invariant's word for it.                                        *)
LEMMA OnePerKeyIs ==
  ASSUME NEW s
  PROVE  IsInjective([i \in DOMAIN s |-> s[i].key]) <=> OnePerKey(s)
BY DEF IsInjective, OnePerKey

(* Map.delete: the others close up.                                         *)
LEMMA Deleted ==
  ASSUME NEW S, NEW s \in Seq(S), NEW i \in DOMAIN s
  PROVE  /\ RemoveAt(s, i) \in Seq(S) /\ Len(RemoveAt(s, i)) = Len(s) - 1
         /\ \A j \in 1 .. Len(s) - 1 : RemoveAt(s, i)[j] = IF j < i THEN s[j] ELSE s[j + 1]
<1> DEFINE n == Len(s)
           u == SubSeq(s, 1, i - 1)
           v == SubSeq(s, i + 1, n)
<1>1. n \in Nat /\ i \in 1 .. n
  OBVIOUS
<1>2. /\ u \in Seq(S) /\ Len(u) = i - 1 /\ \A j \in 1 .. i - 1 : u[j] = s[j]
      /\ v \in Seq(S) /\ Len(v) = n - i /\ \A j \in 1 .. n - i : v[j] = s[j + i]
  BY <1>1
<1>3. RemoveAt(s, i) = u \o v
  BY DEF RemoveAt
<1> HIDE DEF u, v
<1>4. /\ u \o v \in Seq(S) /\ Len(u \o v) = Len(u) + Len(v)
      /\ \A j \in 1 .. Len(u) + Len(v) : (u \o v)[j] = IF j <= Len(u) THEN u[j] ELSE v[j - Len(u)]
  BY <1>2, ConcatProperties
<1> HIDE DEF n
<1>5. /\ u \o v \in Seq(S) /\ Len(u \o v) = n - 1
      /\ \A j \in 1 .. n - 1 : (u \o v)[j] = IF j <= i - 1 THEN u[j] ELSE v[j - (i - 1)]
  <2>1. Len(u) = i - 1 /\ Len(u) + Len(v) = n - 1
    BY <1>1, <1>2
  <2> DEFINE w == u \o v
  <2>2. /\ w \in Seq(S) /\ Len(w) = n - 1
        /\ \A j \in 1 .. n - 1 : w[j] = IF j <= Len(u) THEN u[j] ELSE v[j - Len(u)]
    BY <1>4, <2>1
  <2> HIDE DEF w
  <2>3. \A j \in 1 .. n - 1 : w[j] = IF j <= i - 1 THEN u[j] ELSE v[j - (i - 1)]
    BY <2>1, <2>2
  <2> QED
    BY <2>2, <2>3 DEF w
<1>6. ASSUME NEW j \in 1 .. n - 1 PROVE (u \o v)[j] = IF j < i THEN s[j] ELSE s[j + 1]
  <2>1. CASE j < i
    <3>1. j \in 1 .. i - 1 /\ j <= i - 1
      BY <1>1, <2>1
    <3> QED
      BY <1>2, <1>5, <2>1, <3>1
  <2>2. CASE ~(j < i)
    <3>1. j - (i - 1) \in 1 .. n - i /\ (j - (i - 1)) + i = j + 1 /\ ~(j <= i - 1)
      BY <1>1, <2>2
    <3>2. (u \o v)[j] = v[j - (i - 1)] /\ v[j - (i - 1)] = s[(j - (i - 1)) + i]
      BY <1>2, <1>5, <3>1
    <3> QED
      BY <2>2, <3>1, <3>2
  <2> QED
    BY <2>1, <2>2
<1> QED
  BY <1>3, <1>5, <1>6 DEF n

(* What the type invariant says of the buckets.                             *)
LEMMA BucketsType ==
  ASSUME TypeOK
  PROVE  /\ buckets \in Seq(Bucket) /\ Len(buckets) \in Nat /\ DOMAIN buckets = 1 .. Len(buckets)
         /\ OnePerKey(buckets) /\ Len(buckets) <= MaxKeys
         /\ \A i \in DOMAIN buckets : /\ buckets[i] \in Bucket /\ buckets[i].key \in Clients
                                      /\ buckets[i].tokens \in Nat /\ buckets[i].tokens <= Full
                                      /\ buckets[i].updatedAt \in Int
         /\ Full \in Nat /\ Token \in Nat /\ Token <= Full
<1>1. Full \in Nat /\ Token \in Nat /\ Token <= Full
  BY AdmissionAssumption, Units DEF Full
<1>2. /\ buckets \in Seq(Bucket) /\ OnePerKey(buckets) /\ Len(buckets) <= MaxKeys
  BY OnePerKeyIs DEF TypeOK, Bucket
<1>3. Len(buckets) \in Nat /\ DOMAIN buckets = 1 .. Len(buckets) /\ \A i \in DOMAIN buckets : buckets[i] \in Bucket
  BY <1>2
<1>4. \A b \in Bucket : b.key \in Clients /\ b.tokens \in Nat /\ b.tokens <= Full /\ b.updatedAt \in Int
  BY <1>1, AdmissionAssumption DEF Bucket, Full, Time
<1> QED
  BY <1>1, <1>2, <1>3, <1>4

(* The buckets without that of a key.                                       *)
LEMMA OthersOnes ==
  ASSUME TypeOK, NEW k \in Clients
  PROVE  /\ Others(k) \in Seq(Bucket) /\ OnePerKey(Others(k))
         /\ Len(Others(k)) = IF BucketOf(k) = {} THEN Len(buckets) ELSE Len(buckets) - 1
         /\ \A i \in DOMAIN Others(k) :
                Others(k)[i].key # k /\ \E j \in DOMAIN buckets : Others(k)[i] = buckets[j]
         /\ \A j \in DOMAIN buckets :
                buckets[j].key # k => \E i \in DOMAIN Others(k) : Others(k)[i] = buckets[j]
<1> DEFINE o == Others(k)
           n == Len(buckets)
           b == buckets
<1>1. /\ b \in Seq(Bucket) /\ n \in Nat /\ DOMAIN b = 1 .. n
      /\ \A i, j \in 1 .. n : b[i].key = b[j].key => i = j
  BY BucketsType DEF OnePerKey
<1>2. CASE BucketOf(k) = {}
  <2>1. o = b /\ \A i \in DOMAIN b : b[i].key # k
    BY <1>2 DEF Others, BucketOf
  <2> QED
    BY <1>1, <1>2, <2>1 DEF OnePerKey
<1>3. CASE BucketOf(k) # {}
  <2>1. PICK x \in BucketOf(k) : o = RemoveAt(b, x)
    BY <1>3 DEF Others
  <2>2. x \in 1 .. n /\ b[x].key = k
    BY <1>1 DEF BucketOf
  <2>3. /\ o \in Seq(Bucket) /\ Len(o) = n - 1
        /\ \A j \in 1 .. n - 1 : o[j] = IF j < x THEN b[j] ELSE b[j + 1]
    <3>1. x \in DOMAIN b /\ b \in Seq(Bucket)
      BY <1>1, <2>2
    <3>2. /\ RemoveAt(b, x) \in Seq(Bucket) /\ Len(RemoveAt(b, x)) = Len(b) - 1
          /\ \A j \in 1 .. Len(b) - 1 : RemoveAt(b, x)[j] = IF j < x THEN b[j] ELSE b[j + 1]
      BY <3>1, Deleted
    <3> HIDE DEF o
    <3> QED
      BY <2>1, <3>2
  <2> HIDE DEF o, n, b
  <2>4. DOMAIN o = 1 .. n - 1
    BY <1>1, <2>3
  <2>5. ASSUME NEW i \in 1 .. n - 1
        PROVE  \E j \in 1 .. n : j # x /\ o[i] = b[j] /\ j = IF i < x THEN i ELSE i + 1
    <3>1. CASE i < x
      BY <1>1, <2>2, <2>3, <3>1
    <3>2. CASE ~(i < x)
      <4>1. i + 1 \in 1 .. n /\ i + 1 # x
        BY <1>1, <2>2, <3>2
      <4> QED
        BY <2>3, <3>2, <4>1
    <3> QED
      BY <3>1, <3>2
  <2>6. ASSUME NEW j \in 1 .. n, j # x
        PROVE  \E i \in 1 .. n - 1 : o[i] = b[j]
    <3>1. CASE j < x
      <4>1. j \in 1 .. n - 1
        BY <1>1, <2>2, <3>1
      <4> QED
        BY <2>3, <3>1, <4>1
    <3>2. CASE j > x
      <4>1. j - 1 \in 1 .. n - 1 /\ ~(j - 1 < x) /\ (j - 1) + 1 = j
        BY <1>1, <2>2, <3>2
      <4> QED
        BY <2>3, <4>1
    <3> QED
      BY <1>1, <2>2, <2>6, <3>1, <3>2
  <2>7. OnePerKey(o)
    <3> SUFFICES ASSUME NEW i \in 1 .. n - 1, NEW j \in 1 .. n - 1, o[i].key = o[j].key
                 PROVE  i = j
      BY <2>4 DEF OnePerKey
    <3>1. PICK y \in 1 .. n : o[i] = b[y] /\ y = IF i < x THEN i ELSE i + 1
      BY <2>5
    <3>2. PICK z \in 1 .. n : o[j] = b[z] /\ z = IF j < x THEN j ELSE j + 1
      BY <2>5
    <3>3. y = z
      BY <1>1, <3>1, <3>2
    <3> QED
      BY <1>1, <2>2, <3>1, <3>2, <3>3
  <2>8. ASSUME NEW i \in DOMAIN o
        PROVE  o[i].key # k /\ \E j \in DOMAIN b : o[i] = b[j]
    <3>1. PICK y \in 1 .. n : o[i] = b[y] /\ y # x
      BY <1>1, <2>4, <2>5
    <3> QED
      BY <1>1, <2>2, <3>1
  <2>9. \A j \in DOMAIN b : b[j].key # k => \E i \in DOMAIN o : o[i] = b[j]
    BY <1>1, <2>2, <2>4, <2>6
  <2> QED
    BY <1>3, <2>3, <2>7, <2>8, <2>9 DEF o, n, b
<1> QED
  BY <1>2, <1>3

(* The buckets once that of a key is the newest.                            *)
LEMMA TouchedOnes ==
  ASSUME TypeOK, NEW k \in Clients, NEW u \in 0 .. Full
  PROVE  /\ Touched(k, u) \in Seq(Bucket) /\ OnePerKey(Touched(k, u))
         /\ Len(Touched(k, u)) = IF BucketOf(k) = {} THEN Len(buckets) + 1 ELSE Len(buckets)
         /\ \A i \in DOMAIN Touched(k, u) :
                \/ Touched(k, u)[i] = [key |-> k, tokens |-> u, updatedAt |-> now]
                \/ Touched(k, u)[i].key # k /\ \E j \in DOMAIN buckets : Touched(k, u)[i] = buckets[j]
         /\ \E i \in DOMAIN Touched(k, u) : Touched(k, u)[i].key = k
         /\ \A j \in DOMAIN buckets :
                buckets[j].key # k => \E i \in DOMAIN Touched(k, u) : Touched(k, u)[i] = buckets[j]
<1> DEFINE o == Others(k)
           n == Len(o)
           e == [key |-> k, tokens |-> u, updatedAt |-> now]
           t == Touched(k, u)
<1>1. /\ o \in Seq(Bucket) /\ OnePerKey(o) /\ n \in Nat /\ DOMAIN o = 1 .. n
      /\ n = IF BucketOf(k) = {} THEN Len(buckets) ELSE Len(buckets) - 1
      /\ \A i \in 1 .. n : o[i].key # k /\ \E j \in DOMAIN buckets : o[i] = buckets[j]
      /\ \A j \in DOMAIN buckets : buckets[j].key # k => \E i \in 1 .. n : o[i] = buckets[j]
      /\ Len(buckets) \in Nat
  <2>1. o \in Seq(Bucket)
    BY OthersOnes
  <2>2. n \in Nat /\ DOMAIN o = 1 .. n
    BY <2>1
  <2> HIDE DEF n
  <2>3. n = Len(o)
    BY DEF n
  <2>4. /\ OnePerKey(o)
        /\ n = IF BucketOf(k) = {} THEN Len(buckets) ELSE Len(buckets) - 1
    BY <2>3, OthersOnes
  <2>5. \A i \in DOMAIN o : o[i].key # k /\ \E j \in DOMAIN buckets : o[i] = buckets[j]
    BY OthersOnes
  <2>6. \A j \in DOMAIN buckets : buckets[j].key # k => \E i \in DOMAIN o : o[i] = buckets[j]
    BY OthersOnes
  <2>7. Len(buckets) \in Nat
    BY BucketsType
  <2> HIDE DEF o
  <2> QED
    BY <2>1, <2>2, <2>4, <2>5, <2>6, <2>7
<1>2. e \in Bucket /\ e.key = k
  BY ClockType DEF Bucket, Full
<1>3. t = Append(o, e)
  BY DEF Touched
<1> HIDE DEF o, e, t
<1>4. /\ t \in Seq(Bucket) /\ Len(t) = n + 1 /\ DOMAIN t = 1 .. n + 1 /\ t[n + 1] = e
      /\ \A i \in 1 .. n : t[i] = o[i]
  BY <1>1, <1>2, <1>3
<1> HIDE DEF n
<1>5. \A i \in 1 .. n + 1 : i \in 1 .. n \/ i = n + 1
  BY <1>1
<1>6. OnePerKey(t)
  <2> SUFFICES ASSUME NEW i \in 1 .. n + 1, NEW j \in 1 .. n + 1, t[i].key = t[j].key
               PROVE  i = j
    BY <1>4 DEF OnePerKey
  <2>1. \A x \in 1 .. n : t[x].key # k /\ t[x] = o[x]
    BY <1>1, <1>4
  <2>2. CASE i \in 1 .. n /\ j \in 1 .. n
    BY <1>1, <2>1, <2>2 DEF OnePerKey
  <2>3. CASE i = n + 1 \/ j = n + 1
    BY <1>2, <1>4, <1>5, <2>1, <2>3
  <2> QED
    BY <1>5, <2>2, <2>3
<1>7. \A i \in DOMAIN t : t[i] = e \/ (t[i].key # k /\ \E j \in DOMAIN buckets : t[i] = buckets[j])
  BY <1>1, <1>4, <1>5
<1>8. \A j \in DOMAIN buckets : buckets[j].key # k => \E i \in DOMAIN t : t[i] = buckets[j]
  <2>1. \A i \in 1 .. n : i \in DOMAIN t /\ t[i] = o[i]
    BY <1>1, <1>4
  <2>2. ASSUME NEW j \in DOMAIN buckets, buckets[j].key # k
        PROVE  \E i \in 1 .. n : o[i] = buckets[j]
    BY <1>1, <2>2
  <2> QED
    BY <2>1, <2>2
<1>9. n + 1 \in DOMAIN t /\ t[n + 1].key = k
  BY <1>1, <1>2, <1>4
<1>10. Len(t) = IF BucketOf(k) = {} THEN Len(buckets) + 1 ELSE Len(buckets)
  BY <1>1, <1>4
<1> QED
  BY <1>4, <1>6, <1>7, <1>8, <1>9, <1>10 DEF t, e

(* What a bucket holds: never more than it can, one unit more at most for   *)
(* each tick, and no more when the clock goes back.                         *)
LEMMA HeldOnes ==
  ASSUME NEW b \in Bucket, NEW t \in Int
  PROVE  /\ Held(b, t) \in 0 .. Full
         /\ Held(b, t + 1) <= Held(b, t) + 1 /\ Held(b, t - 1) <= Held(b, t)
         /\ \A p \in Int : b.tokens + (p - b.updatedAt) >= Token /\ t >= p => Held(b, t) >= Token
<1>1. /\ b.tokens \in Nat /\ b.tokens <= Full /\ b.updatedAt \in Int
      /\ Full \in Nat /\ Token \in Nat /\ Token <= Full
  BY AdmissionAssumption, Units DEF Bucket, Full, Time
<1>2. \A x \in Int : Held(b, x) = LET h == b.tokens + (IF x - b.updatedAt > 0 THEN x - b.updatedAt ELSE 0)
                                  IN  IF h < Full THEN h ELSE Full
  BY DEF Held, AtMost, Max0, Full
<1> QED
  BY <1>1, <1>2

(* A bucket just touched holds what it was given.                           *)
LEMMA HeldNow ==
  ASSUME NEW k, NEW u \in 0 .. Full, NEW t \in Int
  PROVE  Held([key |-> k, tokens |-> u, updatedAt |-> t], t) = u
<1>1. Full \in Nat
  BY AdmissionAssumption, Units DEF Full
<1> QED
  BY <1>1 DEF Held, AtMost, Max0, Full

(* The tokens of a client: its bucket's, or a full bucket's.                *)
LEMMA TokensOf ==
  ASSUME TypeOK, NEW k \in Clients
  PROVE  /\ tokensOf(k) \in 0 .. Full
         /\ \A i \in BucketOf(k) : tokensOf(k) = Held(buckets[i], now)
         /\ BucketOf(k) = {} => tokensOf(k) = Full
<1>1. CASE BucketOf(k) = {}
  BY <1>1, BucketsType DEF tokensOf, Full
<1>2. CASE BucketOf(k) # {}
  <2>1. PICK x \in BucketOf(k) : tokensOf(k) = refill(buckets[x])
    BY <1>2 DEF tokensOf
  <2>2. x \in DOMAIN buckets /\ \A i \in BucketOf(k) : i = x
    BY BucketsType DEF BucketOf, OnePerKey
  <2>3. refill(buckets[x]) = Held(buckets[x], now)
    BY DEF refill, Held
  <2>4. Held(buckets[x], now) \in 0 .. Full
    BY <2>2, BucketsType, ClockType, HeldOnes
  <2> QED
    BY <1>2, <2>1, <2>2, <2>3, <2>4
<1> QED
  BY <1>1, <1>2

(* A request let through: the client's bucket is the newest with a token    *)
(* less, those of the clients evicted to make room are gone.                *)
LetTo(k, gone) ==
    /\ buckets' \in Seq(Bucket) /\ Len(buckets') <= MaxKeys /\ OnePerKey(buckets')
    /\ \A i \in DOMAIN buckets' :
         /\ buckets'[i].key \notin gone
         /\ \/ buckets'[i] = [key |-> k, tokens |-> tokensOf(k) - Token, updatedAt |-> now]
            \/ buckets'[i].key # k /\ \E j \in DOMAIN buckets : buckets'[i] = buckets[j]
    /\ \A c \in Clients \ gone : c = k \/ BucketOf(c) # {} =>
         \E i \in DOMAIN buckets' : buckets'[i].key = c
    /\ served' = [c \in Clients |-> IF c \in gone THEN <<>>
                                    ELSE IF c = k THEN Append(served[c], ticks)
                                    ELSE served[c]]
    /\ promised' = [c \in Clients |-> IF c \in gone \cup {k} THEN None ELSE promised[c]]

(* That is what Let does.                                                   *)
LEMMA LetBuckets ==
  ASSUME TypeOK, NEW k \in Clients, Let(k)
  PROVE  \E gone \in SUBSET Clients : LetTo(k, gone)
<1> DEFINE u == tokensOf(k) - Token
           t == Touched(k, u)
           e == [key |-> k, tokens |-> u, updatedAt |-> now]
<1>1. u \in 0 .. Full
  BY TokensOf, BucketsType DEF Let
<1>2. /\ t \in Seq(Bucket) /\ OnePerKey(t)
      /\ Len(t) = IF BucketOf(k) = {} THEN Len(buckets) + 1 ELSE Len(buckets)
      /\ \A i \in DOMAIN t : t[i] = e \/ (t[i].key # k /\ \E j \in DOMAIN buckets : t[i] = buckets[j])
      /\ \E i \in DOMAIN t : t[i].key = k
      /\ \A j \in DOMAIN buckets : buckets[j].key # k => \E i \in DOMAIN t : t[i] = buckets[j]
  BY <1>1, TouchedOnes
<1>3. /\ buckets' = IF Len(t) > MaxKeys THEN Tail(t) ELSE t
      /\ served' = [c \in Clients |-> IF c \in (IF Len(t) > MaxKeys THEN {Head(t).key} ELSE {}) THEN <<>>
                                      ELSE IF c = k THEN Append(served[c], ticks)
                                      ELSE served[c]]
      /\ promised' = [c \in Clients |-> IF c \in (IF Len(t) > MaxKeys THEN {Head(t).key} ELSE {}) \cup {k}
                                        THEN None ELSE promised[c]]
  BY DEF Let
<1>4. \A c \in Clients : c = k \/ BucketOf(c) # {} => \E i \in DOMAIN t : t[i].key = c
  BY <1>2 DEF BucketOf
<1>5. Len(buckets) <= MaxKeys /\ Len(buckets) \in Nat /\ MaxKeys \in Nat \ {0}
  BY BucketsType, AdmissionAssumption
<1> HIDE DEF t, u, e
<1>6. Len(t) \in Nat /\ DOMAIN t = 1 .. Len(t) /\ \A i \in DOMAIN t : t[i] \in Bucket /\ t[i].key \in Clients
  <2>1. Len(t) \in Nat /\ DOMAIN t = 1 .. Len(t) /\ \A i \in DOMAIN t : t[i] \in Bucket
    BY <1>2
  <2> QED
    BY <2>1 DEF Bucket
<1>7. CASE Len(t) > MaxKeys
  <2>1. /\ Tail(t) \in Seq(Bucket) /\ Len(Tail(t)) = Len(t) - 1 /\ Head(t) = t[1]
        /\ \A i \in 1 .. Len(t) - 1 : Tail(t)[i] = t[i + 1]
    BY <1>2, <1>5, <1>6, <1>7
  <2>2. /\ buckets' \in Seq(Bucket) /\ Len(buckets') = Len(t) - 1 /\ DOMAIN buckets' = 1 .. Len(t) - 1
        /\ \A i \in 1 .. Len(t) - 1 : i + 1 \in DOMAIN t /\ i + 1 # 1 /\ buckets'[i] = t[i + 1]
    BY <1>3, <1>6, <1>7, <2>1
  <2>3. 1 \in DOMAIN t /\ t[1].key \in Clients
    BY <1>5, <1>6, <1>7
  <2>4. Len(buckets') <= MaxKeys
    BY <1>2, <1>5, <2>2
  <2>5. OnePerKey(buckets')
    <3> SUFFICES ASSUME NEW i \in 1 .. Len(t) - 1, NEW j \in 1 .. Len(t) - 1,
                        buckets'[i].key = buckets'[j].key
                 PROVE  i = j
      BY <2>2 DEF OnePerKey
    <3>1. i + 1 \in DOMAIN t /\ j + 1 \in DOMAIN t /\ t[i + 1].key = t[j + 1].key
      BY <2>2
    <3>2. i + 1 = j + 1
      BY <1>2, <3>1 DEF OnePerKey
    <3> QED
      BY <3>2, <1>6
  <2>6. \A i \in DOMAIN buckets' : buckets'[i].key # t[1].key
    BY <1>2, <2>2, <2>3 DEF OnePerKey
  <2>7. ASSUME NEW i \in DOMAIN t, t[i].key # t[1].key
        PROVE  \E x \in DOMAIN buckets' : buckets'[x] = t[i]
    <3>1. i # 1 /\ i - 1 \in 1 .. Len(t) - 1 /\ (i - 1) + 1 = i
      BY <1>6, <2>7
    <3> QED
      BY <2>2, <3>1
  <2>8. \A c \in Clients \ {t[1].key} : c = k \/ BucketOf(c) # {} =>
            \E i \in DOMAIN buckets' : buckets'[i].key = c
    BY <1>4, <2>7
  <2>9. \A i \in DOMAIN buckets' :
            buckets'[i] = e \/ (buckets'[i].key # k /\ \E j \in DOMAIN buckets : buckets'[i] = buckets[j])
    BY <1>2, <2>2
  <2>10. /\ served' = [c \in Clients |-> IF c \in {t[1].key} THEN <<>>
                                         ELSE IF c = k THEN Append(served[c], ticks) ELSE served[c]]
         /\ promised' = [c \in Clients |-> IF c \in {t[1].key} \cup {k} THEN None ELSE promised[c]]
    BY <1>3, <1>7, <2>1
  <2>11. {t[1].key} \in SUBSET Clients /\ \A i \in DOMAIN buckets' : buckets'[i].key \notin {t[1].key}
    BY <2>3, <2>6
  <2> QED
    BY <2>2, <2>4, <2>5, <2>8, <2>9, <2>10, <2>11 DEF e, u, LetTo
<1>8. CASE ~(Len(t) > MaxKeys)
  <2>1. buckets' = t /\ Len(t) <= MaxKeys
    BY <1>3, <1>5, <1>6, <1>8
  <2>2. /\ \A i \in DOMAIN buckets' :
              buckets'[i] = e \/ (buckets'[i].key # k /\ \E j \in DOMAIN buckets : buckets'[i] = buckets[j])
        /\ \A c \in Clients : c = k \/ BucketOf(c) # {} => \E i \in DOMAIN buckets' : buckets'[i].key = c
    BY <1>2, <1>4, <2>1
  <2>3. /\ served' = [c \in Clients |-> IF c \in {} THEN <<>>
                                        ELSE IF c = k THEN Append(served[c], ticks) ELSE served[c]]
        /\ promised' = [c \in Clients |-> IF c \in {} \cup {k} THEN None ELSE promised[c]]
    BY <1>3, <1>8
  <2> QED
    BY <1>2, <2>1, <2>2, <2>3 DEF e, u, LetTo
<1> QED
  BY <1>7, <1>8

(* A request refused: the client's bucket is the newest, brought up to date. *)
LEMMA LimitedBuckets ==
  ASSUME TypeOK, NEW k \in Clients, Limited(k)
  PROVE  /\ buckets' \in Seq(Bucket) /\ Len(buckets') <= MaxKeys /\ OnePerKey(buckets')
         /\ \A i \in DOMAIN buckets' :
              \/ buckets'[i] = [key |-> k, tokens |-> tokensOf(k), updatedAt |-> now]
              \/ buckets'[i].key # k /\ \E j \in DOMAIN buckets : buckets'[i] = buckets[j]
         /\ \A c \in Clients : BucketOf(c) # {} => \E i \in DOMAIN buckets' : buckets'[i].key = c
         /\ BucketOf(k) # {} /\ served' = served
         /\ promised' = [promised EXCEPT ![k] = now + waitSeconds(tokensOf(k)) * Second]
<1>1. tokensOf(k) \in 0 .. Full /\ tokensOf(k) < Token
  BY TokensOf DEF Limited
<1>2. BucketOf(k) # {}
  BY <1>1, TokensOf, BucketsType
<1>3. /\ buckets' = Touched(k, tokensOf(k)) /\ served' = served
      /\ promised' = [promised EXCEPT ![k] = now + waitSeconds(tokensOf(k)) * Second]
  BY DEF Limited
<1> DEFINE t == Touched(k, tokensOf(k))
<1>4. /\ t \in Seq(Bucket) /\ OnePerKey(t) /\ Len(t) <= MaxKeys
      /\ \A i \in DOMAIN t : \/ t[i] = [key |-> k, tokens |-> tokensOf(k), updatedAt |-> now]
                             \/ t[i].key # k /\ \E j \in DOMAIN buckets : t[i] = buckets[j]
      /\ \E i \in DOMAIN t : t[i].key = k
      /\ \A j \in DOMAIN buckets : buckets[j].key # k => \E i \in DOMAIN t : t[i] = buckets[j]
  BY <1>1, <1>2, TouchedOnes, BucketsType
<1> HIDE DEF t
<1>5. buckets' = t
  BY <1>3 DEF t
<1>6. \A c \in Clients : BucketOf(c) # {} => \E i \in DOMAIN t : t[i].key = c
  BY <1>4 DEF BucketOf
<1> QED
  BY <1>2, <1>3, <1>4, <1>5, <1>6

(* What the type invariant says of the requests let through.                *)
LEMMA ServedType ==
  ASSUME TypeOK, NEW k \in Clients
  PROVE  /\ served[k] \in Seq(0 .. MaxTicks) /\ Len(served[k]) \in Nat
         /\ DOMAIN served[k] = 1 .. Len(served[k])
         /\ \A j \in DOMAIN served[k] : served[k][j] \in Int
<1>1. served[k] \in Seq(0 .. MaxTicks)
  BY DEF TypeOK
<1>2. Len(served[k]) \in Nat /\ DOMAIN served[k] = 1 .. Len(served[k])
  BY <1>1
<1>3. \A j \in 1 .. Len(served[k]) : served[k][j] \in 0 .. MaxTicks
  BY <1>1, ElementOfSeq
<1> QED
  BY <1>1, <1>2, <1>3

(* A token taken is a request let through now: the client's account stays   *)
(* balanced, and no client's request before it is too close.                *)
LEMMA LetKeepsRate ==
  ASSUME TypeOK, RateInv, RateHeld, NEW k \in Clients, Let(k)
  PROVE  RateInv' /\ RateHeld'
<1>a. PICK gone \in SUBSET Clients : LetTo(k, gone)
  BY LetBuckets
<1>1. /\ \A i \in DOMAIN buckets' :
          /\ buckets'[i].key \notin gone
          /\ \/ buckets'[i] = [key |-> k, tokens |-> tokensOf(k) - Token, updatedAt |-> now]
             \/ buckets'[i].key # k /\ \E j \in DOMAIN buckets : buckets'[i] = buckets[j]
     /\ \A c \in Clients \ gone : c = k \/ BucketOf(c) # {} =>
          \E i \in DOMAIN buckets' : buckets'[i].key = c
  BY <1>a DEF LetTo
<1>b. served' = [c \in Clients |-> IF c \in gone THEN <<>>
                                  ELSE IF c = k THEN Append(served[c], ticks)
                                  ELSE served[c]]
  BY <1>a DEF LetTo
<1>c. \A c \in Clients : /\ c \in gone => served'[c] = <<>>
                         /\ c \notin gone /\ c # k => served'[c] = served[c]
                         /\ c \notin gone /\ c = k => served'[c] = Append(served[c], ticks)
  BY <1>b
<1>2. /\ now' = now /\ ticks' = ticks /\ setBack' = setBack
      /\ now \in Int /\ ticks \in Int /\ setBack \in Nat
      /\ Full \in Nat /\ Token \in Nat /\ Token <= Full
      /\ \A n \in Int : n * Token \in Int /\ (n + 1) * Token = n * Token + Token
  BY ClockType, BucketsType, Units, AdmissionAssumption DEF Let, clock, now
<1>3. tokensOf(k) \in 0 .. Full /\ tokensOf(k) >= Token
  BY TokensOf DEF Let
<1> DEFINE n == Len(served[k])
<1>4. /\ n \in Nat /\ \A j \in 1 .. n : served[k][j] \in Int
      /\ \A j \in 1 .. n : tokensOf(k) + (n - j + 1) * Token <= Full + (ticks - served[k][j]) + setBack
  <2>1. n \in Nat /\ DOMAIN served[k] = 1 .. n /\ \A j \in 1 .. n : served[k][j] \in Int
    BY ServedType
  <2>2. ASSUME NEW j \in 1 .. n
        PROVE  tokensOf(k) + (n - j + 1) * Token <= Full + (ticks - served[k][j]) + setBack
    <3>1. BucketOf(k) # {}
      BY <2>1 DEF RateInv
    <3>2. PICK i \in BucketOf(k) : TRUE
      BY <3>1
    <3> QED
      BY <2>1, <3>2, TokensOf DEF RateInv, Full
  <2> QED
    BY <2>1, <2>2
<1>5. k \notin gone =>
        /\ served'[k] = Append(served[k], ticks) /\ Len(served'[k]) = n + 1
        /\ DOMAIN served'[k] = 1 .. n + 1 /\ served'[k][n + 1] = ticks
        /\ \A j \in 1 .. n : served'[k][j] = served[k][j]
  <2> SUFFICES ASSUME k \notin gone
               PROVE  /\ served'[k] = Append(served[k], ticks) /\ Len(served'[k]) = n + 1
                      /\ DOMAIN served'[k] = 1 .. n + 1 /\ served'[k][n + 1] = ticks
                      /\ \A j \in 1 .. n : served'[k][j] = served[k][j]
    OBVIOUS
  <2>1. served'[k] = Append(served[k], ticks)
    BY <1>c
  <2>2. served[k] \in Seq(0 .. MaxTicks)
    BY ServedType
  <2> QED
    BY <1>4, <2>1, <2>2
<1> HIDE DEF n
<1>6. 1 * Token = Token /\ \A j \in 1 .. n : ((n + 1) - j + 1) * Token = (n - j + 1) * Token + Token
  BY <1>2, <1>4
<1>7. \A j \in 1 .. n + 1 : j \in 1 .. n \/ j = n + 1
  BY <1>4
<1>8. ASSUME NEW c \in Clients, BucketOf(c)' = {}
      PROVE  served'[c] = <<>>
  <2>1. \A i \in DOMAIN buckets' : buckets'[i].key # c
    BY <1>8 DEF BucketOf
  <2>2. CASE c \in gone
    BY <1>c, <2>2
  <2>3. CASE c \notin gone
    <3>1. c # k /\ BucketOf(c) = {}
      BY <1>1, <2>1, <2>3
    <3> QED
      BY <1>c, <2>3, <3>1 DEF RateInv
  <2> QED
    BY <2>2, <2>3
<1>9. ASSUME NEW c \in Clients, NEW i \in BucketOf(c)', NEW j \in DOMAIN served'[c]
      PROVE  Held(buckets'[i], now') + (Len(served'[c]) - j + 1) * Token
                <= Full + (ticks' - served'[c][j]) + setBack'
  <2>1. i \in DOMAIN buckets' /\ buckets'[i].key = c /\ c \notin gone
    BY <1>1, <1>9 DEF BucketOf
  <2>2. CASE c # k
    <3>1. PICK x \in DOMAIN buckets : buckets'[i] = buckets[x]
      BY <1>1, <2>1, <2>2
    <3>2. x \in BucketOf(c) /\ served'[c] = served[c]
      BY <1>c, <2>1, <2>2, <3>1 DEF BucketOf
    <3> QED
      BY <1>2, <1>9, <3>1, <3>2 DEF RateInv, Full
  <2>3. CASE c = k
    <3>1. buckets'[i] = [key |-> k, tokens |-> tokensOf(k) - Token, updatedAt |-> now]
      BY <1>1, <2>1, <2>3
    <3>2. Held(buckets'[i], now') = tokensOf(k) - Token
      BY <1>2, <1>3, <3>1, HeldNow
    <3>3. CASE j = n + 1
      <4>1. Len(served'[k]) - j + 1 = 1 /\ served'[k][j] = ticks
        BY <1>4, <1>5, <2>1, <2>3, <3>3
      <4> QED
        BY <1>2, <1>3, <1>6, <2>3, <3>2, <4>1
    <3>4. CASE j \in 1 .. n
      <4>1. Len(served'[k]) = n + 1 /\ served'[k][j] = served[k][j]
        BY <1>5, <2>1, <2>3, <3>4
      <4> DEFINE x == (n - j + 1) * Token
      <4>2. x \in Int /\ (Len(served'[k]) - j + 1) * Token = x + Token
        BY <1>2, <1>4, <1>6, <3>4, <4>1
      <4>3. tokensOf(k) + x <= Full + (ticks - served[k][j]) + setBack /\ served[k][j] \in Int
        BY <1>4, <3>4
      <4> HIDE DEF x
      <4>4. tokensOf(k) - Token + (x + Token) <= Full + (ticks - served[k][j]) + setBack
        BY <1>2, <1>3, <4>2, <4>3
      <4> QED
        BY <1>2, <2>3, <3>2, <4>1, <4>2, <4>4
    <3> QED
      BY <1>5, <1>7, <1>9, <2>1, <2>3, <3>3, <3>4
  <2> QED
    BY <2>2, <2>3
<1>10. RateInv'
  BY <1>8, <1>9 DEF RateInv, Full
<1>11. ASSUME NEW c \in Clients, NEW i \in DOMAIN served'[c], NEW j \in DOMAIN served'[c], i <= j
       PROVE  (j - i + 1) * Token <= Full + (served'[c][j] - served'[c][i]) + setBack'
  <2>1. CASE c \in gone
    BY <1>c, <1>11, <2>1
  <2>2. CASE c \notin gone /\ c # k
    <3>1. served'[c] = served[c]
      BY <1>c, <2>2
    <3> QED
      BY <1>2, <1>11, <3>1 DEF RateHeld, Full
  <2>3. CASE c \notin gone /\ c = k
    <3>1. /\ i \in 1 .. n + 1 /\ j \in 1 .. n + 1 /\ served'[k][n + 1] = ticks
          /\ \A x \in 1 .. n : served'[k][x] = served[k][x]
      BY <1>5, <1>11, <2>3
    <3>2. CASE j \in 1 .. n
      <4>1. i \in 1 .. n
        BY <1>4, <1>11, <3>1, <3>2
      <4>2. (j - i + 1) * Token <= Full + (served[k][j] - served[k][i]) + setBack
        BY <1>11, <3>2, <4>1, ServedType DEF RateHeld, Full, n
      <4> QED
        BY <1>2, <2>3, <3>1, <3>2, <4>1, <4>2
    <3>3. CASE j = n + 1 /\ i \in 1 .. n
      <4> DEFINE x == (n - i + 1) * Token
                 y == (j - i + 1) * Token
      <4>1. x \in Int /\ y = x + Token
        BY <1>2, <1>4, <1>6, <3>3
      <4>2. tokensOf(k) + x <= Full + (ticks - served[k][i]) + setBack /\ served[k][i] \in Int
        BY <1>4, <3>3
      <4> HIDE DEF x
      <4>3. x + Token <= Full + (ticks - served[k][i]) + setBack
        BY <1>2, <1>3, <4>1, <4>2
      <4>4. served'[c][j] = ticks /\ served'[c][i] = served[k][i]
        BY <2>3, <3>1, <3>3
      <4>5. y <= Full + (ticks - served[k][i]) + setBack
        BY <4>1, <4>3
      <4> HIDE DEF y
      <4>6. y <= Full + (served'[c][j] - served'[c][i]) + setBack'
        BY <1>2, <4>4, <4>5
      <4> QED
        BY <4>6 DEF y
    <3>4. CASE j = n + 1 /\ i = n + 1
      <4>1. j - i + 1 = 1
        BY <1>4, <3>4
      <4>2. (j - i + 1) * Token = Token
        BY <1>6, <4>1
      <4>3. served'[c][j] - served'[c][i] = 0
        BY <1>2, <2>3, <3>1, <3>4
      <4>4. Token <= Full + 0 + setBack'
        BY <1>2
      <4> QED
        BY <4>2, <4>3, <4>4
    <3> QED
      BY <1>7, <3>1, <3>2, <3>3, <3>4
  <2> QED
    BY <2>1, <2>2, <2>3
<1>12. RateHeld'
  BY <1>11 DEF RateHeld, Full
<1> QED
  BY <1>10, <1>12

(* A promise is forgotten with the bucket it was about, or when it is kept. *)
LEMMA LetKeepsRetry ==
  ASSUME TypeOK, RetryInv, NEW k \in Clients, Let(k)
  PROVE  RetryInv'
<1>a. PICK gone \in SUBSET Clients : LetTo(k, gone)
  BY LetBuckets
<1>1. /\ \A i \in DOMAIN buckets' :
          /\ buckets'[i].key \notin gone
          /\ \/ buckets'[i] = [key |-> k, tokens |-> tokensOf(k) - Token, updatedAt |-> now]
             \/ buckets'[i].key # k /\ \E j \in DOMAIN buckets : buckets'[i] = buckets[j]
     /\ promised' = [c \in Clients |-> IF c \in gone \cup {k} THEN None ELSE promised[c]]
  BY <1>a DEF LetTo
<1> SUFFICES ASSUME NEW c \in Clients, promised'[c] # None, NEW i \in DOMAIN buckets', buckets'[i].key = c
             PROVE  buckets'[i].tokens + (promised'[c] - buckets'[i].updatedAt) >= Token
  BY DEF RetryInv, BucketOf
<1>2. c # k /\ promised'[c] = promised[c]
  BY <1>1
<1>3. PICK j \in DOMAIN buckets : buckets'[i] = buckets[j]
  BY <1>1, <1>2
<1> QED
  BY <1>2, <1>3 DEF RetryInv, BucketOf

(* What a refusal promises is rounded up to a whole token.                  *)
LEMMA LimitedKeepsRetry ==
  ASSUME TypeOK, RetryInv, NEW k \in Clients, Limited(k)
  PROVE  RetryInv' /\ promised' \in [Clients -> Int \cup {None}]
<1>1. /\ \A i \in DOMAIN buckets' :
             \/ buckets'[i] = [key |-> k, tokens |-> tokensOf(k), updatedAt |-> now]
             \/ buckets'[i].key # k /\ \E j \in DOMAIN buckets : buckets'[i] = buckets[j]
      /\ promised' = [promised EXCEPT ![k] = now + waitSeconds(tokensOf(k)) * Second]
  BY LimitedBuckets
<1> DEFINE u == tokensOf(k)
           w == waitSeconds(u) * Second
<1>2. now \in Int /\ u \in Int /\ Token \in Int /\ Second \in Nat \ {0}
  BY ClockType, TokensOf, AdmissionAssumption
<1>3. w \in Int /\ w >= Token - u
  <2> DEFINE s == (Token - u + Second - 1) \div Second
  <2>1. Token - u \in Int
    BY <1>2
  <2> HIDE DEF u
  <2>2. s \in Int /\ s * Second >= Token - u
    BY <1>2, <2>1, RoundedUp
  <2>3. w = (IF s > 1 THEN s ELSE 1) * Second
    BY DEF waitSeconds
  <2> HIDE DEF s
  <2>4. CASE s > 1
    BY <1>2, <2>2, <2>3, <2>4, Units
  <2>5. CASE ~(s > 1)
    <3>1. w = Second
      BY <1>2, <2>3, <2>5
    <3>2. s <= 1
      BY <2>2, <2>5
    <3>3. s * Second <= Second
      BY <1>2, <2>2, <3>2
    <3> QED
      BY <1>2, <2>1, <2>2, <3>1, <3>3
  <2> QED
    BY <2>4, <2>5
<1> HIDE DEF w
<1>4. promised' = [promised EXCEPT ![k] = now + w] /\ promised'[k] = now + w
      /\ promised' \in [Clients -> Int \cup {None}]
  BY <1>1, <1>2, <1>3 DEF w, TypeOK
<1>5. ASSUME NEW c \in Clients, promised'[c] # None, NEW i \in DOMAIN buckets', buckets'[i].key = c
      PROVE  buckets'[i].tokens + (promised'[c] - buckets'[i].updatedAt) >= Token
  <2>1. CASE c = k
    <3>1. buckets'[i].tokens = u /\ buckets'[i].updatedAt = now
      BY <1>1, <1>5, <2>1
    <3> QED
      BY <1>2, <1>3, <1>4, <2>1, <3>1
  <2>2. CASE c # k
    <3>1. PICK j \in DOMAIN buckets : buckets'[i] = buckets[j]
      BY <1>1, <1>5, <2>2
    <3>2. promised'[c] = promised[c]
      BY <1>4, <2>2 DEF TypeOK
    <3> QED
      BY <1>5, <3>1, <3>2 DEF RetryInv, BucketOf
  <2> QED
    BY <2>1, <2>2
<1> QED
  BY <1>4, <1>5 DEF RetryInv, BucketOf

(* A refusal takes nothing from the bucket.                                 *)
LEMMA LimitedKeepsRate ==
  ASSUME TypeOK, RateInv, RateHeld, NEW k \in Clients, Limited(k)
  PROVE  RateInv' /\ RateHeld'
<1>1. /\ \A i \in DOMAIN buckets' :
             \/ buckets'[i] = [key |-> k, tokens |-> tokensOf(k), updatedAt |-> now]
             \/ buckets'[i].key # k /\ \E j \in DOMAIN buckets : buckets'[i] = buckets[j]
      /\ \A c \in Clients : BucketOf(c) # {} => \E i \in DOMAIN buckets' : buckets'[i].key = c
      /\ BucketOf(k) # {} /\ served' = served
  BY LimitedBuckets
<1>2. now' = now /\ ticks' = ticks /\ setBack' = setBack /\ now \in Int
  BY ClockType DEF Limited, clock, now
<1>3. tokensOf(k) \in 0 .. Full
  BY TokensOf
<1>4. ASSUME NEW c \in Clients, BucketOf(c)' = {} PROVE served'[c] = <<>>
  <2>1. BucketOf(c) = {}
    BY <1>1, <1>4 DEF BucketOf
  <2> QED
    BY <1>1, <2>1 DEF RateInv
<1>5. ASSUME NEW c \in Clients, NEW i \in BucketOf(c)'
      PROVE  \E x \in BucketOf(c) : Held(buckets'[i], now') = Held(buckets[x], now)
  <2>1. i \in DOMAIN buckets' /\ buckets'[i].key = c
    BY <1>5 DEF BucketOf
  <2>2. CASE c = k
    <3>1. Held(buckets'[i], now') = tokensOf(k)
      BY <1>1, <1>2, <1>3, <2>1, <2>2, HeldNow
    <3> QED
      BY <1>1, <2>2, <3>1, TokensOf
  <2>3. CASE c # k
    <3>1. PICK x \in DOMAIN buckets : buckets'[i] = buckets[x]
      BY <1>1, <2>1, <2>3
    <3> QED
      BY <1>2, <2>1, <3>1 DEF BucketOf
  <2> QED
    BY <2>2, <2>3
<1>6. RateInv'
  <2>1. ASSUME NEW c \in Clients, NEW i \in BucketOf(c)', NEW j \in DOMAIN served'[c]
        PROVE  Held(buckets'[i], now') + (Len(served'[c]) - j + 1) * Token
                  <= Capacity * Token + (ticks' - served'[c][j]) + setBack'
    <3>1. PICK x \in BucketOf(c) : Held(buckets'[i], now') = Held(buckets[x], now)
      BY <1>5
    <3>2. Held(buckets[x], now) + (Len(served[c]) - j + 1) * Token
             <= Capacity * Token + (ticks - served[c][j]) + setBack
      BY <1>1, <2>1 DEF RateInv
    <3> QED
      BY <1>1, <1>2, <3>1, <3>2
  <2> QED
    BY <1>4, <2>1 DEF RateInv
<1>7. RateHeld'
  BY <1>1, <1>2 DEF RateHeld
<1> QED
  BY <1>6, <1>7

(* A tick refills a unit at most, and is one of time; a clock set back      *)
(* takes nothing away, and may refill again what it had refilled.           *)
LEMMA ClockKeeps ==
  ASSUME TypeOK, RateInv, RateHeld, RetryInv, Tick \/ SetBack
  PROVE  RateInv' /\ RateHeld' /\ RetryInv'
<1>1. UNCHANGED <<buckets, served>>
  BY DEF Tick, SetBack, limiter
<1>2. /\ now \in Int /\ ticks \in Int /\ setBack \in Nat
      /\ \/ now' = now + 1 /\ ticks' = ticks + 1 /\ setBack' = setBack
         \/ now' = now - 1 /\ ticks' = ticks /\ setBack' = setBack + 1
  BY ClockType DEF Tick, SetBack, now
<1>3. ASSUME NEW c \in Clients, NEW i \in BucketOf(c), NEW j \in DOMAIN served[c]
      PROVE  Held(buckets[i], now') + (Len(served[c]) - j + 1) * Token
                <= Capacity * Token + (ticks' - served[c][j]) + setBack'
  <2> DEFINE x == (Len(served[c]) - j + 1) * Token
             h == Held(buckets[i], now)
             h2 == Held(buckets[i], now')
  <2>1. h + x <= Full + (ticks - served[c][j]) + setBack
    BY <1>3 DEF RateInv, Full
  <2>2. buckets[i] \in Bucket
    BY <1>3, BucketsType DEF BucketOf
  <2>3. h \in 0 .. Full /\ h2 \in 0 .. Full /\ Full \in Nat
    <3>1. now' \in Int
      BY <1>2
    <3> QED
      BY <1>2, <2>2, <3>1, HeldOnes, BucketsType
  <2>4. (now' = now + 1 => h2 <= h + 1) /\ (now' = now - 1 => h2 <= h)
    BY <1>2, <2>2, HeldOnes
  <2>5. x \in Int /\ served[c][j] \in Int
    <3>1. Len(served[c]) - j + 1 \in Int
      BY <1>3, ServedType
    <3> QED
      BY <1>3, <3>1, ServedType, Units, AdmissionAssumption
  <2> HIDE DEF x, h, h2
  <2>6. h2 + x <= Full + (ticks' - served[c][j]) + setBack'
    BY <1>2, <2>1, <2>3, <2>4, <2>5
  <2> QED
    BY <2>6 DEF x, h2, Full
<1>4. RateInv'
  BY <1>1, <1>3 DEF RateInv, BucketOf
<1>5. RateHeld'
  <2>1. ASSUME NEW c \in Clients, NEW i \in DOMAIN served[c], NEW j \in DOMAIN served[c], i <= j
        PROVE  (j - i + 1) * Token <= Capacity * Token + (served[c][j] - served[c][i]) + setBack'
    <3> DEFINE x == (j - i + 1) * Token
    <3>1. x <= Full + (served[c][j] - served[c][i]) + setBack
      BY <2>1 DEF RateHeld, Full
    <3>2. x \in Int /\ served[c][j] \in Int /\ served[c][i] \in Int /\ Full \in Nat
      <4>1. j - i + 1 \in Int
        BY <2>1, ServedType
      <4> QED
        BY <2>1, <4>1, ServedType, BucketsType, Units, AdmissionAssumption
    <3> HIDE DEF x
    <3>3. x <= Full + (served[c][j] - served[c][i]) + setBack'
      BY <1>2, <3>1, <3>2
    <3> QED
      BY <3>3 DEF x, Full
  <2> QED
    BY <1>1, <2>1 DEF RateHeld
<1>6. RetryInv'
  <2>1. \A c \in Clients : promised'[c] # None => promised[c] # None /\ promised'[c] = promised[c]
    BY DEF Tick, SetBack, limiter
  <2> QED
    BY <1>1, <2>1 DEF RetryInv, BucketOf
<1> QED
  BY <1>4, <1>5, <1>6

(* Signed messages do not touch the limiter.                                *)
LEMMA LimiterStays ==
  ASSUME RateInv, RateHeld, RetryInv, UNCHANGED <<clock, limiter>>
  PROVE  RateInv' /\ RateHeld' /\ RetryInv'
BY DEF RateInv, RateHeld, RetryInv, BucketOf, clock, limiter, now, Held

-----------------------------------------------------------------------------
(* The types.                                                               *)

(* The clock.                                                               *)
LEMMA TypeClock ==
  ASSUME TypeOK, Tick \/ SetBack
  PROVE  TypeOK'
<1>1. ticks' \in 0 .. MaxTicks /\ setBack' \in 0 .. MaxSetBack
  BY AdmissionAssumption DEF TypeOK, Tick, SetBack
<1>2. UNCHANGED <<stamp, seen, passed, buckets, served>>
  BY DEF Tick, SetBack, cache, limiter
<1>3. excused' \subseteq Messages /\ promised' \in [Clients -> Int \cup {None}]
  BY DEF TypeOK, Tick, SetBack, cache, limiter
<1> QED
  BY <1>1, <1>2, <1>3 DEF TypeOK

(* Signed messages.                                                         *)
LEMMA TypeMessages ==
  ASSUME TypeOK, NEW m \in Messages, Sign(m) \/ Claim(m)
  PROVE  TypeOK'
<1>1. CASE Sign(m)
  <2>1. PICK ts \in now - Skew .. now + Skew : stamp' = [stamp EXCEPT ![m] = ts]
    BY <1>1 DEF Sign
  <2>2. ts \in -MaxSetBack - Skew .. MaxTicks + Skew
    BY <2>1, ClockType, AdmissionAssumption DEF Time
  <2>3. stamp' \in [Messages -> (-MaxSetBack - Skew .. MaxTicks + Skew) \cup {None}]
    BY <2>1, <2>2 DEF TypeOK
  <2>4. UNCHANGED <<ticks, setBack, seen, passed, excused, buckets, served, promised>>
    BY <1>1 DEF Sign, clock, limiter
  <2> QED
    BY <2>3, <2>4 DEF TypeOK
<1>2. CASE Claim(m)
  <2>1. /\ seen' \in Seq(Entry) /\ Len(seen') <= MaxEntries /\ Once(seen')
        /\ excused' = excused \cup Dropped
        /\ passed' = passed \/ passed' = [passed EXCEPT ![m] = Append(@, now)]
    BY <1>2, Claimed
  <2>2. excused' \subseteq Messages
    <3>1. \A e \in ToSet(Unexpired) : e.nonce \in Messages
      <4>1. Unexpired \in Seq(Entry)
        BY UnexpiredOnes
      <4>2. \A e \in ToSet(Unexpired) : e \in Entry
        BY <4>1 DEF ToSet
      <4> QED
        BY <4>2 DEF Entry
    <3> QED
      BY <2>1, <3>1 DEF Dropped, TypeOK
  <2>3. passed' \in [Messages -> Seq(Time)]
    <3>1. passed[m] \in Seq(Time) /\ now \in Time
      BY ClockType DEF TypeOK
    <3>2. Append(passed[m], now) \in Seq(Time)
      BY <3>1
    <3> QED
      BY <2>1, <3>2 DEF TypeOK
  <2>4. IsInjective([i \in DOMAIN seen' |-> seen'[i].nonce])
    BY <2>1, OnceIs
  <2>5. UNCHANGED <<ticks, setBack, stamp, buckets, served, promised>>
    BY <1>2 DEF Claim, clock, limiter
  <2> QED
    BY <2>1, <2>2, <2>3, <2>4, <2>5 DEF TypeOK, Entry
<1> QED
  BY <1>1, <1>2

(* The limiter.                                                             *)
LEMMA TypeLimiter ==
  ASSUME TypeOK, RetryInv, NEW k \in Clients, Limited(k) \/ Let(k)
  PROVE  TypeOK'
<1>1. UNCHANGED <<ticks, setBack, stamp, seen, passed, excused>>
  BY DEF Limited, Let, clock, cache
<1>2. buckets' \in Seq(Bucket) /\ Len(buckets') <= MaxKeys /\ OnePerKey(buckets')
  <2>1. CASE Limited(k)
    BY <2>1, LimitedBuckets
  <2>2. CASE Let(k)
    <3>1. PICK gone \in SUBSET Clients : LetTo(k, gone)
      BY <2>2, LetBuckets
    <3> QED
      BY <3>1 DEF LetTo
  <2> QED
    BY <2>1, <2>2
<1>3. IsInjective([i \in DOMAIN buckets' |-> buckets'[i].key])
  BY <1>2, OnePerKeyIs
<1>4. CASE Limited(k)
  BY <1>1, <1>2, <1>3, <1>4, LimitedBuckets, LimitedKeepsRetry DEF TypeOK, Bucket
<1>5. CASE Let(k)
  <2>a. PICK gone \in SUBSET Clients : LetTo(k, gone)
    BY <1>5, LetBuckets
  <2>1. /\ served' = [c \in Clients |-> IF c \in gone THEN <<>>
                                       ELSE IF c = k THEN Append(served[c], ticks)
                                       ELSE served[c]]
       /\ promised' = [c \in Clients |-> IF c \in gone \cup {k} THEN None ELSE promised[c]]
    BY <2>a DEF LetTo
  <2>2. Append(served[k], ticks) \in Seq(0 .. MaxTicks) /\ <<>> \in Seq(0 .. MaxTicks)
    BY ServedType DEF TypeOK
  <2>3. served' \in [Clients -> Seq(0 .. MaxTicks)]
    BY <2>1, <2>2, ServedType
  <2>4. promised' \in [Clients -> Int \cup {None}]
    BY <2>1 DEF TypeOK
  <2> QED
    BY <1>1, <1>2, <1>3, <2>3, <2>4 DEF TypeOK, Bucket
<1> QED
  BY <1>4, <1>5

-----------------------------------------------------------------------------
(* The theorems.                                                            *)

(* Nothing signed, nobody limited.                                          *)
LEMMA InitInv == Init => IInv
<1> SUFFICES ASSUME Init PROVE IInv
  OBVIOUS
<1>1. TypeOK
  <2>1. seen = <<>> /\ buckets = <<>>
    BY DEF Init
  <2>2. IsInjective([i \in DOMAIN seen |-> seen[i].nonce]) /\ IsInjective([i \in DOMAIN buckets |-> buckets[i].key])
    BY <2>1 DEF IsInjective
  <2>3. /\ seen \in Seq([nonce: Messages, at: Time]) /\ Len(seen) <= MaxEntries
        /\ buckets \in Seq([key: Clients, tokens: 0 .. Capacity * Token, updatedAt: Time])
        /\ Len(buckets) <= MaxKeys
    BY <2>1, AdmissionAssumption
  <2> QED
    BY <2>2, <2>3, AdmissionAssumption DEF Init, TypeOK
<1>2. PassInv /\ RetryInv
  BY DEF Init, PassInv, RetryInv
<1>3. \A k \in Clients : served[k] = <<>> /\ BucketOf(k) = {}
  BY DEF Init, BucketOf
<1>4. RateInv /\ RateHeld
  BY <1>3 DEF RateInv, RateHeld
<1> QED
  BY <1>1, <1>2, <1>4 DEF IInv

(* Every step.                                                              *)
LEMMA NextInv == IInv /\ [Next]_vars => IInv'
<1> SUFFICES ASSUME IInv, [Next]_vars PROVE IInv'
  OBVIOUS
<1> USE DEF IInv
<1>1. CASE Tick \/ SetBack
  BY <1>1, TypeClock, OthersPass, ClockKeeps
<1>2. ASSUME NEW m \in Messages, Sign(m) \/ Claim(m) PROVE IInv'
  <2>1. UNCHANGED <<clock, limiter>>
    BY <1>2 DEF Sign, Claim
  <2>2. PassInv'
    BY <1>2, OthersPass, ClaimPasses
  <2> QED
    BY <1>2, <2>1, <2>2, TypeMessages, LimiterStays
<1>3. ASSUME NEW k \in Clients, Limited(k) \/ Let(k) PROVE IInv'
  <2>1. RateInv' /\ RateHeld'
    BY <1>3, LimitedKeepsRate, LetKeepsRate
  <2>2. RetryInv'
    BY <1>3, LimitedKeepsRetry, LetKeepsRetry
  <2>3. TypeOK'
    BY <1>3, TypeLimiter
  <2>4. PassInv'
    BY <1>3, OthersPass
  <2> QED
    BY <2>1, <2>2, <2>3, <2>4
<1>4. CASE UNCHANGED vars
  <2>1. TypeOK'
    BY <1>4 DEF TypeOK, vars, clock, cache, limiter
  <2>2. PassInv'
    BY <1>4, OthersPass
  <2> QED
    BY <1>4, <2>1, <2>2, LimiterStays DEF vars
<1> QED
  BY <1>1, <1>2, <1>3, <1>4 DEF Next

(* The inductive invariant of admission: types, the pass each message's     *)
(* window has room for, and the account of each client's bucket.            *)
THEOREM Inductive == Spec => []IInv
BY InitInv, NextInv, PTL DEF Spec

(* The two maps stay within their caps, with one entry for a key.           *)
THEOREM TypeCorrect == Spec => []TypeOK
<1>1. IInv => TypeOK
  BY DEF IInv
<1> QED
  BY <1>1, Inductive, PTL

(* A signed message passes the nonce cache once; twice only at the two ends *)
(* of its window, since claim forgets a nonce at an age that                *)
(* assertFreshTimestamp still accepts.                                      *)
THEOREM MessagesPassOnce == Spec => []PassedOnce
<1>1. ASSUME IInv PROVE PassedOnce
  <2> SUFFICES ASSUME NEW m \in Messages \ excused, NEW i \in DOMAIN passed[m], NEW j \in DOMAIN passed[m], i < j
               PROVE  passed[m][i] = stamp[m] - Skew /\ passed[m][j] = stamp[m] + Skew
    BY DEF PassedOnce
  <2> DEFINE n == Len(passed[m])
  <2>1. passed[m] \in Seq(Time)
    BY <1>1 DEF IInv, TypeOK
  <2>2. n \in Nat /\ i \in 1 .. n /\ j \in 1 .. n /\ passed[m] # <<>>
    BY <2>1
  <2>3. Passing(m)
    BY <1>1, <2>2 DEF IInv, PassInv
  <2>4. n <= 2 /\ (n = 2 => passed[m][1] = stamp[m] - Skew /\ passed[m][n] = stamp[m] + Skew)
    BY <2>3 DEF Passing
  <2> HIDE DEF n
  <2>5. n = 2 /\ i = 1 /\ j = 2
    BY <2>2, <2>4
  <2> QED
    BY <2>4, <2>5
<1> QED
  BY <1>1, Inductive, PTL

(* rateLimit lets a client through no oftener than its capacity and what    *)
(* time refills allow, however its requests are spread.                     *)
THEOREM RateIsHeld == Spec => []RateHeld
<1>1. IInv => RateHeld
  BY DEF IInv
<1> QED
  BY <1>1, Inductive, PTL

(* Retry-After, rounded up to whole seconds, is long enough for a token.    *)
THEOREM RetryAfterIsEnough == Spec => []RetryAfterSuffices
<1>1. ASSUME IInv PROVE RetryAfterSuffices
  <2> SUFFICES ASSUME NEW k \in Clients, promised[k] # None, now >= promised[k]
               PROVE  tokensOf(k) >= Token
    BY DEF RetryAfterSuffices
  <2>1. TypeOK /\ RetryInv
    BY <1>1 DEF IInv
  <2>2. CASE BucketOf(k) = {}
    BY <2>1, <2>2, TokensOf, BucketsType
  <2>3. CASE BucketOf(k) # {}
    <3>1. PICK i \in BucketOf(k) : TRUE
      BY <2>3
    <3>2. buckets[i].tokens + (promised[k] - buckets[i].updatedAt) >= Token
      BY <2>1, <3>1 DEF RetryInv
    <3>3. buckets[i] \in Bucket /\ now \in Int /\ promised[k] \in Int
      BY <2>1, <3>1, BucketsType, ClockType DEF BucketOf, TypeOK
    <3>4. Held(buckets[i], now) >= Token
      BY <3>2, <3>3, HeldOnes
    <3> QED
      BY <2>1, <3>1, <3>4, TokensOf
  <2> QED
    BY <2>2, <2>3
<1> QED
  BY <1>1, Inductive, PTL
=============================================================================
