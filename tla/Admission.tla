----------------------------- MODULE Admission -----------------------------
(***************************************************************************)
(* What the gateway refuses by its clock.  The nonce cache                  *)
(* (packages/gateway/src/services/nonceCache.ts) lets a signed message of a *)
(* node pass once within the timestamps assertFreshTimestamp accepts; the   *)
(* token buckets (packages/gateway/src/middleware/rateLimit.ts) limit each  *)
(* client on the paid path.  The clock is Date.now: it may be set back.     *)
(***************************************************************************)
EXTENDS Integers, Sequences, FiniteSets, SequencesExt

CONSTANTS
    Messages,       \* signed messages, each with a nonce of its own
    Skew,           \* REGISTRATION_MAX_SKEW_MS
    MaxEntries,     \* the cache's cap
    Clients,        \* rate limit keys
    Capacity,       \* tokens of a full bucket
    Token,          \* units of a token: a clock tick refills one unit
    Second,         \* ticks of a second
    MaxKeys,        \* the buckets' cap
    MaxTicks,       \* how long the clock runs
    MaxSetBack,     \* by how much the clock is set back, in total
    None

ASSUME AdmissionAssumption ==
    /\ {Skew, MaxEntries, Capacity, Token, Second, MaxKeys} \subseteq Nat \ {0}
    /\ {MaxTicks, MaxSetBack} \subseteq Nat

VARIABLES
    ticks,      \* time that has really passed
    setBack,    \* ticks the clock has been set back by
    stamp,      \* the timestamp each message was signed with, or None
    seen,       \* NonceCache: [nonce, at] in order of insertion
    passed,     \* the clock at which each message passed, each time
    excused,    \* messages whose nonce the cap has evicted, or that passed before
                \* the clock was set back
    buckets,    \* rateLimit: [key, tokens, updatedAt], least recently used first
    served,     \* when each client was let through, since its bucket was made
    promised    \* when a refused client was told to come back, or None
clock == <<ticks, setBack>>
cache == <<stamp, seen, passed, excused>>
limiter == <<buckets, served, promised>>
vars == <<clock, cache, limiter>>

now == ticks - setBack
Time == -MaxSetBack .. MaxTicks

TypeOK ==
    /\ ticks \in 0 .. MaxTicks /\ setBack \in 0 .. MaxSetBack
    /\ stamp \in [Messages -> (-MaxSetBack - Skew .. MaxTicks + Skew) \cup {None}]
    /\ seen \in Seq([nonce: Messages, at: Time]) /\ Len(seen) <= MaxEntries
    /\ IsInjective([i \in DOMAIN seen |-> seen[i].nonce])
    /\ passed \in [Messages -> Seq(Time)] /\ excused \subseteq Messages
    /\ buckets \in Seq([key: Clients, tokens: 0 .. Capacity * Token, updatedAt: Time])
    /\ Len(buckets) <= MaxKeys
    /\ IsInjective([i \in DOMAIN buckets |-> buckets[i].key])
    /\ served \in [Clients -> Seq(0 .. MaxTicks)]
    /\ promised \in [Clients -> Int \cup {None}]

Init ==
    /\ ticks = 0 /\ setBack = 0
    /\ stamp = [m \in Messages |-> None] /\ seen = <<>>
    /\ passed = [m \in Messages |-> <<>>] /\ excused = {}
    /\ buckets = <<>> /\ served = [k \in Clients |-> <<>>]
    /\ promised = [k \in Clients |-> None]

-----------------------------------------------------------------------------
(* The clock.                                                               *)

Tick ==
    /\ ticks < MaxTicks
    /\ ticks' = ticks + 1
    /\ UNCHANGED <<setBack, cache, limiter>>

SetBack ==
    /\ setBack < MaxSetBack
    /\ setBack' = setBack + 1
    /\ promised' = [k \in Clients |-> None]
    /\ excused' = excused \cup {m \in Messages : passed[m] # <<>>}
    /\ UNCHANGED <<ticks, stamp, seen, passed, buckets, served>>

-----------------------------------------------------------------------------
(* Signed messages.                                                         *)

(* A node signs a message; its clock may differ from the gateway's.         *)
Sign(m) ==
    /\ stamp[m] = None
    /\ \E ts \in now - Skew .. now + Skew : stamp' = [stamp EXCEPT ![m] = ts]
    /\ UNCHANGED <<clock, seen, passed, excused, limiter>>

(* The window is inclusive.                                                 *)
assertFreshTimestamp(ts) == ts - now \in -Skew .. Skew

(* Mutant of ttlMs: the window's half.                                      *)
TtlSkew == Skew

(* Retention: the width of the window.                                      *)
ttlMs == 2 * Skew

Expired(e) == now - e.at >= ttlMs

(* prune: expired entries up to the first that is not, then the oldest of   *)
(* a full cache.                                                            *)
Unexpired ==
    LET kept == {i \in DOMAIN seen : ~Expired(seen[i])}
        first == IF kept = {} THEN Len(seen) + 1 ELSE CHOOSE i \in kept : \A j \in kept : i <= j
    IN  SubSeq(seen, first, Len(seen))

prune == IF Len(Unexpired) >= MaxEntries THEN Tail(Unexpired) ELSE Unexpired

(* claim and what the handlers do next: a nonce the cache still holds is    *)
(* refused, any other is recorded and its message accepted.                 *)
Claim(m) ==
    /\ stamp[m] # None /\ assertFreshTimestamp(stamp[m])
    /\ excused' = excused \cup ({e.nonce : e \in ToSet(Unexpired)} \ {e.nonce : e \in ToSet(prune)})
    /\ LET at == {i \in DOMAIN prune : prune[i].nonce = m}
       IN  IF \E i \in at : ~Expired(prune[i])
           THEN seen' = prune /\ UNCHANGED passed
           ELSE /\ seen' = IF at = {} THEN Append(prune, [nonce |-> m, at |-> now])
                           ELSE [i \in DOMAIN prune |-> IF i \in at THEN [nonce |-> m, at |-> now]
                                                        ELSE prune[i]]
                /\ passed' = IF m \in excused' THEN passed
                             ELSE [passed EXCEPT ![m] = Append(@, now)]
    /\ UNCHANGED <<clock, stamp, limiter>>

-----------------------------------------------------------------------------
(* The rate limiter.                                                        *)

Max0(n) == IF n > 0 THEN n ELSE 0
AtMost(n, cap) == IF n < cap THEN n ELSE cap

(* The units of a bucket now.                                               *)
refill(b) == AtMost(b.tokens + Max0(now - b.updatedAt), Capacity * Token)

BucketOf(k) == {i \in DOMAIN buckets : buckets[i].key = k}

tokensOf(k) ==
    IF BucketOf(k) = {} THEN Capacity * Token
    ELSE refill(buckets[CHOOSE i \in BucketOf(k) : TRUE])

(* A bucket that is used is deleted and set again, so it becomes the newest. *)
Others(k) ==
    IF BucketOf(k) = {} THEN buckets
    ELSE RemoveAt(buckets, CHOOSE i \in BucketOf(k) : TRUE)
Touched(k, units) == Append(Others(k), [key |-> k, tokens |-> units, updatedAt |-> now])

(* Mutant of waitSeconds: rounded down.                                     *)
WaitRoundedDown(units) == LET s == (Token - units) \div Second IN IF s > 1 THEN s ELSE 1

(* Retry-After: whole seconds, rounded up, at least one.                    *)
waitSeconds(units) ==
    LET s == (Token - units + Second - 1) \div Second IN IF s > 1 THEN s ELSE 1

(* Mutant of Limited: what was refilled is credited again at the next       *)
(* request, since updatedAt stays.                                          *)
LimitedUnstamped(k) ==
    /\ tokensOf(k) < Token
    /\ buckets' = [i \in DOMAIN buckets |-> IF i \in BucketOf(k)
                                            THEN [buckets[i] EXCEPT !.tokens = tokensOf(k)]
                                            ELSE buckets[i]]
    /\ promised' = [promised EXCEPT ![k] = now + waitSeconds(tokensOf(k)) * Second]
    /\ UNCHANGED <<clock, cache, served>>

(* Less than a token: 429.                                                  *)
Limited(k) ==
    /\ tokensOf(k) < Token
    /\ buckets' = Touched(k, tokensOf(k))
    /\ promised' = [promised EXCEPT ![k] = now + waitSeconds(tokensOf(k)) * Second]
    /\ UNCHANGED <<clock, cache, served>>

(* A token is taken; past the cap the least recently used bucket goes.      *)
Let(k) ==
    /\ tokensOf(k) >= Token
    /\ LET all == Touched(k, tokensOf(k) - Token)
           gone == IF Len(all) > MaxKeys THEN {Head(all).key} ELSE {}
       IN  /\ buckets' = IF gone = {} THEN all ELSE Tail(all)
           /\ served' = [c \in Clients |-> IF c \in gone THEN <<>>
                                           ELSE IF c = k THEN Append(served[c], ticks)
                                           ELSE served[c]]
           /\ promised' = [c \in Clients |-> IF c \in gone \cup {k} THEN None ELSE promised[c]]
    /\ UNCHANGED <<clock, cache>>

-----------------------------------------------------------------------------
Next ==
    \/ Tick \/ SetBack
    \/ \E m \in Messages : Sign(m) \/ Claim(m)
    \/ \E k \in Clients : Limited(k) \/ Let(k)

Spec == Init /\ [][Next]_vars

-----------------------------------------------------------------------------
(* A message passes once, unless the cap has evicted its nonce or the clock *)
(* has been set back.  What is left is one instant: a message that passed   *)
(* at the very beginning of its window passes again at the very end, where  *)
(* the cache has just forgotten it and its timestamp is just fresh.         *)
PassedOnce ==
    \A m \in Messages \ excused :
        \A i, j \in DOMAIN passed[m] :
            i < j => passed[m][i] = stamp[m] - Skew /\ passed[m][j] = stamp[m] + Skew

(* Between any two requests it let through, a client has had no more than a *)
(* full bucket and what time has refilled, plus what a clock set back can   *)
(* refill twice; however the requests are spread.                           *)
RateHeld ==
    \A k \in Clients : \A i, j \in DOMAIN served[k] :
        i <= j => (j - i + 1) * Token
                    <= Capacity * Token + (served[k][j] - served[k][i]) + setBack

(* A client that comes back when Retry-After says finds a token, if nobody  *)
(* has used its key in between.                                             *)
RetryAfterSuffices ==
    \A k \in Clients : promised[k] # None /\ now >= promised[k] => tokensOf(k) >= Token

=============================================================================
