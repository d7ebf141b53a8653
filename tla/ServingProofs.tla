--------------------------- MODULE ServingProofs ---------------------------
(***************************************************************************)
(* Invariance proofs for the node daemon at work, for every number of      *)
(* connections, callers and probes, every number of permits and chunks and *)
(* every lifetime of the cached health answer.  The invariant has three    *)
(* independent parts: the semaphore, the responses, the health cache.      *)
(***************************************************************************)
EXTENDS Serving, FiniteSetTheorems, SequenceTheorems, TLAPS

Phase == {"idle", "body", "chat", "stream", "waiting", "running"}
HolderPhase == {"body", "chat", "stream", "running"}
Users == Requests \cup Callers

(* The semaphore: the permits taken are those held, each caller that waits  *)
(* stands in the queue once, and no permit is free while one waits.         *)
PermitInv ==
    /\ pc \in [Users -> Phase]
    /\ active \in 0 .. Permits
    /\ waiters \in Seq(Callers) /\ IsInjective(waiters)
    /\ PermitsExact

(* A response: nothing is written before the body has been read; a stream   *)
(* is its head and chunks until its end is written, and a client that is    *)
(* still there has had the head.                                            *)
ResponseOf(r) ==
    LET o == out[r] IN
    /\ pc[r] \in {"body", "chat"} => o = <<>>
    /\ pc[r] = "stream" =>
          /\ o = <<>> => r \notin conn
          /\ o # <<>> => o[1] = "head"
          /\ \A i \in DOMAIN o : o[i] \in {"head", "chunk"}
    /\ Len(o) > 1 => o[1] = "head"
    /\ \A i \in DOMAIN o : o[i] = "DONE" =>
          i = Len(o) /\ (o[i - 1] = "error" <=> backend[r] = "cut")
    /\ o = <<"200">> => backend[r] = "whole"

ResponseInv ==
    /\ listening \in BOOLEAN /\ conn \subseteq Requests
    /\ out \in [Requests -> Seq(Frame)]
    /\ backend \in [Requests -> {"none", "whole", "cut"}]
    /\ \A r \in Requests : ResponseOf(r)

(* The cache: what is cached, and every answer a probe brings, was given by *)
(* the backend within the age it carries.                                   *)
HealthInv ==
    /\ state \in State /\ since \in [State -> Age] /\ since[state] = 0
    /\ probe \in [Probers -> [age : Age, healthy : State \cup {"none", "asked"}]]
    /\ cachedHealth \in [age : Age, healthy : State \cup {"none"}]
    /\ \A p \in Probers : probe[p].healthy \in State => since[probe[p].healthy] <= probe[p].age
    /\ cachedHealth.healthy \in State => since[cachedHealth.healthy] <= cachedHealth.age
    /\ cachedHealth.healthy = "none" => ~Reusable

IInv == PermitInv /\ ResponseInv /\ HealthInv

-----------------------------------------------------------------------------
(* The queue of the semaphore.                                              *)

(* A newcomer at the end of the queue.                                      *)
LEMMA QueueAppend ==
    ASSUME NEW S, NEW s \in Seq(S), IsInjective(s), NEW x \in S, x \notin ToSet(s)
    PROVE  /\ Append(s, x) \in Seq(S) /\ IsInjective(Append(s, x))
           /\ ToSet(Append(s, x)) = ToSet(s) \cup {x}
<1> DEFINE t == Append(s, x)
           n == Len(s)
<1>1. /\ t \in Seq(S) /\ n \in Nat /\ DOMAIN s = 1 .. n /\ DOMAIN t = 1 .. n + 1
      /\ t[n + 1] = x /\ \A i \in 1 .. n : t[i] = s[i]
  OBVIOUS
<1>2. \A i \in 1 .. n : s[i] # x
  BY <1>1 DEF ToSet
<1> HIDE DEF t, n
<1>3. \A i \in 1 .. n + 1 : i \in 1 .. n \/ i = n + 1
  BY <1>1
<1>4. n + 1 \in 1 .. n + 1 /\ \A i \in 1 .. n : i \in 1 .. n + 1
  BY <1>1
<1>5. \A a, b \in 1 .. n : s[a] = s[b] => a = b
  BY <1>1 DEF IsInjective
<1>6. IsInjective(t)
  BY <1>1, <1>2, <1>3, <1>5 DEF IsInjective
<1>7. ToSet(t) = ToSet(s) \cup {x}
  BY <1>1, <1>3, <1>4 DEF ToSet
<1> QED
  BY <1>1, <1>6, <1>7 DEF t

(* indexOf and splice: one entry leaves, wherever it stands.                *)
LEMMA QueueRemove ==
    ASSUME NEW S, NEW s \in Seq(S), IsInjective(s), NEW i \in DOMAIN s
    PROVE  /\ RemoveAt(s, i) \in Seq(S) /\ IsInjective(RemoveAt(s, i))
           /\ ToSet(RemoveAt(s, i)) = ToSet(s) \ {s[i]}
<1> DEFINE t == RemoveAt(s, i)
           n == Len(s)
           u == SubSeq(s, 1, i - 1)
           v == SubSeq(s, i + 1, n)
<1>1. n \in Nat /\ DOMAIN s = 1 .. n /\ i \in 1 .. n
  OBVIOUS
<1>2. /\ u \in Seq(S) /\ Len(u) = i - 1 /\ \A j \in 1 .. i - 1 : u[j] = s[j]
      /\ v \in Seq(S) /\ Len(v) = n - i /\ \A j \in 1 .. n - i : v[j] = s[j + i]
  <2>1. u \in Seq(S) /\ Len(u) = i - 1 /\ \A j \in 1 .. i - 1 : u[j] = s[j]
    BY <1>1
  <2>2. v \in Seq(S) /\ Len(v) = n - i
    BY <1>1
  <2>3. \A j \in 1 .. n - i : v[j] = s[j + i]
    BY <1>1
  <2> QED
    BY <2>1, <2>2, <2>3
<1> HIDE DEF u, v
<1>3. t = u \o v
  BY DEF RemoveAt, u, v
<1> HIDE DEF t, n
<1>4. /\ t \in Seq(S) /\ Len(t) = n - 1
      /\ \A j \in 1 .. n - 1 : t[j] = IF j <= i - 1 THEN u[j] ELSE v[j - (i - 1)]
  <2>1. Len(u) + Len(v) = n - 1
    BY <1>1, <1>2
  <2>2. /\ u \o v \in Seq(S) /\ Len(u \o v) = Len(u) + Len(v)
        /\ \A j \in 1 .. Len(u) + Len(v) :
              (u \o v)[j] = IF j <= Len(u) THEN u[j] ELSE v[j - Len(u)]
    BY <1>2, ConcatProperties
  <2> QED BY <1>2, <1>3, <2>1, <2>2
<1>5. /\ t \in Seq(S) /\ DOMAIN t = 1 .. n - 1
      /\ \A j \in 1 .. n - 1 : t[j] = IF j < i THEN s[j] ELSE s[j + 1]
  <2>1. DOMAIN t = 1 .. n - 1
    BY <1>4
  <2>2. ASSUME NEW j \in 1 .. n - 1, j < i PROVE t[j] = s[j]
    <3>1. j \in 1 .. i - 1 /\ j <= i - 1
      BY <1>1, <2>2
    <3> QED BY <3>1, <1>2, <1>4
  <2>3. ASSUME NEW j \in 1 .. n - 1, ~(j < i) PROVE t[j] = s[j + 1]
    <3>1. j - (i - 1) \in 1 .. n - i /\ (j - (i - 1)) + i = j + 1 /\ ~(j <= i - 1)
      BY <1>1, <2>3
    <3>2. t[j] = v[j - (i - 1)] /\ v[j - (i - 1)] = s[(j - (i - 1)) + i]
      BY <3>1, <1>2, <1>4
    <3> QED BY <3>1, <3>2
  <2> QED BY <1>4, <2>1, <2>2, <2>3
<1>6. \A a, b \in 1 .. n : s[a] = s[b] => a = b
  BY <1>1 DEF IsInjective
<1>7. IsInjective(t)
  BY <1>1, <1>5, <1>6 DEF IsInjective
<1>8. \A j \in 1 .. n - 1 : \E k \in 1 .. n : k # i /\ t[j] = s[k]
  <2> TAKE j \in 1 .. n - 1
  <2>1. j \in 1 .. n /\ j + 1 \in 1 .. n /\ (j < i => j # i) /\ (~(j < i) => j + 1 # i)
    BY <1>1
  <2> QED BY <2>1, <1>5
<1>9. \A j \in 1 .. n : j # i => \E k \in 1 .. n - 1 : t[k] = s[j]
  <2> TAKE j \in 1 .. n
  <2> HAVE j # i
  <2>1. CASE j < i
    BY <2>1, <1>1, <1>5
  <2>2. CASE j > i
    <3>1. j - 1 \in 1 .. n - 1 /\ ~(j - 1 < i) /\ (j - 1) + 1 = j
      BY <2>2, <1>1
    <3> QED BY <3>1, <1>5
  <2> QED BY <2>1, <2>2, <1>1
<1>10. ToSet(t) = ToSet(s) \ {s[i]}
  <2>1. ToSet(t) = {t[j] : j \in 1 .. n - 1} /\ ToSet(s) = {s[k] : k \in 1 .. n}
    BY <1>1, <1>5 DEF ToSet
  <2>2. \A k \in 1 .. n : k # i => s[k] # s[i]
    BY <1>1, <1>6
  <2>3. \A x \in ToSet(t) : x \in ToSet(s) \ {s[i]}
    BY <2>1, <2>2, <1>8
  <2>4. \A x \in ToSet(s) \ {s[i]} : x \in ToSet(t)
    BY <2>1, <1>9
  <2> QED BY <2>3, <2>4
<1> QED
  BY <1>5, <1>7, <1>10 DEF t

(* shift: the head leaves.                                                  *)
LEMMA QueueTail ==
    ASSUME NEW S, NEW s \in Seq(S), IsInjective(s), s # <<>>
    PROVE  /\ Tail(s) \in Seq(S) /\ IsInjective(Tail(s))
           /\ Head(s) \in ToSet(s) /\ Head(s) \in S
           /\ ToSet(Tail(s)) = ToSet(s) \ {Head(s)}
<1>1. Len(s) \in Nat \ {0} /\ DOMAIN s = 1 .. Len(s) /\ Head(s) = s[1]
  OBVIOUS
<1>2. 1 \in DOMAIN s /\ s[1] \in S
  BY <1>1
<1>3. SubSeq(s, 1, 1 - 1) = <<>> /\ SubSeq(s, 2, Len(s)) = Tail(s) /\ Tail(s) \in Seq(S)
  BY <1>1
<1>4. RemoveAt(s, 1) = Tail(s)
  BY <1>3 DEF RemoveAt
<1>5. /\ RemoveAt(s, 1) \in Seq(S) /\ IsInjective(RemoveAt(s, 1))
      /\ ToSet(RemoveAt(s, 1)) = ToSet(s) \ {s[1]}
  BY <1>2, QueueRemove
<1>6. s[1] \in ToSet(s)
  BY <1>2 DEF ToSet
<1> QED
  BY <1>1, <1>2, <1>4, <1>5, <1>6

-----------------------------------------------------------------------------
(* The semaphore.                                                           *)

(* There are finitely many holders of a permit.                             *)
LEMMA HoldersFinite == IsFiniteSet(Holders) /\ Cardinality(Holders) \in Nat
<1>1. Holders \in SUBSET (Requests \cup Callers)
  BY DEF Holders
<1> QED
  BY <1>1, ServingAssumption, FS_Subset, FS_CardinalityType

(* Someone who stops holding a permit, and someone who starts.              *)
LEMMA HoldersLess ==
    ASSUME NEW x \in Holders, Holders' = Holders \ {x}
    PROVE  Cardinality(Holders)' = Cardinality(Holders) - 1 /\ Cardinality(Holders) > 0
<1>1. Holders # {}
  OBVIOUS
<1> QED
  BY <1>1, HoldersFinite, FS_RemoveElement, FS_EmptySet

(* One holder more or less changes the count by one.                        *)
LEMMA HoldersMore ==
    ASSUME NEW x, x \notin Holders, Holders' = Holders \cup {x}
    PROVE  Cardinality(Holders)' = Cardinality(Holders) + 1
  BY HoldersFinite, FS_AddElement

(* Giving a permit back, to the next waiter or to the semaphore.            *)
LEMMA ReleasePermit ==
    ASSUME PermitInv, NEW x \in Users, pc[x] \in HolderPhase, Release(x)
    PROVE  PermitInv'
<1>1. x \in Holders
  BY DEF Holders, HolderPhase, Users
<1>2. CASE waiters = <<>>
  <2>1. active' = active - 1 /\ waiters' = <<>> /\ pc' = [pc EXCEPT ![x] = "idle"]
    BY <1>2 DEF Release
  <2>2. pc' \in [Users -> Phase] /\ Holders' = Holders \ {x}
    BY <2>1 DEF PermitInv, Phase, Holders, Users
  <2>3. Cardinality(Holders)' = Cardinality(Holders) - 1 /\ Cardinality(Holders) > 0
    BY <1>1, <2>2, HoldersLess
  <2>4. active' = Cardinality(Holders)' /\ active' \in 0 .. Permits
    BY <2>1, <2>3, HoldersFinite, ServingAssumption DEF PermitInv, PermitsExact
  <2>5. {c \in Callers : pc'[c] = "waiting"} = {c \in Callers : pc[c] = "waiting"}
    BY <2>1 DEF PermitInv, HolderPhase, Users
  <2> QED BY <1>2, <2>1, <2>2, <2>4, <2>5 DEF PermitInv, PermitsExact
<1>3. CASE waiters # <<>>
  <2> DEFINE h == Head(waiters)
  <2>1. /\ waiters' = Tail(waiters) /\ active' = active
        /\ pc' = [pc EXCEPT ![x] = "idle", ![h] = "running"]
    BY <1>3 DEF Release
  <2>2. /\ waiters' \in Seq(Callers) /\ IsInjective(waiters') /\ h \in Callers
        /\ h \in ToSet(waiters) /\ ToSet(waiters') = ToSet(waiters) \ {h}
    BY <1>3, <2>1, QueueTail DEF PermitInv
  <2> HIDE DEF h
  <2>3. pc[h] = "waiting" /\ h # x
    BY <2>2 DEF PermitInv, PermitsExact, HolderPhase
  <2>4. pc' \in [Users -> Phase] /\ Holders' = (Holders \ {x}) \cup {h}
    BY <2>1, <2>2, <2>3 DEF PermitInv, Phase, Holders, Users
  <2>5. h \notin Holders
    BY <2>3 DEF Holders
  <2>6. Cardinality(Holders)' = Cardinality(Holders)
    <3>1. /\ IsFiniteSet(Holders \ {x}) /\ h \notin Holders \ {x}
          /\ Cardinality(Holders \ {x}) = Cardinality(Holders) - 1
      BY <1>1, <2>5, HoldersFinite, FS_RemoveElement
    <3>2. Cardinality((Holders \ {x}) \cup {h}) = Cardinality(Holders \ {x}) + 1
      BY <3>1, FS_AddElement
    <3> QED BY <2>4, <3>1, <3>2, HoldersFinite
  <2>7. ToSet(waiters') = {c \in Callers : pc'[c] = "waiting"}
    BY <2>1, <2>2, <2>3 DEF PermitInv, PermitsExact, HolderPhase, Users
  <2> QED BY <1>3, <2>1, <2>2, <2>4, <2>6, <2>7 DEF PermitInv, PermitsExact
<1> QED BY <1>2, <1>3

(* A permit is taken only when one is free, so when nobody waits.           *)
LEMMA TakePermit ==
    ASSUME PermitInv, NEW x \in Users, NEW phase \in HolderPhase, pc[x] = "idle", Free,
           active' = active + 1, waiters' = waiters, pc' = [pc EXCEPT ![x] = phase]
    PROVE  PermitInv'
<1>1. x \notin Holders
  BY DEF Holders
<1>2. pc' \in [Users -> Phase] /\ Holders' = Holders \cup {x}
  BY DEF PermitInv, Phase, HolderPhase, Holders, Users
<1>3. Cardinality(Holders)' = Cardinality(Holders) + 1
  BY <1>1, <1>2, HoldersMore
<1>4. active' = Cardinality(Holders)' /\ active' \in 0 .. Permits
  BY <1>3, ServingAssumption DEF PermitInv, PermitsExact, Free
<1>5. waiters = <<>>
  BY ServingAssumption DEF PermitInv, PermitsExact, Free
<1>6. {c \in Callers : pc'[c] = "waiting"} = {c \in Callers : pc[c] = "waiting"}
  BY DEF PermitInv, HolderPhase, Users
<1> QED BY <1>2, <1>4, <1>5, <1>6 DEF PermitInv, PermitsExact

(* A caller goes to the end of the queue only when no permit is free.       *)
LEMMA QueueUp ==
    ASSUME PermitInv, NEW c \in Callers, pc[c] = "idle", ~Free,
           waiters' = Append(waiters, c), active' = active, pc' = [pc EXCEPT ![c] = "waiting"]
    PROVE  PermitInv'
<1>1. c \notin ToSet(waiters)
  BY DEF PermitInv, PermitsExact
<1>2. /\ waiters' \in Seq(Callers) /\ IsInjective(waiters')
      /\ ToSet(waiters') = ToSet(waiters) \cup {c}
  BY <1>1, QueueAppend DEF PermitInv
<1>3. pc' \in [Users -> Phase] /\ Holders' = Holders
  BY DEF PermitInv, Phase, Holders, Users
<1>4. active' = Permits
  BY ServingAssumption DEF PermitInv, Free
<1>5. ToSet(waiters') = {d \in Callers : pc'[d] = "waiting"}
  BY <1>2 DEF PermitInv, PermitsExact, Users
<1> QED BY <1>2, <1>3, <1>4, <1>5 DEF PermitInv, PermitsExact

(* A wait that is aborted leaves the other waiters in the queue.            *)
LEMMA LeaveQueue ==
    ASSUME PermitInv, NEW c \in Callers, AbortWait(c)
    PROVE  PermitInv'
<1>1. PICK i \in DOMAIN waiters : waiters[i] = c /\ waiters' = RemoveAt(waiters, i)
  BY DEF AbortWait
<1>2. /\ waiters' \in Seq(Callers) /\ IsInjective(waiters')
      /\ ToSet(waiters') = ToSet(waiters) \ {c}
  BY <1>1, QueueRemove DEF PermitInv
<1>3. pc[c] = "waiting" /\ pc' = [pc EXCEPT ![c] = "idle"] /\ active' = active
  BY DEF AbortWait
<1>4. pc' \in [Users -> Phase] /\ Holders' = Holders
  BY <1>3 DEF PermitInv, Phase, Holders, Users
<1>5. waiters' # <<>> => waiters # <<>>
  <2> SUFFICES ASSUME waiters = <<>> PROVE FALSE
    OBVIOUS
  <2> QED BY <1>1
<1>6. ToSet(waiters') = {d \in Callers : pc'[d] = "waiting"}
  BY <1>2, <1>3 DEF PermitInv, PermitsExact, Users
<1> QED BY <1>2, <1>3, <1>4, <1>5, <1>6 DEF PermitInv, PermitsExact

(* Steps that neither take, pass on nor give back a permit.                 *)
LEMMA PermitStays ==
    ASSUME PermitInv, UNCHANGED <<pc, active, waiters>>
    PROVE  PermitInv'
  BY DEF PermitInv, PermitsExact, Holders

(* One step of the server or of the semaphore.                              *)
LEMMA PermitServe ==
    ASSUME PermitInv, Serve
    PROVE  PermitInv'
<1>1. ASSUME NEW r \in Requests, Unauthorized(r) \/ NoCapacity(r) \/ Chunk(r) \/ Disconnect(r)
      PROVE PermitInv'
  BY <1>1, PermitStays DEF Unauthorized, NoCapacity, Chunk, Disconnect
<1>2. ASSUME NEW r \in Requests, Admit(r) PROVE PermitInv'
  BY <1>2, TakePermit DEF Admit, Arrives, Users, HolderPhase
<1>3. ASSUME NEW r \in Requests, BodyRead(r) PROVE PermitInv'
  <2>1. PICK phase \in {"chat", "stream"} : pc' = [pc EXCEPT ![r] = phase]
    BY <1>3 DEF BodyRead
  <2>2. pc[r] = "body" /\ active' = active /\ waiters' = waiters
    BY <1>3 DEF BodyRead
  <2>3. pc' \in [Users -> Phase] /\ Holders' = Holders
    BY <2>1, <2>2 DEF PermitInv, Phase, Holders, Users
  <2>4. {c \in Callers : pc'[c] = "waiting"} = {c \in Callers : pc[c] = "waiting"}
    BY <2>1, <2>2 DEF PermitInv, Users
  <2> QED BY <2>2, <2>3, <2>4 DEF PermitInv, PermitsExact
<1>4. ASSUME NEW r \in Requests, BodyRefused(r) \/ ChatAnswers(r) \/ ChatFails(r)
                                 \/ StreamEnds(r) \/ StreamFails(r)
      PROVE PermitInv'
  <2>1. r \in Users /\ pc[r] \in HolderPhase /\ Release(r)
    BY <1>4 DEF Users, HolderPhase, BodyRefused, ChatAnswers, ChatFails, StreamEnds, StreamFails
  <2> QED BY <2>1, ReleasePermit
<1>5. ASSUME NEW c \in Callers, Acquire(c) PROVE PermitInv'
  <2>1. CASE Free
    BY <1>5, <2>1, TakePermit DEF Acquire, Users, HolderPhase
  <2>2. CASE ~Free
    BY <1>5, <2>2, QueueUp DEF Acquire
  <2> QED BY <2>1, <2>2
<1>6. ASSUME NEW c \in Callers, RunEnds(c) PROVE PermitInv'
  BY <1>6, ReleasePermit DEF RunEnds, Users, HolderPhase
<1>7. CASE Listen \/ Close
  BY <1>7, PermitStays DEF Listen, Close
<1> QED
  BY <1>1, <1>2, <1>3, <1>4, <1>5, <1>6, <1>7, LeaveQueue DEF Serve, RequestEnds

-----------------------------------------------------------------------------
(* The responses.                                                           *)

(* What a response's own invariant says does not depend on other requests,  *)
(* and a client that leaves does not disturb it.                            *)
LEMMA ResponseKept ==
    ASSUME NEW r \in Requests, ResponseOf(r), pc'[r] = pc[r], out'[r] = out[r],
           backend'[r] = backend[r], r \in conn' => r \in conn
    PROVE  ResponseOf(r)'
  BY DEF ResponseOf

(* A permit given back moves its holder and a caller, no other request.     *)
LEMMA ReleaseMoves ==
    ASSUME PermitInv, NEW x \in Users, pc[x] \in HolderPhase, Release(x)
    PROVE  /\ pc'[x] = "idle"
           /\ \A r \in Requests \ {x} : pc'[r] = pc[r]
<1>1. CASE waiters = <<>>
  BY <1>1 DEF Release, PermitInv, Users
<1>2. CASE waiters # <<>>
  <2>1. Head(waiters) \in Callers /\ Head(waiters) \in ToSet(waiters)
    BY <1>2, QueueTail DEF PermitInv
  <2>2. Head(waiters) # x
    BY <1>2, <2>1 DEF PermitInv, PermitsExact, HolderPhase
  <2> QED BY <1>2, <2>1, <2>2, ServingAssumption DEF Release, PermitInv, Users
<1> QED BY <1>1, <1>2

(* What is written reaches a connected client and nobody else.              *)
LEMMA WriteEffect ==
    ASSUME ResponseInv, NEW r \in Requests, NEW frames, Write(r, frames)
    PROVE  /\ \A q \in Requests \ {r} : out'[q] = out[q]
           /\ out'[r] = IF r \in conn THEN out[r] \o frames ELSE out[r]
           /\ frames \in Seq(Frame) => out' \in [Requests -> Seq(Frame)]
<1>1. frames \in Seq(Frame) => out[r] \in Seq(Frame) /\ out[r] \o frames \in Seq(Frame)
  BY DEF ResponseInv
<1> QED BY <1>1 DEF Write, ResponseInv

(* One frame more, at the end.                                              *)
LEMMA OneMore ==
    ASSUME NEW S, NEW s \in Seq(S), NEW f \in S
    PROVE  /\ s \o <<f>> \in Seq(S) /\ Len(s \o <<f>>) = Len(s) + 1
           /\ DOMAIN (s \o <<f>>) = 1 .. Len(s) + 1 /\ DOMAIN s = 1 .. Len(s)
           /\ (s \o <<f>>)[Len(s) + 1] = f
           /\ \A i \in 1 .. Len(s) : (s \o <<f>>)[i] = s[i]
  OBVIOUS

(* A response that is a status alone.                                       *)
LEMMA StatusAlone ==
    ASSUME NEW r, NEW status, out'[r] = <<status>>, pc'[r] = "idle", status # "DONE",
           status = "200" => backend'[r] = "whole"
    PROVE  ResponseOf(r)'
<1>1. /\ Len(out'[r]) = 1 /\ DOMAIN out'[r] = {1} /\ out'[r][1] = status
      /\ status # "200" => out'[r] # <<"200">>
  OBVIOUS
<1> QED BY <1>1 DEF ResponseOf

(* A refused body, an answer or a failed call: the status and nothing else. *)
LEMMA OneStatus ==
    ASSUME ResponseInv, NEW r \in Requests, out[r] = <<>>, NEW status \in Frame,
           Write(r, <<status>>), conn' = conn, pc'[r] = "idle", status # "DONE",
           status = "200" => backend'[r] = "whole"
    PROVE  ResponseOf(r)'
<1>1. out'[r] = out[r] \/ out'[r] = out[r] \o <<status>>
  BY WriteEffect
<1>2. <<>> \o <<status>> = <<status>>
  OBVIOUS
<1>3. CASE out'[r] = <<>>
  BY <1>3 DEF ResponseOf
<1>4. CASE out'[r] = <<status>>
  BY <1>4, StatusAlone
<1> QED BY <1>1, <1>2, <1>3, <1>4

(* A stream's next chunk, and its end after a whole or a cut answer.        *)
LEMMA StreamGrows ==
    ASSUME ResponseInv, NEW r \in Requests, pc[r] = "stream", Write(r, <<"chunk">>),
           pc'[r] = "stream", backend'[r] = backend[r], conn' = conn
    PROVE  ResponseOf(r)'
<1>1. ResponseOf(r) /\ out[r] \in Seq(Frame)
  BY DEF ResponseInv
<1>2. CASE r \notin conn
  <2>1. out'[r] = out[r]
    BY <1>2, WriteEffect
  <2> QED BY <1>1, <2>1 DEF ResponseOf
<1>3. CASE r \in conn
  <2> DEFINE o == out[r]
             n == Len(o)
  <2>1. out'[r] = o \o <<"chunk">>
    BY <1>3, WriteEffect
  <2>2. n \in Nat \ {0} /\ o[1] = "head" /\ \A i \in 1 .. n : o[i] \in {"head", "chunk"}
    BY <1>1, <1>3 DEF ResponseOf
  <2>3. /\ Len(out'[r]) = n + 1 /\ DOMAIN out'[r] = 1 .. n + 1
        /\ out'[r][n + 1] = "chunk" /\ \A i \in 1 .. n : out'[r][i] = o[i]
    BY <1>1, <2>1, OneMore DEF Frame
  <2>4. out'[r][1] = "head"
    BY <2>2, <2>3
  <2>5. \A i \in 1 .. n + 1 : out'[r][i] \in {"head", "chunk"}
    BY <2>2, <2>3
  <2>6. out'[r] # <<>> /\ out'[r] # <<"200">>
    BY <2>4, <2>3
  <2> QED BY <2>3, <2>4, <2>5, <2>6 DEF ResponseOf
<1> QED BY <1>2, <1>3

(* A response ends with all its stream said, or says it was cut.            *)
LEMMA StreamIsOver ==
    ASSUME ResponseInv, NEW r \in Requests, pc[r] = "stream", pc'[r] = "idle", conn' = conn,
           \/ Write(r, <<"DONE">>) /\ backend'[r] = "whole"
           \/ Write(r, <<"error", "DONE">>) /\ backend'[r] = "cut"
    PROVE  ResponseOf(r)'
<1>1. ResponseOf(r) /\ out[r] \in Seq(Frame)
  BY DEF ResponseInv
<1> DEFINE o == out[r]
           n == Len(o)
<1>2. \A i \in DOMAIN o : o[i] \in {"head", "chunk"}
  BY <1>1 DEF ResponseOf
<1>3. CASE r \notin conn
  <2>1. out'[r] = o
    BY <1>3, WriteEffect
  <2>2. o # <<"200">>
    BY <1>2
  <2> QED BY <1>1, <1>2, <2>1, <2>2 DEF ResponseOf
<1>4. CASE r \in conn
  <2>1. n \in Nat \ {0} /\ o[1] = "head" /\ DOMAIN o = 1 .. n
    BY <1>1, <1>4 DEF ResponseOf
  <2>2. CASE Write(r, <<"DONE">>) /\ backend'[r] = "whole"
    <3>1. out'[r] = o \o <<"DONE">>
      BY <1>4, <2>2, WriteEffect
    <3>2. /\ Len(out'[r]) = n + 1 /\ DOMAIN out'[r] = 1 .. n + 1
          /\ \A i \in 1 .. n : out'[r][i] = o[i]
      BY <1>1, <3>1, OneMore DEF Frame
    <3>3. out'[r][1] = "head" /\ out'[r] # <<"200">>
      BY <2>1, <3>2
    <3>4. \A i \in 1 .. n : out'[r][i] \in {"head", "chunk"}
      BY <1>2, <2>1, <3>2
    <3>5. out'[r][n] # "error" /\ (n + 1) - 1 = n
      BY <2>1, <3>4
    <3> QED BY <2>1, <2>2, <3>2, <3>3, <3>4, <3>5 DEF ResponseOf
  <2>3. CASE Write(r, <<"error", "DONE">>) /\ backend'[r] = "cut"
    <3>1. out'[r] = o \o <<"error", "DONE">>
      BY <1>4, <2>3, WriteEffect
    <3>2. /\ Len(out'[r]) = n + 2 /\ DOMAIN out'[r] = 1 .. n + 2
          /\ out'[r][n + 1] = "error"
          /\ \A i \in 1 .. n : out'[r][i] = o[i]
      BY <1>1, <3>1 DEF Frame
    <3>3. out'[r][1] = "head" /\ out'[r] # <<"200">>
      BY <2>1, <3>2
    <3>4. \A i \in 1 .. n : out'[r][i] \in {"head", "chunk"}
      BY <1>2, <2>1, <3>2
    <3>5. \A i \in 1 .. n + 2 : out'[r][i] = "DONE" => i = n + 2
      BY <2>1, <3>2, <3>4
    <3>6. out'[r][(n + 2) - 1] = "error"
      BY <2>1, <3>2
    <3> QED BY <2>1, <2>3, <3>2, <3>3, <3>5, <3>6 DEF ResponseOf
  <2> QED BY <2>2, <2>3
<1> QED BY <1>3, <1>4

(* What one request does to its own response, the others are not told of.   *)
LEMMA ResponseStep ==
    ASSUME ResponseInv, NEW r \in Requests, ResponseOf(r)',
           listening' \in BOOLEAN, conn' \subseteq Requests,
           out' \in [Requests -> Seq(Frame)],
           backend' \in [Requests -> {"none", "whole", "cut"}],
           \A q \in Requests \ {r} :
               /\ pc'[q] = pc[q] /\ out'[q] = out[q] /\ backend'[q] = backend[q]
               /\ q \in conn' => q \in conn
    PROVE  ResponseInv'
<1>1. ASSUME NEW q \in Requests \ {r} PROVE ResponseOf(q)'
  BY <1>1, ResponseKept DEF ResponseInv
<1> QED BY <1>1 DEF ResponseInv

(* What is written to a response is a sequence of frames.                   *)
LEMMA FrameSequences ==
    /\ \A f \in Frame : <<f>> \in Seq(Frame)
    /\ \A f, g \in Frame : <<f, g>> \in Seq(Frame)
  OBVIOUS

(* A refusal is a whole answer.                                             *)
LEMMA ResponseRefused ==
    ASSUME ResponseInv, NEW r \in Requests, NEW status \in {"401", "503"},
           pc[r] = "idle", UNCHANGED <<listening, pc, backend>>, conn' = conn \cup {r},
           out' = [out EXCEPT ![r] = <<status>>]
    PROVE  ResponseInv'
<1>1. <<status>> \in Seq(Frame)
  BY FrameSequences DEF Frame
<1>2. /\ out' \in [Requests -> Seq(Frame)] /\ out'[r] = <<status>>
      /\ \A q \in Requests \ {r} : out'[q] = out[q]
  BY <1>1 DEF ResponseInv
<1>3. pc'[r] = "idle" /\ status # "DONE" /\ status # "200"
  OBVIOUS
<1>4. ResponseOf(r)'
  BY <1>2, <1>3, StatusAlone
<1> QED BY <1>2, <1>4, ResponseStep DEF ResponseInv

(* A request arrives with nothing written to it.                            *)
LEMMA ResponseArrival ==
    ASSUME PermitInv, ResponseInv, NEW r \in Requests,
           Unauthorized(r) \/ NoCapacity(r) \/ Admit(r)
    PROVE  ResponseInv'
<1>1. CASE Unauthorized(r)
  BY <1>1, ResponseRefused DEF Unauthorized, Arrives
<1>2. CASE NoCapacity(r)
  BY <1>2, ResponseRefused DEF NoCapacity, Arrives
<1>3. CASE Admit(r)
  <2>1. /\ listening' = listening /\ conn' = conn \cup {r}
        /\ pc' = [pc EXCEPT ![r] = "body"] /\ out' = [out EXCEPT ![r] = <<>>]
        /\ backend' = [backend EXCEPT ![r] = "none"]
    BY <1>3 DEF Admit, Arrives
  <2>2. /\ pc'[r] = "body" /\ out'[r] = <<>>
        /\ out' \in [Requests -> Seq(Frame)] /\ backend' \in [Requests -> {"none", "whole", "cut"}]
        /\ \A q \in Requests \ {r} : pc'[q] = pc[q] /\ out'[q] = out[q] /\ backend'[q] = backend[q]
    BY <2>1 DEF PermitInv, Users, ResponseInv
  <2>3. ResponseOf(r)'
    BY <2>2 DEF ResponseOf
  <2> QED BY <2>1, <2>2, <2>3, ResponseStep DEF ResponseInv
<1> QED BY <1>1, <1>2, <1>3

(* A request that ends: what it wrote, and who was moved by its permit.     *)
LEMMA ResponseEnd ==
    ASSUME PermitInv, ResponseInv, NEW r \in Requests,
           BodyRefused(r) \/ ChatAnswers(r) \/ ChatFails(r) \/ StreamEnds(r) \/ StreamFails(r)
    PROVE  ResponseInv'
<1>1. /\ pc[r] \in {"body", "chat", "stream"} /\ Release(r)
      /\ listening' = listening /\ conn' = conn
      /\ backend' \in [Requests -> {"none", "whole", "cut"}]
      /\ \A q \in Requests \ {r} : backend'[q] = backend[q]
  BY DEF BodyRefused, ChatAnswers, ChatFails, StreamEnds, StreamFails, ResponseInv
<1>2. pc'[r] = "idle" /\ \A q \in Requests \ {r} : pc'[q] = pc[q]
  BY <1>1, ReleaseMoves DEF HolderPhase, Users
<1>3. pc[r] \in {"body", "chat"} => out[r] = <<>>
  BY DEF ResponseInv, ResponseOf
<1>4. PICK frames \in {<<"400">>, <<"200">>, <<"502">>, <<"DONE">>, <<"error", "DONE">>} :
          Write(r, frames)
  BY <1>3 DEF BodyRefused, ChatAnswers, ChatFails, StreamEnds, StreamFails, failInfer
<1>5. frames \in Seq(Frame)
  BY FrameSequences DEF Frame
<1>6. /\ out' \in [Requests -> Seq(Frame)]
      /\ \A q \in Requests \ {r} : out'[q] = out[q]
  BY <1>4, <1>5, WriteEffect
<1>7. ResponseOf(r)'
  <2>1. CASE BodyRefused(r)
    BY <2>1, <1>1, <1>2, <1>3, OneStatus DEF BodyRefused, failInfer, Frame
  <2>2. CASE ChatAnswers(r)
    <3>1. backend'[r] = "whole" /\ Write(r, <<"200">>) /\ pc[r] = "chat"
      BY <2>2 DEF ChatAnswers, ResponseInv
    <3> QED BY <3>1, <1>1, <1>2, <1>3, OneStatus DEF Frame
  <2>3. CASE ChatFails(r)
    BY <2>3, <1>1, <1>2, <1>3, OneStatus DEF ChatFails, failInfer, Frame
  <2>4. CASE StreamEnds(r)
    <3>1. backend'[r] = "whole" /\ Write(r, <<"DONE">>) /\ pc[r] = "stream"
      BY <2>4 DEF StreamEnds, ResponseInv
    <3> QED BY <3>1, <1>1, <1>2, StreamIsOver
  <2>5. CASE StreamFails(r)
    <3>1. backend'[r] = "cut" /\ Write(r, <<"error", "DONE">>) /\ pc[r] = "stream"
      BY <2>5 DEF StreamFails, ResponseInv
    <3> QED BY <3>1, <1>1, <1>2, StreamIsOver
  <2> QED BY <2>1, <2>2, <2>3, <2>4, <2>5
<1> QED BY <1>1, <1>2, <1>6, <1>7, ResponseStep DEF ResponseInv

(* Reading the body writes at most a refusal.                               *)
LEMMA ResponseBodyRead ==
    ASSUME PermitInv, ResponseInv, NEW r \in Requests, BodyRead(r)
    PROVE  ResponseInv'
<1>1. /\ listening' = listening /\ conn' = conn /\ backend' = backend /\ pc[r] = "body"
      /\ \A q \in Requests \ {r} : pc'[q] = pc[q]
  BY DEF BodyRead, PermitInv, Users
<1>2. out[r] = <<>>
  BY <1>1 DEF ResponseInv, ResponseOf
<1>3. CASE pc' = [pc EXCEPT ![r] = "chat"] /\ UNCHANGED out
  <2>1. pc'[r] = "chat"
    BY <1>3 DEF PermitInv, Users
  <2>2. ResponseOf(r)'
    BY <1>2, <1>3, <2>1 DEF ResponseOf
  <2> QED BY <1>1, <1>3, <2>2, ResponseStep DEF ResponseInv
<1>4. CASE pc' = [pc EXCEPT ![r] = "stream"] /\ Write(r, <<"head">>)
  <2>1. pc'[r] = "stream"
    BY <1>4 DEF PermitInv, Users
  <2>2. <<"head">> \in Seq(Frame) /\ <<>> \o <<"head">> = <<"head">>
    BY DEF Frame
  <2>3. /\ out' \in [Requests -> Seq(Frame)]
        /\ \A q \in Requests \ {r} : out'[q] = out[q]
        /\ out'[r] = IF r \in conn THEN <<"head">> ELSE <<>>
    BY <1>2, <1>4, <2>2, WriteEffect
  <2>4. ResponseOf(r)'
    BY <1>1, <2>1, <2>3 DEF ResponseOf
  <2> QED BY <1>1, <2>3, <2>4, ResponseStep DEF ResponseInv
<1> QED BY <1>3, <1>4 DEF BodyRead

(* Chats and streams write what the backend gave, in order.                 *)
LEMMA ResponseServe ==
    ASSUME PermitInv, ResponseInv, Serve
    PROVE  ResponseInv'
<1>1. ASSUME NEW r \in Requests, Chunk(r) PROVE ResponseInv'
  <2>1. /\ pc[r] = "stream" /\ pc' = pc /\ conn' = conn /\ backend' = backend
        /\ listening' = listening /\ Write(r, <<"chunk">>)
    BY <1>1 DEF Chunk
  <2>2. <<"chunk">> \in Seq(Frame)
    BY DEF Frame
  <2>3. /\ out' \in [Requests -> Seq(Frame)]
        /\ \A q \in Requests \ {r} : out'[q] = out[q]
    BY <2>1, <2>2, WriteEffect
  <2>4. ResponseOf(r)'
    BY <2>1, StreamGrows
  <2> QED BY <2>1, <2>3, <2>4, ResponseStep DEF ResponseInv
<1>2. ASSUME UNCHANGED <<out, backend>>, listening' \in BOOLEAN, conn' \subseteq conn,
             \A r \in Requests : pc'[r] = pc[r]
      PROVE  ResponseInv'
  <2>1. ASSUME NEW r \in Requests PROVE ResponseOf(r)'
    BY <1>2, <2>1, ResponseKept DEF ResponseInv
  <2> QED BY <1>2, <2>1 DEF ResponseInv
<1>3. ASSUME NEW r \in Requests, Disconnect(r) PROVE ResponseInv'
  BY <1>2, <1>3 DEF Disconnect, ResponseInv
<1>4. CASE Listen \/ Close
  BY <1>2, <1>4 DEF Listen, Close, ResponseInv
<1>5. ASSUME NEW c \in Callers, Acquire(c) \/ AbortWait(c) \/ RunEnds(c) PROVE ResponseInv'
  <2>1. UNCHANGED <<listening, conn, out, backend>>
    BY <1>5 DEF Acquire, AbortWait, RunEnds
  <2>2. \A r \in Requests : r # c
    BY ServingAssumption
  <2>3. \A r \in Requests : pc'[r] = pc[r]
    <3>1. CASE Acquire(c) \/ AbortWait(c)
      BY <3>1, <2>2 DEF Acquire, AbortWait, PermitInv, Users
    <3>2. CASE RunEnds(c)
      BY <3>2, <2>2, ReleaseMoves DEF RunEnds, HolderPhase, Users
    <3> QED BY <3>1, <3>2, <1>5
  <2> QED BY <1>2, <2>1, <2>3 DEF ResponseInv
<1> QED
  BY <1>1, <1>3, <1>4, <1>5, ResponseArrival, ResponseBodyRead, ResponseEnd DEF Serve, RequestEnds

-----------------------------------------------------------------------------
(* The cached health.                                                       *)

(* A reused answer is one the backend gave within the cache time.           *)
LEMMA HealthNext ==
    ASSUME HealthInv,
           \/ Tick \/ BackendTurns
           \/ \E p \in Probers : ProbeBegins(p) \/ ProbeAnswered(p) \/ ProbeReturns(p)
    PROVE  HealthInv'
<1>1. /\ CacheAge \in Nat \ {0} /\ Age \subseteq Nat
      /\ \A a \in Age : Older(a) \in Age /\ Older(a) >= a
      /\ \A a, b \in Age : a <= b => Older(a) <= Older(b)
  BY ServingAssumption DEF Age, Older
<1>2. CASE Tick
  BY <1>1, <1>2 DEF Tick, HealthInv, Reusable, State
<1>3. CASE BackendTurns
  BY <1>1, <1>3 DEF BackendTurns, HealthInv, Reusable, State, Age
<1>4. ASSUME NEW p \in Probers, ProbeBegins(p) PROVE HealthInv'
  BY <1>1, <1>4 DEF ProbeBegins, HealthInv, Reusable, State, Age
<1>5. ASSUME NEW p \in Probers, ProbeAnswered(p) PROVE HealthInv'
  BY <1>1, <1>5 DEF ProbeAnswered, HealthInv, Reusable, State, Age
<1>6. ASSUME NEW p \in Probers, ProbeReturns(p) PROVE HealthInv'
  BY <1>1, <1>6 DEF ProbeReturns, HealthInv, Reusable, State, Age, NoProbe
<1> QED BY <1>2, <1>3, <1>4, <1>5, <1>6

-----------------------------------------------------------------------------
(* A server that has just opened satisfies the invariant.                   *)
LEMMA InitInv == Init => IInv
<1> SUFFICES ASSUME Init PROVE IInv
  OBVIOUS
<1>1. Holders = {} /\ ToSet(waiters) = {} /\ {c \in Callers : pc[c] = "waiting"} = {}
  BY DEF Init, Holders, ToSet
<1>2. PermitInv
  BY <1>1, FS_EmptySet, ServingAssumption DEF Init, PermitInv, PermitsExact, Users, Phase, IsInjective
<1>3. ResponseInv
  BY DEF Init, ResponseInv, ResponseOf
<1>4. HealthInv
  BY ServingAssumption DEF Init, HealthInv, State, Age, NoProbe, Reusable
<1> QED BY <1>2, <1>3, <1>4 DEF IInv

(* Every step preserves the invariant.                                      *)
LEMMA NextInv == IInv /\ [Next]_vars => IInv'
<1> SUFFICES ASSUME IInv, [Next]_vars PROVE IInv'
  OBVIOUS
<1>1. CASE Serve /\ UNCHANGED probing
  <2>1. HealthInv'
    BY <1>1 DEF IInv, HealthInv, probing, Reusable
  <2> QED BY <1>1, <2>1, PermitServe, ResponseServe DEF IInv
<1>2. ASSUME UNCHANGED serving PROVE PermitInv' /\ ResponseInv'
  <2>1. PermitInv'
    BY <1>2, PermitStays DEF IInv, serving
  <2>2. ASSUME NEW r \in Requests PROVE ResponseOf(r)'
    BY <1>2, <2>2, ResponseKept DEF IInv, ResponseInv, serving
  <2> QED BY <1>2, <2>1, <2>2 DEF IInv, ResponseInv, serving
<1>3. CASE \/ Tick \/ BackendTurns
           \/ \E p \in Probers : ProbeBegins(p) \/ ProbeAnswered(p) \/ ProbeReturns(p)
  <2>1. UNCHANGED serving
    BY <1>3 DEF Tick, BackendTurns, ProbeBegins, ProbeAnswered, ProbeReturns
  <2> QED BY <1>2, <1>3, <2>1, HealthNext DEF IInv
<1>4. CASE UNCHANGED vars
  <2>1. UNCHANGED serving /\ UNCHANGED probing
    BY <1>4 DEF vars
  <2>2. HealthInv'
    BY <2>1 DEF IInv, HealthInv, probing, Reusable
  <2> QED BY <1>2, <2>1, <2>2 DEF IInv
<1> QED BY <1>1, <1>3, <1>4 DEF Next

(* The three parts hold in every state of every behaviour.                  *)
THEOREM Inductive == Spec => []IInv
<1>1. Init => IInv
  BY InitInv
<1>2. IInv /\ [Next]_vars => IInv'
  BY NextInv
<1> QED BY <1>1, <1>2, PTL DEF Spec

(* Every variable keeps its type.                                           *)
THEOREM TypeCorrect == Spec => []TypeOK
<1>1. IInv => TypeOK
  BY DEF IInv, PermitInv, ResponseInv, HealthInv, TypeOK, Users, Phase
<1> QED BY <1>1, Inductive, PTL

(* Semaphore: the permits taken are the work in progress, none is free      *)
(* while someone waits, and the queue is those who wait.                    *)
THEOREM PermitsAreExact == Spec => []PermitsExact
<1>1. IInv => PermitsExact
  BY DEF IInv, PermitInv
<1> QED BY <1>1, Inductive, PTL

(* handleInfer: a success stands only for an answer the backend finished,   *)
(* and a stream that was cut says so before its end.                        *)
THEOREM ResponsesEndHonestly == Spec => []HonestEnd
<1>1. IInv => HonestEnd
  BY DEF IInv, ResponseInv, ResponseOf, HonestEnd
<1> QED BY <1>1, Inductive, PTL

(* healthy(): an answer that is reused is no older than it says.            *)
THEOREM ReusedHealthIsRecent == Spec => []HealthIsRecent
<1>1. IInv => HealthIsRecent
  BY DEF IInv, HealthInv, HealthIsRecent, Reusable
<1> QED BY <1>1, Inductive, PTL
=============================================================================
