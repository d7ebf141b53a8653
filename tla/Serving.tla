------------------------------ MODULE Serving ------------------------------
(***************************************************************************)
(* The node daemon at work: its HTTP server and the semaphore in front of  *)
(* the backend (packages/node-daemon/src/server.ts, semaphore.ts) and the   *)
(* provider that calls it (providers/openai-compatible.ts, sse.ts).  Each   *)
(* action is what runs between two awaits.  A client may hang up at any     *)
(* time, the backend may fail anywhere, the server may be closed.           *)
(***************************************************************************)
EXTENDS Naturals, Sequences, FiniteSets, SequencesExt

CONSTANTS
    Requests,       \* connections, each with one request at a time
    Callers,        \* other users of the semaphore, which wait for a permit
    Probers,        \* calls of healthy(): GET /health, the heartbeat
    Permits,        \* maxConcurrency
    MaxChunks,      \* chunks of one stream
    CacheAge        \* HEALTH_CACHE_MS, in ticks

ASSUME ServingAssumption ==
    /\ IsFiniteSet(Requests \cup Callers) /\ Requests \cap Callers = {}
    /\ Permits \in Nat \ {0} /\ MaxChunks \in Nat /\ CacheAge \in Nat \ {0}

VARIABLES
    listening,  \* the server accepts connections
    conn,       \* the requests whose client is connected
    pc,         \* where each request or caller is
    out,        \* what each response has carried, in order
    backend,    \* how the backend's part of a request went
    active,     \* Semaphore: permits taken
    waiters,    \* Semaphore: callers waiting for one
    state,      \* the backend is up or down
    since,      \* the ticks since it was last up, and last down
    probe,      \* the probes under way: how long ago each began, its answer
    cachedHealth \* the answer reused, and how long ago its probe began
serving == <<listening, conn, pc, out, backend, active, waiters>>
probing == <<state, since, probe, cachedHealth>>
vars == <<serving, probing>>

Age == 0 .. CacheAge      \* CacheAge stands for "that long ago, or longer"
State == {"up", "down"}
NoProbe == [age |-> CacheAge, healthy |-> "none"]

Frame == {"200", "401", "400", "502", "503", "head", "chunk", "error", "DONE"}

TypeOK ==
    /\ listening \in BOOLEAN /\ conn \subseteq Requests
    /\ pc \in [Requests \cup Callers -> {"idle", "body", "chat", "stream", "waiting", "running"}]
    /\ out \in [Requests -> Seq(Frame)]
    /\ backend \in [Requests -> {"none", "whole", "cut"}]
    /\ active \in 0 .. Permits /\ waiters \in Seq(Callers) /\ IsInjective(waiters)
    /\ state \in State /\ since \in [State -> Age] /\ since[state] = 0
    /\ probe \in [Probers -> [age : Age, healthy : State \cup {"none", "asked"}]]
    /\ cachedHealth \in [age : Age, healthy : State \cup {"none"}]

Init ==
    /\ listening = TRUE /\ conn = {}
    /\ pc = [x \in Requests \cup Callers |-> "idle"]
    /\ out = [r \in Requests |-> <<>>]
    /\ backend = [r \in Requests |-> "none"]
    /\ active = 0 /\ waiters = <<>>
    /\ state = "up" /\ since = [s \in State |-> IF s = "up" THEN 0 ELSE CacheAge]
    /\ probe = [p \in Probers |-> NoProbe]
    /\ cachedHealth = NoProbe

-----------------------------------------------------------------------------
(* The semaphore.                                                           *)

Free == active < Permits

(* Mutant of Release: a waiter is left to find the permit by itself.        *)
ReleaseDrops(x) ==
    /\ active' = active - 1 /\ UNCHANGED waiters
    /\ pc' = [pc EXCEPT ![x] = "idle"]

(* The release closure: the permit goes to the next waiter, or back.        *)
Release(x) ==
    IF waiters = <<>>
    THEN /\ active' = active - 1 /\ UNCHANGED waiters
         /\ pc' = [pc EXCEPT ![x] = "idle"]
    ELSE /\ waiters' = Tail(waiters) /\ UNCHANGED active
         /\ pc' = [pc EXCEPT ![x] = "idle", ![Head(waiters)] = "running"]

(* acquire: at once if a permit is free, else at the end of the queue.      *)
Acquire(c) ==
    /\ pc[c] = "idle"
    /\ IF Free
       THEN active' = active + 1 /\ pc' = [pc EXCEPT ![c] = "running"] /\ UNCHANGED waiters
       ELSE waiters' = Append(waiters, c) /\ pc' = [pc EXCEPT ![c] = "waiting"] /\ UNCHANGED active
    /\ UNCHANGED <<listening, conn, out, backend>>

(* The caller's signal aborts: it leaves the queue, wherever it stood.      *)
AbortWait(c) ==
    /\ pc[c] = "waiting"
    /\ \E i \in DOMAIN waiters : waiters[i] = c /\ waiters' = RemoveAt(waiters, i)
    /\ pc' = [pc EXCEPT ![c] = "idle"]
    /\ UNCHANGED <<listening, conn, out, backend, active>>

RunEnds(c) ==
    /\ pc[c] = "running"
    /\ Release(c)
    /\ UNCHANGED <<listening, conn, out, backend>>

-----------------------------------------------------------------------------
(* A request.  What is written after the client has gone goes nowhere.      *)

Write(r, frames) == out' = [out EXCEPT ![r] = IF r \in conn THEN @ \o frames ELSE @]

Arrives(r) == listening /\ pc[r] = "idle" /\ conn' = conn \cup {r} /\ UNCHANGED listening

(* No bearer token, or the wrong one.                                       *)
Unauthorized(r) ==
    /\ Arrives(r)
    /\ out' = [out EXCEPT ![r] = <<"401">>]
    /\ UNCHANGED <<pc, backend, active, waiters>>

(* Admission control comes before the body is read: no permit, 503.         *)
NoCapacity(r) ==
    /\ Arrives(r) /\ ~Free
    /\ out' = [out EXCEPT ![r] = <<"503">>]
    /\ UNCHANGED <<pc, backend, active, waiters>>

Admit(r) ==
    /\ Arrives(r) /\ Free
    /\ active' = active + 1
    /\ pc' = [pc EXCEPT ![r] = "body"]
    /\ out' = [out EXCEPT ![r] = <<>>] /\ backend' = [backend EXCEPT ![r] = "none"]
    /\ UNCHANGED waiters

(* failInfer: nothing follows headers that have been sent.                  *)
failInfer(r, status) == IF out[r] = <<>> THEN Write(r, <<status>>) ELSE UNCHANGED out

(* The body is too large, empty, not JSON, not a request, or breaks off.    *)
BodyRefused(r) ==
    /\ pc[r] = "body"
    /\ failInfer(r, "400")
    /\ Release(r)
    /\ UNCHANGED <<listening, conn, backend>>

BodyRead(r) ==
    /\ pc[r] = "body"
    /\ \/ pc' = [pc EXCEPT ![r] = "chat"] /\ UNCHANGED out
       \/ pc' = [pc EXCEPT ![r] = "stream"] /\ Write(r, <<"head">>)
    /\ UNCHANGED <<listening, conn, backend, active, waiters>>

ChatAnswers(r) ==
    /\ pc[r] = "chat"
    /\ backend' = [backend EXCEPT ![r] = "whole"]
    /\ Write(r, <<"200">>)
    /\ Release(r)
    /\ UNCHANGED <<listening, conn>>

(* Mutant of ChatFails: the permit is released on success only.             *)
ChatFailsHolding(r) ==
    /\ pc[r] = "chat"
    /\ backend' = [backend EXCEPT ![r] = "cut"]
    /\ failInfer(r, "502")
    /\ pc' = [pc EXCEPT ![r] = "idle"]
    /\ UNCHANGED <<listening, conn, active, waiters>>

(* The backend is unreachable, answers an error or nonsense, or the call is *)
(* aborted, by its deadline or because the client has gone.                 *)
ChatFails(r) ==
    /\ pc[r] = "chat"
    /\ backend' = [backend EXCEPT ![r] = "cut"]
    /\ failInfer(r, "502")
    /\ Release(r)
    /\ UNCHANGED <<listening, conn>>

Chunks(r) == Cardinality({i \in DOMAIN out[r] : out[r][i] = "chunk"})

(* One normalised chunk is forwarded.                                       *)
Chunk(r) ==
    /\ pc[r] = "stream" /\ Chunks(r) < MaxChunks
    /\ Write(r, <<"chunk">>)
    /\ UNCHANGED <<listening, conn, pc, backend, active, waiters>>

(* [DONE], or the end of the backend's body.                                *)
StreamEnds(r) ==
    /\ pc[r] = "stream"
    /\ backend' = [backend EXCEPT ![r] = "whole"]
    /\ Write(r, <<"DONE">>)
    /\ Release(r)
    /\ UNCHANGED <<listening, conn>>

(* Mutant of StreamFails: the stream just ends.                             *)
StreamFailsSilently(r) ==
    /\ pc[r] = "stream"
    /\ backend' = [backend EXCEPT ![r] = "cut"]
    /\ Write(r, <<"DONE">>)
    /\ Release(r)
    /\ UNCHANGED <<listening, conn>>

(* The call was refused, a frame is malformed, carries an error or cannot   *)
(* be normalised, the body breaks, or the call is aborted: the failure      *)
(* travels in the stream.                                                   *)
StreamFails(r) ==
    /\ pc[r] = "stream"
    /\ backend' = [backend EXCEPT ![r] = "cut"]
    /\ Write(r, <<"error", "DONE">>)
    /\ Release(r)
    /\ UNCHANGED <<listening, conn>>

(* The client hangs up; the signal reaches the provider, whose call then    *)
(* fails (ChatFails, StreamFails, BodyRefused).                             *)
Disconnect(r) ==
    /\ r \in conn
    /\ conn' = conn \ {r}
    /\ UNCHANGED <<listening, pc, out, backend, active, waiters>>

-----------------------------------------------------------------------------
(* healthy().  Time passes in ticks; the backend comes and goes.            *)

Older(age) == IF age < CacheAge THEN age + 1 ELSE age

Tick ==
    /\ since' = [s \in State |-> IF s = state THEN 0 ELSE Older(since[s])]
    /\ probe' = [p \in Probers |-> [probe[p] EXCEPT !.age = Older(@)]]
    /\ cachedHealth' = [cachedHealth EXCEPT !.age = Older(@)]
    /\ UNCHANGED <<serving, state>>

BackendTurns ==
    /\ state' \in State \ {state}
    /\ since' = [since EXCEPT ![state'] = 0]
    /\ UNCHANGED <<serving, probe, cachedHealth>>

Reusable == cachedHealth.age < CacheAge

(* No recent answer: the caller asks the backend itself.  Nothing keeps     *)
(* two callers from asking at once.                                         *)
ProbeBegins(p) ==
    /\ probe[p] = NoProbe /\ ~Reusable
    /\ probe' = [probe EXCEPT ![p] = [age |-> 0, healthy |-> "asked"]]
    /\ UNCHANGED <<serving, state, since, cachedHealth>>

(* listModels comes back, or throws: health() never does.                   *)
ProbeAnswered(p) ==
    /\ probe[p].healthy = "asked"
    /\ probe' = [probe EXCEPT ![p].healthy = state]
    /\ UNCHANGED <<serving, state, since, cachedHealth>>

(* Mutant of ProbeReturns: the answer is dated by when it came.             *)
ProbeReturnsRedated(p) ==
    /\ probe[p].healthy \in State
    /\ cachedHealth' = [probe[p] EXCEPT !.age = 0]
    /\ probe' = [probe EXCEPT ![p] = NoProbe]
    /\ UNCHANGED <<serving, state, since>>

(* The answer replaces the cached one, dated by when its probe began.       *)
ProbeReturns(p) ==
    /\ probe[p].healthy \in State
    /\ cachedHealth' = probe[p]
    /\ probe' = [probe EXCEPT ![p] = NoProbe]
    /\ UNCHANGED <<serving, state, since>>

-----------------------------------------------------------------------------
Listen ==
    /\ ~listening
    /\ listening' = TRUE
    /\ UNCHANGED <<conn, pc, out, backend, active, waiters>>

(* close destroys every socket, those of running requests too.              *)
Close ==
    /\ listening
    /\ listening' = FALSE /\ conn' = {}
    /\ UNCHANGED <<pc, out, backend, active, waiters>>

RequestEnds(r) ==
    \/ BodyRefused(r) \/ BodyRead(r) \/ ChatAnswers(r) \/ ChatFails(r)
    \/ StreamEnds(r) \/ StreamFails(r)

Serve ==
    \/ \E r \in Requests : \/ Unauthorized(r) \/ NoCapacity(r) \/ Admit(r)
                           \/ RequestEnds(r) \/ Chunk(r) \/ Disconnect(r)
    \/ \E c \in Callers : Acquire(c) \/ AbortWait(c) \/ RunEnds(c)
    \/ Listen \/ Close

Next ==
    \/ Serve /\ UNCHANGED probing
    \/ Tick \/ BackendTurns
    \/ \E p \in Probers : ProbeBegins(p) \/ ProbeAnswered(p) \/ ProbeReturns(p)

Spec == Init /\ [][Next]_vars

(* A body arrives or its connection breaks, a provider call has a deadline, *)
(* a caller's work ends.                                                    *)
FairSpec ==
    /\ Spec
    /\ \A r \in Requests : WF_vars(RequestEnds(r) /\ UNCHANGED probing)
    /\ \A c \in Callers : WF_vars(RunEnds(c) /\ UNCHANGED probing)

-----------------------------------------------------------------------------
Holders == {x \in Requests \cup Callers : pc[x] \in {"body", "chat", "stream", "running"}}

(* The load the node reports, and admits by, is the work in progress: every *)
(* exit of a request and of a caller gives exactly one permit back, and an  *)
(* abandoned wait gives none.  A permit is never idle while someone waits   *)
(* for one, so a request cannot slip in before the queue either.            *)
PermitsExact ==
    /\ active = Cardinality(Holders)
    /\ waiters # <<>> => active = Permits
    /\ ToSet(waiters) = {c \in Callers : pc[c] = "waiting"}

(* Whatever happens in between, a response is one status, or a stream; a    *)
(* success stands only for an answer the backend finished, and a stream     *)
(* that was cut says so before its end.                                     *)
HonestEnd ==
    \A r \in Requests :
        LET o == out[r] IN
        /\ Len(o) > 1 => o[1] = "head"
        /\ \A i \in DOMAIN o : o[i] = "DONE" =>
              i = Len(o) /\ (o[i - 1] = "error" <=> backend[r] = "cut")
        /\ o = <<"200">> => backend[r] = "whole"

(* An answer healthy() reuses is one the backend gave since its probe       *)
(* began, so never older than HEALTH_CACHE_MS, though probes overlap, take  *)
(* longer than the cache lasts and come back in any order.                  *)
HealthIsRecent == Reusable => since[cachedHealth.healthy] <= cachedHealth.age

(* Every admitted request ends and every caller gets its turn, though       *)
(* clients hang up and the server is closed and opened again.               *)
Turns ==
    /\ \A r \in Requests : pc[r] # "idle" ~> pc[r] = "idle"
    /\ \A c \in Callers : pc[c] = "waiting" ~> pc[c] # "waiting"

=============================================================================
