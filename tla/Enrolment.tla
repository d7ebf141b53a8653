----------------------------- MODULE Enrolment -----------------------------
(***************************************************************************)
(* How a node stays in the mesh.  The daemon (packages/node-daemon/src)     *)
(* opens its listener, registers, beats until it is stopped and registers  *)
(* again when the gateway has forgotten it; the gateway                     *)
(* (packages/gateway/src/routes/nodes.ts) keeps records in memory, so a    *)
(* restart forgets everything.  A request may time out and still arrive    *)
(* later, or be sent again by someone who has seen it; a registration may  *)
(* be refused; the daemon may crash or be stopped at any point and be      *)
(* started again.                                                          *)
(***************************************************************************)
EXTENDS Naturals, FiniteSets

CONSTANTS
    Nonces,         \* 128-bit random nonces; one is drawn again only when forgotten
    None,
    MaxAttempts,    \* attempts of one registerNode call
    Interval,       \* heartbeatIntervalMs
    MaxBackoff,     \* maxBackoffMs
    ExponentCap,    \* the cap on the backoff's exponent, 16 in the code
    MaxFaults       \* requests that time out or are refused

Answer == {"ok", "unknown", "replay", "refused", "error"}

ASSUME EnrolmentAssumption ==
    /\ IsFiniteSet(Nonces) /\ None \notin Nonces \cup Answer
    /\ {MaxAttempts, Interval} \subseteq Nat \ {0}
    /\ {MaxBackoff, ExponentCap, MaxFaults} \subseteq Nat
    /\ Interval <= MaxBackoff

VARIABLES
    phase,      \* the daemon's process
    listening,  \* its HTTP listener is bound
    timer,      \* the delay the heartbeat timer is armed with, or 0
    streak,     \* consecutiveFailures, up to ExponentCap
    call,       \* what the daemon is awaiting, or Idle
    net,        \* requests on their way to the gateway
    fresh,      \* signed messages whose timestamp is within the accepted skew
    up,         \* the gateway runs
    handling,   \* nonces of registrations in handleRegister, past their claim
    known,      \* the gateway has a record of the node
    stale,      \* and its last sign of life is older than nodeStaleAfterMs
    seen,       \* the gateway's nonce cache
    faults      \* timeouts and refusals so far
daemon == <<phase, listening, timer, streak>>
gateway == <<up, handling, known, stale, seen>>
wire == <<net, fresh>>
vars == <<daemon, call, wire, gateway, faults>>

Phase == {"off", "starting", "running", "stopping"}
Message == [kind: {"register", "beat"}, nonce: Nonces]

(* Nothing awaited.  Otherwise a call is made by the start command or by a  *)
(* beat, and is at the health probe of the snapshot, at the beat's request, *)
(* at a registration request, or asleep before the next attempt.            *)
Idle == [by |-> None, step |-> "idle", attempt |-> 0, nonce |-> None, answer |-> None]
Call == {Idle} \cup [by: {"start", "beat"}, step: {"probe", "beat", "register", "sleep"},
                     attempt: 0 .. MaxAttempts, nonce: Nonces \cup {None},
                     answer: Answer \cup {None}]

Delays == {0} \cup Interval .. MaxBackoff

TypeOK ==
    /\ phase \in Phase /\ listening \in BOOLEAN
    /\ timer \in Delays /\ streak \in 0 .. ExponentCap
    /\ call \in Call /\ net \subseteq Message /\ fresh \subseteq Message
    /\ {up, known, stale} \subseteq BOOLEAN
    /\ handling \subseteq Nonces /\ seen \subseteq Nonces
    /\ faults \in 0 .. MaxFaults

Init ==
    /\ phase = "off" /\ listening = FALSE /\ timer = 0 /\ streak = 0
    /\ call = Idle /\ net = {} /\ fresh = {}
    /\ up = TRUE /\ handling = {} /\ known = FALSE /\ stale = FALSE /\ seen = {}
    /\ faults = 0

-----------------------------------------------------------------------------
(* The daemon.                                                              *)

Carried == {m.nonce : m \in net \cup fresh} \cup handling \cup seen \cup {call.nonce}

(* Mutant of Send: a retry sends the registration of the first attempt.     *)
SendSigned(by, kind, attempt) ==
    \E n \in Nonces :
        /\ IF attempt > 1 THEN n = call.nonce ELSE n \notin Carried
        /\ net' = net \cup {[kind |-> kind, nonce |-> n]}
        /\ fresh' = fresh \cup {[kind |-> kind, nonce |-> n]}
        /\ call' = [by |-> by, step |-> kind, attempt |-> attempt, nonce |-> n, answer |-> None]

(* buildRegistration or sendOnce, and fetch: a fresh nonce and timestamp    *)
(* every time.                                                              *)
Send(by, kind, attempt) ==
    \E n \in Nonces \ Carried :
        /\ net' = net \cup {[kind |-> kind, nonce |-> n]}
        /\ fresh' = fresh \cup {[kind |-> kind, nonce |-> n]}
        /\ call' = [by |-> by, step |-> kind, attempt |-> attempt, nonce |-> n, answer |-> None]

Waiting == call.step \in {"beat", "register"}

(* The interval after a success, a capped exponential after failures.       *)
nextDelayMs(f) ==
    IF f = 0 THEN Interval
    ELSE LET exponential == Interval * 2 ^ f
         IN  IF exponential < MaxBackoff THEN exponential ELSE MaxBackoff

(* What schedule arms the timer with: never less than a millisecond.  The   *)
(* random 20% it adds or takes away is left out.                            *)
jitter(delayMs) == IF delayMs > 1 THEN delayMs ELSE 1

(* The end of sendOnce, and scheduleNext.                                   *)
TickEnds(ok) ==
    /\ streak' = IF ok THEN 0 ELSE IF streak < ExponentCap THEN streak + 1 ELSE streak
    /\ timer' = IF phase = "running" THEN jitter(nextDelayMs(streak')) ELSE 0
    /\ call' = Idle
    /\ UNCHANGED <<phase, listening, wire, gateway, faults>>

(* startCommand: the listener, then the first attempt to register.          *)
Start ==
    /\ phase = "off"
    /\ phase' = "starting" /\ listening' = TRUE
    /\ Send("start", "register", 1)
    /\ UNCHANGED <<timer, streak, gateway, faults>>

(* start --no-register: the listener, and the heartbeat loop at once.       *)
StartUnregistered ==
    /\ phase = "off"
    /\ phase' = "running" /\ listening' = TRUE
    /\ timer' = jitter(Interval) /\ streak' = 0
    /\ UNCHANGED <<call, wire, gateway, faults>>

(* The first registration succeeded: the heartbeat loop starts.             *)
Started ==
    /\ call.by = "start" /\ call.step = "register" /\ call.answer = "ok"
    /\ phase' = "running" /\ listening' = TRUE
    /\ timer' = jitter(Interval) /\ streak' = 0
    /\ call' = Idle
    /\ UNCHANGED <<wire, gateway, faults>>

(* The answers another attempt may change: transport errors, 408, 425, 429  *)
(* and 5xx.                                                                 *)
Retryable == call.answer = "error" /\ call.attempt < MaxAttempts

(* registerNode sleeps, then builds, signs and sends anew.                  *)
Backoff ==
    /\ call.step = "register" /\ Retryable
    /\ call' = [call EXCEPT !.step = "sleep"]
    /\ UNCHANGED <<daemon, wire, gateway, faults>>

Retry ==
    /\ call.step = "sleep"
    /\ Send(call.by, "register", call.attempt + 1)
    /\ UNCHANGED <<daemon, gateway, faults>>

GaveUp ==
    /\ call.step = "register" /\ call.answer \notin {None, "ok"}
    /\ ~Retryable

(* registerNode threw inside startCommand: the listener is closed and the   *)
(* process ends.                                                            *)
StartFails ==
    /\ call.by = "start" /\ GaveUp
    /\ phase' = "off" /\ listening' = FALSE /\ call' = Idle
    /\ UNCHANGED <<timer, streak, wire, gateway, faults>>

(* The timer's callback: tick, whose snapshot first probes the backend.     *)
TimerFires ==
    /\ timer # 0
    /\ timer' = 0
    /\ call' = [Idle EXCEPT !.by = "beat", !.step = "probe"]
    /\ UNCHANGED <<phase, listening, streak, wire, gateway, faults>>

Beat ==
    /\ call.step = "probe"
    /\ Send("beat", "beat", 0)
    /\ UNCHANGED <<daemon, gateway, faults>>

BeatAccepted == call.step = "beat" /\ call.answer = "ok" /\ TickEnds(TRUE)

(* Mutant of BeatUnknown: a 404 is a failure like any other.                *)
UnknownIsFailure == call.step = "beat" /\ call.answer = "unknown" /\ TickEnds(FALSE)

(* 404 or 410: the gateway forgot the node, which registers again.          *)
BeatUnknown ==
    /\ call.step = "beat" /\ call.answer = "unknown"
    /\ Send("beat", "register", 1)
    /\ UNCHANGED <<daemon, gateway, faults>>

BeatFails == call.step = "beat" /\ call.answer \in {"error", "replay"} /\ TickEnds(FALSE)

Reregistered ==
    /\ call.by = "beat" /\ call.step = "register" /\ call.answer = "ok"
    /\ TickEnds(TRUE)

(* Mutant of ReregisterFails: the error escapes the timer's callback.       *)
ReregisterThrows ==
    /\ call.by = "beat" /\ GaveUp
    /\ call' = Idle
    /\ UNCHANGED <<daemon, wire, gateway, faults>>

ReregisterFails == call.by = "beat" /\ GaveUp /\ TickEnds(FALSE)

(* SIGTERM: heartbeat.stop clears the timer.                                *)
Stop ==
    /\ phase = "running"
    /\ phase' = "stopping" /\ timer' = 0
    /\ UNCHANGED <<listening, streak, call, wire, gateway, faults>>

(* Mutant of Stopped: the beat in flight is not awaited.                    *)
StoppedUndrained ==
    /\ phase = "stopping"
    /\ phase' = "off" /\ listening' = FALSE
    /\ UNCHANGED <<timer, streak, call, wire, gateway, faults>>

(* The beat in flight has been drained; the listener is closed.             *)
Stopped ==
    /\ phase = "stopping" /\ call = Idle
    /\ phase' = "off" /\ listening' = FALSE
    /\ UNCHANGED <<timer, streak, call, wire, gateway, faults>>

(* The process dies: a kill, or a signal before its handlers are installed. *)
DaemonDies ==
    /\ phase # "off"
    /\ phase' = "off" /\ listening' = FALSE /\ timer' = 0 /\ streak' = 0
    /\ call' = Idle
    /\ UNCHANGED <<wire, gateway, faults>>

-----------------------------------------------------------------------------
(* The wire.                                                                *)

(* The answer to nonce n reaches the daemon if it still waits for it.       *)
Reply(n, a) ==
    call' = IF call.nonce = n /\ Waiting /\ call.answer = None
            THEN [call EXCEPT !.answer = a] ELSE call

(* The connection is refused.                                               *)
ConnectionFails ==
    /\ Waiting /\ call.answer = None /\ ~up
    /\ call' = [call EXCEPT !.answer = "error"]
    /\ net' = {m \in net : m.nonce # call.nonce}
    /\ UNCHANGED <<daemon, fresh, gateway, faults>>

(* The deadline of the request passes; the request may still arrive.        *)
TimesOut ==
    /\ Waiting /\ call.answer = None /\ up
    /\ faults < MaxFaults /\ faults' = faults + 1
    /\ call' = [call EXCEPT !.answer = "error"]
    /\ UNCHANGED <<daemon, wire, gateway>>

(* Mutant of OutOfDate: no timestamp is ever too old.                       *)
AlwaysFresh(m) == m \in {}

(* A message nobody waits for any more (the deadline of a request is well   *)
(* within the skew) becomes too old for assertFreshTimestamp.               *)
OutOfDate(m) ==
    /\ m \in fresh /\ call.nonce # m.nonce
    /\ fresh' = fresh \ {m}
    /\ UNCHANGED <<daemon, call, net, gateway, faults>>

(* It arrives all the same, and changes nothing.                            *)
TooOld(m) ==
    /\ m \in net \ fresh
    /\ net' = net \ {m}
    /\ UNCHANGED <<daemon, call, fresh, gateway, faults>>

-----------------------------------------------------------------------------
(* The gateway.                                                             *)

(* A fresh message arrives: the daemon's request, or a copy of one that has *)
(* arrived before, whose answer is not for the daemon.                      *)
Received(m) ==
    /\ up /\ m \in fresh
    /\ net' = net \ {m}
    /\ UNCHANGED <<daemon, fresh, up, faults>>
Answered(m, a) == IF m \in net THEN Reply(m.nonce, a) ELSE UNCHANGED call

(* nonces.claim refuses what it remembers.                                  *)
Replayed(m) ==
    /\ Received(m) /\ m.nonce \in seen
    /\ m.kind = "beat" => known
    /\ Answered(m, "replay")
    /\ UNCHANGED <<handling, known, stale, seen>>

(* handleRegister up to its first await: fresh, claimed and verified.       *)
RegisterClaimed(m) ==
    /\ Received(m) /\ m.kind = "register" /\ m.nonce \notin seen
    /\ seen' = seen \cup {m.nonce} /\ handling' = handling \cup {m.nonce}
    /\ UNCHANGED <<call, known, stale>>

(* ... the endpoint and the opt-in are as they should be: upsert.           *)
RegisterStored(n) ==
    /\ n \in handling
    /\ handling' = handling \ {n}
    /\ known' = TRUE /\ stale' = FALSE
    /\ Reply(n, "ok")
    /\ UNCHANGED <<daemon, wire, up, seen, faults>>

(* ... or they are not (a 4xx), or could not be read (a 5xx).               *)
RegisterRefused(n) ==
    /\ n \in handling /\ faults < MaxFaults
    /\ handling' = handling \ {n} /\ faults' = faults + 1
    /\ \E a \in {"refused", "error"} : Reply(n, a)
    /\ UNCHANGED <<daemon, wire, up, known, stale, seen>>

(* handleHeartbeat: an unknown node is told so before anything is claimed.  *)
BeatForgotten(m) ==
    /\ Received(m) /\ m.kind = "beat" /\ ~known
    /\ Answered(m, "unknown")
    /\ UNCHANGED <<handling, known, stale, seen>>

BeatStored(m) ==
    /\ Received(m) /\ m.kind = "beat" /\ known /\ m.nonce \notin seen
    /\ seen' = seen \cup {m.nonce} /\ stale' = FALSE
    /\ Answered(m, "ok")
    /\ UNCHANGED <<handling, known>>

(* No sign of life for nodeStaleAfterMs: select no longer takes the node.   *)
GoStale ==
    /\ known /\ ~stale
    /\ stale' = TRUE
    /\ UNCHANGED <<daemon, call, wire, up, handling, known, seen, faults>>

(* Twice the accepted skew has passed: the cache forgets the nonce.         *)
Forget(n) ==
    /\ n \in seen \ handling /\ \A m \in fresh : m.nonce # n
    /\ seen' = seen \ {n}
    /\ UNCHANGED <<daemon, call, wire, up, handling, known, stale, faults>>

(* The gateway stops, and its connections with it; it comes back with an    *)
(* empty registry and an empty nonce cache.                                 *)
GatewayStops ==
    /\ up /\ up' = FALSE
    /\ net' = {} /\ handling' = {} /\ known' = FALSE /\ stale' = FALSE /\ seen' = {}
    /\ Reply(call.nonce, "error")
    /\ UNCHANGED <<daemon, fresh, faults>>

GatewayStarts ==
    /\ ~up /\ up' = TRUE
    /\ UNCHANGED <<daemon, call, wire, handling, known, stale, seen, faults>>

-----------------------------------------------------------------------------
(* What the daemon does by itself once it has an answer or a timer is due.  *)
DaemonStep ==
    \/ Started \/ Backoff \/ Retry \/ StartFails
    \/ TimerFires \/ Beat \/ BeatAccepted \/ BeatUnknown \/ BeatFails
    \/ Reregistered \/ ReregisterFails \/ Stopped
    \/ ConnectionFails

Delivery == \E m \in fresh : Replayed(m) \/ RegisterClaimed(m) \/ BeatForgotten(m) \/ BeatStored(m)

Handled == \E n \in Nonces : RegisterStored(n) \/ RegisterRefused(n)

Ageing == \E m \in Message : OutOfDate(m) \/ TooOld(m)

Forgetting == \E n \in Nonces : Forget(n)

Next ==
    \/ Start \/ StartUnregistered \/ Stop \/ DaemonDies
    \/ DaemonStep
    \/ TimesOut \/ Ageing
    \/ Delivery \/ Handled \/ GoStale \/ Forgetting
    \/ GatewayStops \/ GatewayStarts

Spec == Init /\ [][Next]_vars

(* Fairness.  Timers fire, awaited calls end (each has a deadline), a       *)
(* request reaches a gateway that runs, its handler ends, time passes.      *)
(* Nothing is assumed of starts, stops, crashes and restarts.               *)
FairSpec ==
    /\ Spec
    /\ WF_vars(DaemonStep) /\ WF_vars(Delivery) /\ WF_vars(Handled)
    /\ WF_vars(GoStale) /\ WF_vars(Ageing) /\ WF_vars(Forgetting)

-----------------------------------------------------------------------------
(* The loop lives as long as the daemon does: while it runs, exactly one of *)
(* a timer and a beat is outstanding, whatever the gateway answered.        *)
(* (heartbeat.ts: "The loop owns exactly one timer at a time".)             *)
LoopAlive ==
    /\ phase = "running" => (timer # 0) # (call # Idle)
    /\ phase = "starting" => timer = 0 /\ call # Idle

(* A daemon that has stopped, or failed to start, leaves nothing behind: no *)
(* listener, no timer, nothing awaited; and one the gateway knows can       *)
(* already answer, since the listener comes up before the registration and  *)
(* goes down after the last beat.                                           *)
CleanEnds ==
    /\ phase = "off" => ~listening /\ timer = 0 /\ call = Idle
    /\ phase # "off" => (known => listening)

(* No request of the daemon is ever refused as a replay, though attempts    *)
(* are repeated after timeouts whose requests did arrive.                   *)
RetryIsNoReplay == call.answer # "replay"

(* A daemon that keeps running while the gateway keeps running is a         *)
(* candidate again and again: it registers anew after a restart, and its    *)
(* beats arrive.                                                            *)
Enrolled == <>[](phase = "running" /\ up) => []<>(known /\ ~stale)

(* A node whose daemon is gone for good is at last not a candidate, though  *)
(* its last requests may still arrive.                                      *)
Retired == <>[](phase = "off") => <>[](~known \/ stale)

=============================================================================
