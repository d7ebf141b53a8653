-------------------------- MODULE EnrolmentProofs ---------------------------
(***************************************************************************)
(* Invariance proofs for the daemon's enrolment, for every set of nonces,  *)
(* every interval, backoff and number of attempts, and any number of       *)
(* timeouts, refusals, crashes and restarts.                               *)
(***************************************************************************)
EXTENDS Enrolment, TLAPS

(* What the daemon awaits, with no bound on the attempts.                   *)
Awaited == [by: {"start", "beat"}, step: {"probe", "beat", "register", "sleep"},
            attempt: Nat, nonce: Nonces \cup {None}, answer: Answer \cup {None}]

(* Who owns the daemon's next step, phase by phase: nobody, the start       *)
(* command, the timer or the beat it started.                               *)
LoopInv ==
    /\ phase \in Phase /\ listening = (phase # "off")
    /\ call \in {Idle} \cup Awaited
    /\ phase = "off" => timer = 0 /\ call = Idle
    /\ phase = "starting" => timer = 0 /\ call # Idle
    /\ phase = "running" => (timer # 0) # (call # Idle)
    /\ phase = "stopping" => timer = 0
    /\ call # Idle => (call.by = "start" <=> phase = "starting")
    /\ call.step \in {"probe", "beat"} => call.by = "beat"

(* A message is told from every other by its nonce, and one the gateway has *)
(* claimed is no longer on its way.                                         *)
NonceInv ==
    /\ net \subseteq Message /\ fresh \subseteq Message /\ seen \subseteq Nonces
    /\ \A m1, m2 \in net \cup fresh : m1.nonce = m2.nonce => m1 = m2
    /\ \A m \in net : m.nonce \notin seen
    /\ RetryIsNoReplay

IInv == LoopInv /\ NonceInv

-----------------------------------------------------------------------------
(* The daemon awaits something exactly when it is at some step.             *)
LEMMA AwaitedStep ==
    ASSUME call \in {Idle} \cup Awaited
    PROVE  /\ call # Idle <=> call.step # "idle"
           /\ call # Idle => call \in Awaited
BY DEF Idle, Awaited

(* A delay with its jitter is never the zero of a disarmed timer.           *)
LEMMA JitterArms == ASSUME NEW d PROVE jitter(d) # 0
BY DEF jitter

(* The end of a beat arms the timer of a loop that runs.                    *)
LEMMA TickEndsLoop ==
    ASSUME LoopInv, NEW ok \in BOOLEAN, TickEnds(ok), call.by = "beat", call.step # "idle"
    PROVE  LoopInv'
<1>1. call # Idle /\ phase \in {"running", "stopping"}
  BY AwaitedStep DEF LoopInv, Phase
<1>2. phase' = phase /\ listening' = listening /\ call' = Idle
  BY DEF TickEnds
<1>3. phase = "running" => timer' # 0
  BY JitterArms DEF TickEnds
<1>4. phase # "running" => timer' = 0
  BY DEF TickEnds
<1>5. Idle.step = "idle"
  BY DEF Idle
<1> QED BY <1>1, <1>2, <1>3, <1>4, <1>5 DEF LoopInv

(* A request of a caller that is already at work, or that sets out now.     *)
LEMMA SendAwaits ==
    ASSUME NEW by \in {"start", "beat"}, NEW kind \in {"register", "beat"}, NEW attempt \in Nat,
           Send(by, kind, attempt)
    PROVE  call' \in Awaited /\ call' # Idle /\ call'.by = by /\ call'.step = kind
<1>1. PICK n \in Nonces :
          call' = [by |-> by, step |-> kind, attempt |-> attempt, nonce |-> n, answer |-> None]
  BY DEF Send
<1> QED BY <1>1 DEF Awaited, Idle

(* A beat or a registration sent leaves the loop waiting for its answer.    *)
LEMMA LoopSends ==
    ASSUME LoopInv, NEW attempt \in Nat, NEW kind \in {"register", "beat"},
           call # Idle, Send(call.by, kind, attempt), UNCHANGED daemon,
           kind = "beat" => call.by = "beat"
    PROVE  LoopInv'
<1>1. call.by \in {"start", "beat"}
  BY AwaitedStep DEF LoopInv, Awaited
<1>2. call' \in Awaited /\ call' # Idle /\ call'.by = call.by /\ call'.step = kind
  BY <1>1, SendAwaits
<1>3. phase' = phase /\ listening' = listening /\ timer' = timer
  BY DEF daemon
<1> QED BY <1>2, <1>3 DEF LoopInv

(* An answer, or a pause, changes neither who waits nor that it waits.      *)
LEMMA LoopWaits ==
    ASSUME LoopInv, UNCHANGED daemon,
           call' \in {Idle} \cup Awaited, call' = Idle <=> call = Idle, call'.by = call.by,
           call'.step \in {call.step, "sleep"}
    PROVE  LoopInv'
BY DEF LoopInv, daemon

(* An answer reaches the call that waits for it, or nobody.                 *)
LEMMA LoopAnswered ==
    ASSUME LoopInv, UNCHANGED daemon, NEW a \in Answer,
           \/ call' = call
           \/ Waiting /\ call' = [call EXCEPT !.answer = a]
    PROVE  LoopInv'
<1>1. CASE call' = call
  BY <1>1, LoopWaits DEF LoopInv
<1>2. CASE Waiting /\ call' = [call EXCEPT !.answer = a]
  <2>1. call \in Awaited /\ call.step # "idle"
    BY <1>2, AwaitedStep DEF LoopInv, Waiting
  <2>2. call' \in Awaited /\ call'.step = call.step /\ call'.by = call.by
    BY <1>2, <2>1 DEF Awaited
  <2>3. call' # Idle
    BY <2>1, <2>2 DEF Idle
  <2> QED BY <2>1, <2>2, <2>3, LoopWaits, AwaitedStep DEF LoopInv
<1> QED BY <1>1, <1>2

-----------------------------------------------------------------------------
(* The steps of the daemon's process.                                       *)
LEMMA LoopProcess ==
    ASSUME LoopInv, Start \/ StartUnregistered \/ Started \/ StartFails \/ Stop \/ Stopped \/ DaemonDies
    PROVE  LoopInv'
<1>0. Idle.step = "idle"
  BY DEF Idle
<1>1. CASE Start
  <2>1. phase' = "starting" /\ listening' = TRUE /\ timer' = timer /\ timer = 0
    BY <1>1 DEF Start, LoopInv
  <2>2. call' \in Awaited /\ call' # Idle /\ call'.by = "start" /\ call'.step = "register"
    BY <1>1, SendAwaits DEF Start
  <2> QED BY <2>1, <2>2 DEF LoopInv, Phase
<1>2. CASE StartUnregistered
  <2>1. phase' = "running" /\ listening' = TRUE /\ call' = call /\ call = Idle /\ timer' # 0
    BY <1>2, JitterArms DEF StartUnregistered, LoopInv
  <2> QED BY <1>0, <2>1 DEF LoopInv, Phase
<1>3. CASE Started
  <2>1. phase' = "running" /\ listening' = TRUE /\ call' = Idle /\ timer' # 0
    BY <1>3, JitterArms DEF Started
  <2> QED BY <1>0, <2>1 DEF LoopInv, Phase
<1>4. CASE StartFails
  <2>1. call # Idle /\ call.by = "start"
    BY <1>4, AwaitedStep DEF LoopInv, StartFails, GaveUp
  <2>2. timer' = timer /\ timer = 0
    BY <1>4, <2>1 DEF LoopInv, StartFails
  <2>3. phase' = "off" /\ listening' = FALSE /\ call' = Idle
    BY <1>4 DEF StartFails
  <2> QED BY <1>0, <2>2, <2>3 DEF LoopInv, Phase
<1>5. CASE Stop
  BY <1>5 DEF Stop, LoopInv, Phase
<1>6. CASE Stopped
  BY <1>6 DEF Stopped, LoopInv, Phase
<1>7. CASE DaemonDies
  BY <1>0, <1>7 DEF DaemonDies, LoopInv, Phase
<1> QED BY <1>1, <1>2, <1>3, <1>4, <1>5, <1>6, <1>7

(* The steps of a beat and of a registration.                               *)
LEMMA LoopBeat ==
    ASSUME LoopInv,
           \/ Backoff \/ Retry \/ TimerFires \/ Beat \/ BeatAccepted \/ BeatUnknown \/ BeatFails
           \/ Reregistered \/ ReregisterFails
    PROVE  LoopInv'
<1>0. call.step # "idle" => call \in Awaited /\ call # Idle
  BY AwaitedStep DEF LoopInv
<1>1. CASE Backoff
  <2>1. call \in Awaited /\ call' = [call EXCEPT !.step = "sleep"] /\ UNCHANGED daemon
    BY <1>0, <1>1 DEF Backoff
  <2>2. call' \in Awaited /\ call'.step = "sleep" /\ call'.by = call.by
    BY <2>1 DEF Awaited
  <2>3. call' # Idle /\ call # Idle
    BY <1>0, <1>1, <2>2 DEF Idle, Backoff
  <2> QED BY <2>1, <2>2, <2>3, LoopWaits
<1>2. CASE Retry
  <2>1. call \in Awaited /\ call # Idle
    BY <1>0, <1>2 DEF Retry
  <2>2. call.attempt + 1 \in Nat
    BY <2>1 DEF Awaited
  <2> QED BY <1>2, <2>1, <2>2, LoopSends DEF Retry
<1>3. CASE TimerFires
  <2>1. phase = "running" /\ call = Idle
    BY <1>3 DEF TimerFires, LoopInv, Phase
  <2>2. call' \in Awaited /\ call'.step = "probe" /\ call'.by = "beat"
    BY <1>3 DEF TimerFires, Idle, Awaited
  <2>3. call' # Idle
    BY <2>2 DEF Idle
  <2> QED BY <1>3, <2>1, <2>2, <2>3 DEF TimerFires, LoopInv
<1>4. CASE Beat
  <2>1. call # Idle /\ call.by = "beat"
    BY <1>0, <1>4 DEF Beat, LoopInv
  <2> QED BY <1>4, <2>1, LoopSends DEF Beat
<1>5. CASE BeatUnknown
  <2>1. call # Idle /\ call.by = "beat"
    BY <1>0, <1>5 DEF BeatUnknown, LoopInv
  <2> QED BY <1>5, <2>1, LoopSends DEF BeatUnknown
<1>6. CASE BeatAccepted \/ BeatFails
  <2>1. call.step # "idle" /\ call.by = "beat" /\ (TickEnds(TRUE) \/ TickEnds(FALSE))
    BY <1>6 DEF BeatAccepted, BeatFails, LoopInv
  <2> QED BY <2>1, TickEndsLoop
<1>7. CASE Reregistered \/ ReregisterFails
  <2>1. call.step # "idle" /\ call.by = "beat" /\ (TickEnds(TRUE) \/ TickEnds(FALSE))
    BY <1>7 DEF Reregistered, ReregisterFails, GaveUp
  <2> QED BY <2>1, TickEndsLoop
<1> QED BY <1>1, <1>2, <1>3, <1>4, <1>5, <1>6, <1>7

(* The wire and the gateway touch nothing of the daemon's but the answer it *)
(* waits for.                                                               *)
LEMMA ReplyAnswers ==
    ASSUME NEW n, NEW a, Reply(n, a)
    PROVE  \/ call' = call
           \/ Waiting /\ call' = [call EXCEPT !.answer = a]
BY DEF Reply

(* Neither the wire nor the gateway touches the loop.                       *)
LEMMA LoopWire ==
    ASSUME LoopInv,
           \/ ConnectionFails \/ TimesOut \/ Ageing \/ Delivery \/ Handled \/ GoStale \/ Forgetting
           \/ GatewayStops \/ GatewayStarts \/ UNCHANGED vars
    PROVE  LoopInv'
<1>1. ASSUME UNCHANGED daemon,
             \/ call' = call
             \/ \E a \in Answer : Waiting /\ call' = [call EXCEPT !.answer = a]
      PROVE  LoopInv'
  BY <1>1, LoopAnswered DEF Answer
<1>2. CASE ConnectionFails \/ TimesOut
  BY <1>1, <1>2 DEF ConnectionFails, TimesOut, Answer
<1>3. CASE Ageing \/ GoStale \/ Forgetting \/ GatewayStarts \/ UNCHANGED vars
  BY <1>1, <1>3 DEF Ageing, OutOfDate, TooOld, GoStale, Forgetting, Forget, GatewayStarts, vars
<1>4. CASE Delivery
  <2>1. PICK m \in fresh : Replayed(m) \/ RegisterClaimed(m) \/ BeatForgotten(m) \/ BeatStored(m)
    BY <1>4 DEF Delivery
  <2>2. UNCHANGED daemon
    BY <2>1 DEF Replayed, RegisterClaimed, BeatForgotten, BeatStored, Received
  <2>3. (\E a \in Answer : Reply(m.nonce, a)) \/ call' = call
    BY <2>1 DEF Replayed, RegisterClaimed, BeatForgotten, BeatStored, Answered, Answer
  <2> QED BY <1>1, <2>2, <2>3, ReplyAnswers
<1>5. CASE Handled
  <2>1. PICK n \in Nonces : RegisterStored(n) \/ RegisterRefused(n)
    BY <1>5 DEF Handled
  <2>2. UNCHANGED daemon
    BY <2>1 DEF RegisterStored, RegisterRefused
  <2>3. \E a \in Answer : Reply(n, a)
    BY <2>1 DEF RegisterStored, RegisterRefused, Answer
  <2> QED BY <1>1, <2>2, <2>3, ReplyAnswers
<1>6. CASE GatewayStops
  BY <1>1, <1>6, ReplyAnswers DEF GatewayStops, Answer
<1> QED BY <1>2, <1>3, <1>4, <1>5, <1>6

(* Every step preserves the loop invariant.                                 *)
LEMMA LoopNext == ASSUME LoopInv, [Next]_vars PROVE LoopInv'
BY LoopProcess, LoopBeat, LoopWire DEF Next, DaemonStep

-----------------------------------------------------------------------------
(* Nonces.                                                                  *)

(* Neither no answer nor an idle daemon has been told of a replay.          *)
LEMMA NoReplayToNone == None # "replay" /\ Idle.answer # "replay"
BY EnrolmentAssumption DEF Idle, Answer

(* Messages and claims that go away disturb nothing.                        *)
LEMMA NonceShrinks ==
    ASSUME NonceInv, net' \subseteq net, fresh' \subseteq fresh, seen' \subseteq seen,
           call'.answer # "replay"
    PROVE  NonceInv'
BY DEF NonceInv, RetryIsNoReplay

(* A new message carries a nonce that nobody remembers.                     *)
LEMMA NonceSent ==
    ASSUME NonceInv, NEW by, NEW kind \in {"register", "beat"}, NEW attempt,
           Send(by, kind, attempt), seen' = seen
    PROVE  NonceInv'
<1>1. PICK n \in Nonces \ Carried :
          /\ net' = net \cup {[kind |-> kind, nonce |-> n]}
          /\ fresh' = fresh \cup {[kind |-> kind, nonce |-> n]}
          /\ call' = [by |-> by, step |-> kind, attempt |-> attempt, nonce |-> n, answer |-> None]
  BY DEF Send
<1>2. n \notin seen /\ \A m \in net \cup fresh : m.nonce # n
  BY <1>1 DEF Carried
<1> DEFINE new == [kind |-> kind, nonce |-> n]
<1>3. new \in Message /\ new.nonce = n
  BY <1>1 DEF Message
<1>4. net' \subseteq Message /\ fresh' \subseteq Message /\ seen' \subseteq Nonces
  BY <1>1, <1>3 DEF NonceInv
<1>5. ASSUME NEW m1 \in net' \cup fresh', NEW m2 \in net' \cup fresh', m1.nonce = m2.nonce
      PROVE  m1 = m2
  BY <1>1, <1>2, <1>3, <1>5 DEF NonceInv
<1>6. \A m \in net' : m.nonce \notin seen'
  BY <1>1, <1>2, <1>3 DEF NonceInv
<1>7. call'.answer # "replay"
  BY <1>1, NoReplayToNone
<1> QED BY <1>4, <1>5, <1>6, <1>7 DEF NonceInv, RetryIsNoReplay

(* A claim takes its message off the wire, and no other message has that    *)
(* nonce.                                                                   *)
LEMMA NonceClaimed ==
    ASSUME NonceInv, NEW m \in fresh, net' = net \ {m}, fresh' = fresh,
           seen' = seen \cup {m.nonce}, call'.answer # "replay"
    PROVE  NonceInv'
<1>1. m.nonce \in Nonces
  BY DEF NonceInv, Message
<1>2. \A x \in net' : x.nonce \notin seen'
  BY DEF NonceInv
<1> QED BY <1>1, <1>2 DEF NonceInv, RetryIsNoReplay

(* An answer is the one that was sent, or the one before.                   *)
LEMMA AnswerIsGiven ==
    ASSUME LoopInv, NonceInv, NEW a, a # "replay",
           \/ call' = call
           \/ Waiting /\ call' = [call EXCEPT !.answer = a]
    PROVE  call'.answer # "replay"
<1>1. CASE call' = call
  BY <1>1 DEF NonceInv, RetryIsNoReplay
<1>2. CASE Waiting /\ call' = [call EXCEPT !.answer = a]
  <2>1. call \in Awaited
    BY <1>2, AwaitedStep DEF LoopInv, Waiting
  <2> QED BY <1>2, <2>1 DEF Awaited
<1> QED BY <1>1, <1>2

(* What the daemon sends carries a nonce no message or memory has.          *)
LEMMA NonceDaemon ==
    ASSUME LoopInv, NonceInv,
           \/ Start \/ StartUnregistered \/ Stop \/ DaemonDies \/ Started \/ Backoff \/ Retry
           \/ StartFails \/ TimerFires \/ Beat \/ BeatAccepted \/ BeatUnknown \/ BeatFails
           \/ Reregistered \/ ReregisterFails \/ Stopped
    PROVE  NonceInv'
<1>1. CASE Start \/ Retry \/ Beat \/ BeatUnknown
  BY <1>1, NonceSent DEF Start, Retry, Beat, BeatUnknown, gateway
<1>2. ASSUME net' = net, fresh' = fresh, seen' = seen, call'.answer # "replay"
      PROVE  NonceInv'
  BY <1>2, NonceShrinks
<1>3. CASE Backoff
  <2>1. call \in Awaited
    BY <1>3, AwaitedStep DEF LoopInv, Backoff
  <2>2. call'.answer = call.answer
    BY <1>3, <2>1 DEF Backoff, Awaited
  <2> QED BY <1>2, <1>3, <2>2 DEF Backoff, wire, gateway, NonceInv, RetryIsNoReplay
<1>4. CASE TimerFires
  <2>1. call'.answer = None
    BY <1>4 DEF TimerFires, Idle
  <2> QED BY <1>2, <1>4, <2>1, NoReplayToNone DEF TimerFires, wire, gateway
<1>5. CASE BeatAccepted \/ BeatFails \/ Reregistered \/ ReregisterFails
  <2>1. TickEnds(TRUE) \/ TickEnds(FALSE)
    BY <1>5 DEF BeatAccepted, BeatFails, Reregistered, ReregisterFails
  <2> QED BY <1>2, <2>1, NoReplayToNone DEF TickEnds, wire, gateway
<1>6. CASE Started \/ StartFails \/ DaemonDies
  BY <1>2, <1>6, NoReplayToNone DEF Started, StartFails, DaemonDies, wire, gateway
<1>7. CASE StartUnregistered \/ Stop \/ Stopped
  BY <1>2, <1>7 DEF StartUnregistered, Stop, Stopped, wire, gateway, NonceInv, RetryIsNoReplay
<1> QED BY <1>1, <1>3, <1>4, <1>5, <1>6, <1>7

(* A gateway that takes a message remembers its nonce.                      *)
LEMMA NonceDelivery ==
    ASSUME LoopInv, NonceInv, Delivery
    PROVE  NonceInv'
<1>1. PICK m \in fresh : Replayed(m) \/ RegisterClaimed(m) \/ BeatForgotten(m) \/ BeatStored(m)
  BY DEF Delivery
<1>2. net' = net \ {m} /\ fresh' = fresh
  BY <1>1 DEF Replayed, RegisterClaimed, BeatForgotten, BeatStored, Received
<1>3. CASE Replayed(m)
  <2>1. m \notin net
    BY <1>3 DEF Replayed, NonceInv
  <2>2. call' = call /\ seen' = seen
    BY <1>3, <2>1 DEF Replayed, Answered
  <2> QED BY <1>2, <2>2, NonceShrinks DEF NonceInv, RetryIsNoReplay
<1>4. CASE RegisterClaimed(m)
  BY <1>2, <1>4, NonceClaimed DEF RegisterClaimed, NonceInv, RetryIsNoReplay
<1>5. CASE BeatForgotten(m)
  <2>1. seen' = seen /\ (call' = call \/ Reply(m.nonce, "unknown"))
    BY <1>5 DEF BeatForgotten, Answered
  <2>2. call'.answer # "replay"
    BY <2>1, ReplyAnswers, AnswerIsGiven
  <2> QED BY <1>2, <2>1, <2>2, NonceShrinks
<1>6. CASE BeatStored(m)
  <2>1. seen' = seen \cup {m.nonce} /\ (call' = call \/ Reply(m.nonce, "ok"))
    BY <1>6 DEF BeatStored, Answered
  <2>2. call'.answer # "replay"
    BY <2>1, ReplyAnswers, AnswerIsGiven
  <2> QED BY <1>2, <2>1, <2>2, NonceClaimed
<1> QED BY <1>1, <1>3, <1>4, <1>5, <1>6

(* Steps that put nothing on the wire and remember nothing new.             *)
LEMMA NonceOthers ==
    ASSUME LoopInv, NonceInv,
           \/ ConnectionFails \/ TimesOut \/ Ageing \/ Handled \/ GoStale \/ Forgetting
           \/ GatewayStops \/ GatewayStarts \/ UNCHANGED vars
    PROVE  NonceInv'
<1>1. ASSUME net' \subseteq net, fresh' \subseteq fresh, seen' \subseteq seen,
             \/ call' = call
             \/ \E a \in Answer \ {"replay"} : Waiting /\ call' = [call EXCEPT !.answer = a]
      PROVE  NonceInv'
  BY <1>1, AnswerIsGiven, NonceShrinks
<1>2. CASE ConnectionFails \/ TimesOut
  BY <1>1, <1>2 DEF ConnectionFails, TimesOut, Answer, gateway, wire
<1>3. CASE Ageing \/ GoStale \/ Forgetting \/ GatewayStarts \/ UNCHANGED vars
  BY <1>1, <1>3 DEF Ageing, OutOfDate, TooOld, GoStale, Forgetting, Forget, GatewayStarts, vars,
                    gateway, wire
<1>4. CASE Handled
  <2>1. PICK n \in Nonces : RegisterStored(n) \/ RegisterRefused(n)
    BY <1>4 DEF Handled
  <2>2. net' = net /\ fresh' = fresh /\ seen' = seen
    BY <2>1 DEF RegisterStored, RegisterRefused, wire
  <2>3. \E a \in Answer \ {"replay"} : Reply(n, a)
    BY <2>1 DEF RegisterStored, RegisterRefused, Answer
  <2> QED BY <1>1, <2>2, <2>3, ReplyAnswers
<1>5. CASE GatewayStops
  <2>1. net' = {} /\ fresh' = fresh /\ seen' = {} /\ Reply(call.nonce, "error")
    BY <1>5 DEF GatewayStops
  <2> QED BY <1>1, <2>1, ReplyAnswers DEF Answer
<1> QED BY <1>2, <1>3, <1>4, <1>5

-----------------------------------------------------------------------------
(* Nothing has been started, sent or remembered.                            *)
LEMMA InitInv == Init => IInv
<1> SUFFICES ASSUME Init PROVE IInv
  OBVIOUS
<1>1. Idle.step = "idle" /\ Idle.answer # "replay"
  BY NoReplayToNone DEF Idle
<1>2. LoopInv
  BY <1>1 DEF Init, LoopInv, Phase
<1>3. NonceInv
  BY <1>1 DEF Init, NonceInv, RetryIsNoReplay
<1> QED BY <1>2, <1>3 DEF IInv

(* Every step preserves the invariant.                                      *)
LEMMA NextInv == IInv /\ [Next]_vars => IInv'
<1> SUFFICES ASSUME IInv, [Next]_vars PROVE IInv'
  OBVIOUS
<1>1. LoopInv'
  BY LoopNext DEF IInv
<1>2. NonceInv'
  BY NonceDaemon, NonceDelivery, NonceOthers DEF IInv, Next, DaemonStep
<1> QED BY <1>1, <1>2 DEF IInv

(* The invariant holds in every state of every behaviour.                   *)
THEOREM Inductive == Spec => []IInv
<1>1. Init => IInv
  BY InitInv
<1>2. IInv /\ [Next]_vars => IInv'
  BY NextInv
<1> QED BY <1>1, <1>2, PTL DEF Spec

(* tick and scheduleNext: no answer of the gateway, and no failure to get   *)
(* one, leaves a running daemon without a timer or a beat, or with two.     *)
THEOREM TheLoopLives == Spec => []LoopAlive
<1>1. IInv => LoopAlive
  BY DEF IInv, LoopInv, LoopAlive
<1> QED BY <1>1, Inductive, PTL

(* startCommand, stop and drain: a daemon that has ended, however it ended, *)
(* has neither a timer nor a listener nor a request left.                   *)
THEOREM TheDaemonEndsClean == Spec => []CleanEnds
<1>1. IInv => CleanEnds
  BY DEF IInv, LoopInv, CleanEnds
<1> QED BY <1>1, Inductive, PTL

(* registerNode and sendOnce sign anew for every attempt, so the gateway's  *)
(* nonce cache never refuses the daemon's own request, whatever is lost,    *)
(* delayed, repeated or forgotten.                                          *)
THEOREM RetriesAreFresh == Spec => []RetryIsNoReplay
<1>1. IInv => RetryIsNoReplay
  BY DEF IInv, NonceInv
<1> QED BY <1>1, Inductive, PTL
=============================================================================
