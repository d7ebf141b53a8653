-------------------------------- MODULE Mesh --------------------------------
(***************************************************************************)
(* The gateway's request path and the life cycle of its nodes: the router  *)
(* (packages/gateway/src/services/router.ts) selects a node, brackets the  *)
(* call with the node's in-flight count, reports the outcome and retries   *)
(* once; the chat handler (routes/chat.ts) answers; the x402 middleware    *)
(* settles a response that is not an error and calls the settlement hook   *)
(* (app.ts); nodes register and send heartbeats (routes/nodes.ts).         *)
(*                                                                         *)
(* Handlers interleave at every await of the node store, as the handlers   *)
(* of several gateways over one Redis do.  Every node offers the model     *)
(* asked for, on the gateway's network.  A slot carries one request after  *)
(* another, each with an id of its own.                                    *)
(***************************************************************************)
EXTENDS NodeStore

CONSTANTS
    Slots,           \* requests in progress at the same time
    Handlers,        \* registrations and heartbeats in progress
    MaxConcurrent,   \* maxConcurrentPerNode
    RequireUsdcOptIn \* requireUsdcOptIn

ASSUME MeshAssumption ==
    /\ IsFiniteSet(Slots)
    /\ MaxConcurrent \in Nat \ {0}
    /\ RequireUsdcOptIn \in BOOLEAN

VARIABLES
    pc,         \* where a request's handler is
    streaming,  \* the request asked for a stream
    aborted,    \* its client has disconnected
    attempt,    \* the router's attempt counter
    tried,      \* the nodes it has tried
    selection,  \* the node selected last, with its operator at that time
    ok,         \* whether the call to it succeeded
    response,   \* "open", or ended: "sent" with 200, "error" with 4xx or 5xx
    served,     \* the selections whose bytes are in the response
    note,       \* the settlement service's routing note
    inbound,    \* the client's payment: "verified", "settled", "failed"
    payee       \* the operator the settled payment was credited to
request == <<pc, streaming, aborted, attempt, tried, selection, ok, response,
             served, note, inbound, payee>>

VARIABLE handler    \* a registration or a heartbeat: where it is, its node, its record
vars == <<nodeStore, request, handler>>

Selection == [node : Nodes, op : Operators]
NoSelection == [node |-> None, op |-> None]
Calling == {"call", "stream", "report", "release"}
Idle == [at |-> "idle", node |-> None, record |-> NoRecord]

TypeOK ==
    /\ NodeStoreTypeOK
    /\ pc \in [Slots -> {"idle", "select", "begin", "done"} \cup Calling]
    /\ streaming \in [Slots -> BOOLEAN] /\ aborted \in [Slots -> BOOLEAN]
    /\ attempt \in [Slots -> 1 .. 2]
    /\ tried \in [Slots -> SUBSET Nodes]
    /\ selection \in [Slots -> Selection \cup {NoSelection}]
    /\ ok \in [Slots -> BOOLEAN]
    /\ response \in [Slots -> {"open", "sent", "error"}]
    /\ served \in [Slots -> SUBSET Selection]
    /\ note \in [Slots -> Operators \cup {None}]
    /\ inbound \in [Slots -> {"verified", "settled", "failed"}]
    /\ payee \in [Slots -> Operators \cup {None}]
    /\ handler \in [Handlers -> [at : {"register", "verified", "beat"}, node : Nodes,
                                 record : Record] \cup {Idle}]

Init ==
    /\ NodeStoreInit
    /\ pc = [s \in Slots |-> "idle"]
    /\ streaming = [s \in Slots |-> FALSE]
    /\ aborted = [s \in Slots |-> FALSE]
    /\ attempt = [s \in Slots |-> 1]
    /\ tried = [s \in Slots |-> {}]
    /\ selection = [s \in Slots |-> NoSelection]
    /\ ok = [s \in Slots |-> FALSE]
    /\ response = [s \in Slots |-> "open"]
    /\ served = [s \in Slots |-> {}]
    /\ note = [s \in Slots |-> None]
    /\ inbound = [s \in Slots |-> "verified"]
    /\ payee = [s \in Slots |-> None]
    /\ handler = [h \in Handlers |-> Idle]

-----------------------------------------------------------------------------
(* A request, from the payment that the paywall has verified on.            *)

(* The slot's last request is over: answered with an error, which cancels   *)
(* its payment, or settled one way or the other.                            *)
Over(s) == pc[s] = "done" /\ (response[s] = "error" \/ inbound[s] # "verified")

Arrive(s) ==
    /\ pc[s] = "idle" \/ Over(s)
    /\ pc' = [pc EXCEPT ![s] = "select"]
    /\ \E b \in BOOLEAN : streaming' = [streaming EXCEPT ![s] = b]
    /\ aborted' = [aborted EXCEPT ![s] = FALSE]
    /\ attempt' = [attempt EXCEPT ![s] = 1]
    /\ tried' = [tried EXCEPT ![s] = {}]
    /\ selection' = [selection EXCEPT ![s] = NoSelection]
    /\ ok' = [ok EXCEPT ![s] = FALSE]
    /\ response' = [response EXCEPT ![s] = "open"]
    /\ served' = [served EXCEPT ![s] = {}]
    /\ note' = [note EXCEPT ![s] = None]
    /\ inbound' = [inbound EXCEPT ![s] = "verified"]
    /\ payee' = [payee EXCEPT ![s] = None]
    /\ UNCHANGED <<nodeStore, handler>>

(* The response closes before it has ended.                                 *)
Disconnect(s) ==
    /\ pc[s] \notin {"idle", "done"} /\ response[s] = "open" /\ ~aborted[s]
    /\ aborted' = [aborted EXCEPT ![s] = TRUE]
    /\ UNCHANGED <<nodeStore, pc, streaming, attempt, tried, selection, ok, response,
                   served, note, inbound, payee, handler>>

(* NodeSelector.select: the candidates for a request.                       *)
Eligible(s) ==
    {n \in Nodes \ tried[s] :
        /\ records[n].op # None
        /\ records[n].fresh /\ records[n].healthy /\ records[n].opted
        /\ records[n].inFlight < MaxConcurrent}

(* The weighted choice: its floor gives every candidate a chance.  Then     *)
(* onNodeSelected points the settlement at this node's operator.            *)
SelectNode(s, n) ==
    /\ pc[s] = "select" /\ n \in Eligible(s)
    /\ selection' = [selection EXCEPT ![s] = [node |-> n, op |-> records[n].op]]
    /\ tried' = [tried EXCEPT ![s] = @ \cup {n}]
    /\ note' = [note EXCEPT ![s] = records[n].op]
    /\ pc' = [pc EXCEPT ![s] = "begin"]
    /\ UNCHANGED <<nodeStore, streaming, aborted, attempt, ok, response, served,
                   inbound, payee, handler>>

(* Mutant of NoCapacity: a retry waits for a candidate.                     *)
NoCapacityAtFirst(s) ==
    /\ pc[s] = "select" /\ Eligible(s) = {} /\ attempt[s] = 1
    /\ response' = [response EXCEPT ![s] = "error"]
    /\ pc' = [pc EXCEPT ![s] = "done"]
    /\ UNCHANGED <<nodeStore, streaming, aborted, attempt, tried, selection, ok,
                   served, note, inbound, payee, handler>>

(* No candidate: no_capacity, or on a retry the first node's failure.       *)
NoCapacity(s) ==
    /\ pc[s] = "select" /\ Eligible(s) = {}
    /\ response' = [response EXCEPT ![s] = "error"]
    /\ pc' = [pc EXCEPT ![s] = "done"]
    /\ UNCHANGED <<nodeStore, streaming, aborted, attempt, tried, selection, ok,
                   served, note, inbound, payee, handler>>

-----------------------------------------------------------------------------
(* callNode: begin, the call, its outcome, end.                             *)

CallStep(s, from, to) ==
    /\ pc[s] = from
    /\ pc' = [pc EXCEPT ![s] = to]
    /\ UNCHANGED <<streaming, aborted, tried, selection, note, inbound, payee, handler>>

Begin(s) ==
    /\ CallStep(s, "begin", "call")
    /\ beginRequest(selection[s].node)
    /\ UNCHANGED <<attempt, ok, response, served>>

(* Refused before it is sent (the client has gone, the endpoint resolves to *)
(* a private address), refused by the node, broken off, past the deadline,  *)
(* too long, or no JSON.                                                    *)
CallFails(s) ==
    /\ CallStep(s, "call", "report")
    /\ ok' = [ok EXCEPT ![s] = FALSE]
    /\ UNCHANGED <<nodeStore, attempt, response, served>>

CallSucceeds(s) ==
    /\ ~streaming[s] /\ ~aborted[s]
    /\ CallStep(s, "call", "report")
    /\ ok' = [ok EXCEPT ![s] = TRUE]
    /\ UNCHANGED <<nodeStore, attempt, response, served>>

(* pumpStream opens the response with what this node sends.                 *)
StreamBegins(s) ==
    /\ streaming[s] /\ ~aborted[s]
    /\ CallStep(s, "call", "stream")
    /\ served' = [served EXCEPT ![s] = @ \cup {selection[s]}]
    /\ UNCHANGED <<nodeStore, attempt, ok, response>>

(* The stream ends, or breaks: either way the response has been ended with  *)
(* its 200 before the outcome is reported.                                  *)
StreamEnds(s) ==
    /\ CallStep(s, "stream", "report")
    /\ \E done \in BOOLEAN :
          /\ done => ~aborted[s]
          /\ ok' = [ok EXCEPT ![s] = done]
    /\ response' = [response EXCEPT ![s] = "sent"]
    /\ UNCHANGED <<nodeStore, attempt, served>>

Report(s) ==
    /\ CallStep(s, "report", "release")
    /\ recordOutcome(selection[s].node, ok[s])
    /\ UNCHANGED <<attempt, ok, response, served>>

(* Mutant of Release: a stream that has begun is retried like any call.     *)
ReleaseRetriesStream(s) ==
    LET fatal == aborted[s] \/ attempt[s] = 2
    IN  /\ CallStep(s, "release", IF ok[s] \/ fatal THEN "done" ELSE "select")
        /\ endRequest(selection[s].node)
        /\ attempt' = [attempt EXCEPT ![s] = IF ok[s] \/ fatal THEN @ ELSE 2]
        /\ served' = [served EXCEPT ![s] = IF ok[s] THEN @ \cup {selection[s]} ELSE @]
        /\ response' = [response EXCEPT ![s] = IF @ = "open" /\ (ok[s] \/ fatal)
                                               THEN IF ok[s] THEN "sent" ELSE "error"
                                               ELSE @]
        /\ UNCHANGED ok

(* endRequest, which every way out of callNode passes, and what follows it  *)
(* without an await: the JSON answer, the retry, or the error handler.  A   *)
(* client that left and a stream that has begun are not retried.            *)
Release(s) ==
    LET started == served[s] # {}
        fatal == aborted[s] \/ started \/ attempt[s] = 2
    IN  /\ CallStep(s, "release", IF ok[s] \/ fatal THEN "done" ELSE "select")
        /\ endRequest(selection[s].node)
        /\ attempt' = [attempt EXCEPT ![s] = IF ok[s] \/ fatal THEN @ ELSE 2]
        /\ served' = [served EXCEPT ![s] = IF ok[s] THEN @ \cup {selection[s]} ELSE @]
        /\ response' = [response EXCEPT ![s] = IF @ = "open" /\ (ok[s] \/ fatal)
                                               THEN IF ok[s] THEN "sent" ELSE "error"
                                               ELSE @]
        /\ UNCHANGED ok

-----------------------------------------------------------------------------
(* The x402 middleware settles what was answered without an error; the hook *)
(* hands a payment that did settle to the settlement service, which takes   *)
(* the routing note.                                                        *)

Settle(s) ==
    /\ response[s] = "sent" /\ inbound[s] = "verified"
    /\ inbound' = [inbound EXCEPT ![s] = "settled"]
    /\ payee' = [payee EXCEPT ![s] = note[s]]
    /\ note' = [note EXCEPT ![s] = None]
    /\ UNCHANGED <<nodeStore, pc, streaming, aborted, attempt, tried, selection, ok,
                   response, served, handler>>

(* The facilitator reports a failure, or a success without a transaction.   *)
SettleFails(s) ==
    /\ response[s] = "sent" /\ inbound[s] = "verified"
    /\ inbound' = [inbound EXCEPT ![s] = "failed"]
    /\ UNCHANGED <<nodeStore, pc, streaming, aborted, attempt, tried, selection, ok,
                   response, served, note, payee, handler>>

-----------------------------------------------------------------------------
(* Nodes: both handlers read the store, then write it.                      *)

(* handleRegister up to its read: the checks on the message have passed,    *)
(* the operator's opt-in has been looked up on chain, and the id is free or *)
(* the operator's own.                                                      *)
RegisterChecked(h, n, o, opted) ==
    /\ handler[h] = Idle
    /\ opted \/ ~RequireUsdcOptIn
    /\ ~Registered(n) \/ records[n].op = o
    /\ handler' = [handler EXCEPT ![h] =
                     [at |-> "register", node |-> n,
                      record |-> [op |-> o, opted |-> opted, healthy |-> TRUE,
                                  inFlight |-> records[n].inFlight, fresh |-> TRUE]]]
    /\ UNCHANGED <<nodeStore, request>>

(* handleHeartbeat: the signature is that of the operator on record.        *)
HeartbeatVerified(h, n) ==
    /\ handler[h] = Idle
    /\ Registered(n)
    /\ handler' = [handler EXCEPT ![h] = [at |-> "verified", node |-> n,
                                          record |-> NoRecord]]
    /\ UNCHANGED <<nodeStore, request>>

(* The adapter's heartbeat reads the record again, and writes it back with  *)
(* a fresh lastSeenAt and a clean health.                                   *)
HeartbeatRead(h) ==
    /\ handler[h].at = "verified"
    /\ handler' = [handler EXCEPT
                     ![h].at = "beat",
                     ![h].record = [records[handler[h].node] EXCEPT !.healthy = TRUE,
                                                                    !.fresh = TRUE]]
    /\ UNCHANGED <<nodeStore, request>>

Upsert(h) ==
    /\ handler[h].at \in {"register", "beat"}
    /\ upsert(handler[h].node, handler[h].record)
    /\ handler' = [handler EXCEPT ![h] = Idle]
    /\ UNCHANGED request

Stale(n) == GoStale(n) /\ UNCHANGED <<request, handler>>

-----------------------------------------------------------------------------
Select(s) == (\E n \in Nodes : SelectNode(s, n)) \/ NoCapacity(s)

CallEnds(s) == CallFails(s) \/ CallSucceeds(s) \/ StreamBegins(s) \/ StreamEnds(s)

RequestStep(s) ==
    \/ Arrive(s) \/ Disconnect(s)
    \/ Select(s) \/ Begin(s) \/ CallEnds(s) \/ Report(s) \/ Release(s)
    \/ Settle(s) \/ SettleFails(s)

HandlerStep(h) ==
    \/ \E n \in Nodes, o \in Operators, opted \in BOOLEAN : RegisterChecked(h, n, o, opted)
    \/ \E n \in Nodes : HeartbeatVerified(h, n)
    \/ HeartbeatRead(h) \/ Upsert(h)

Next ==
    \/ \E s \in Slots : RequestStep(s)
    \/ \E h \in Handlers : HandlerStep(h)
    \/ \E n \in Nodes : Stale(n)

(* The event loop resumes what an await has delivered, and a call ends: its *)
(* deadline (nodeRequestTimeoutMs) covers the answer's body too.            *)
Fairness ==
    /\ \A s \in Slots : /\ WF_vars(Select(s)) /\ WF_vars(Begin(s))
                        /\ WF_vars(CallEnds(s))
                        /\ WF_vars(Report(s)) /\ WF_vars(Release(s))
    /\ \A h \in Handlers : WF_vars(HeartbeatRead(h)) /\ WF_vars(Upsert(h))

Spec == Init /\ [][Next]_vars /\ Fairness

(* A busy mesh whose nodes work: clients keep coming and stay, every        *)
(* candidate is chosen again and again, calls succeed again and again, and  *)
(* every registered node goes on sending heartbeats.                        *)
BusySpec ==
    /\ Spec
    /\ \A s \in Slots :
          /\ WF_vars(Arrive(s)) /\ WF_vars(Settle(s))
          /\ SF_vars(CallSucceeds(s)) /\ SF_vars(StreamBegins(s))
          /\ \A n \in Nodes : SF_vars(SelectNode(s, n))
    /\ \A h \in Handlers, n \in Nodes : SF_vars(HeartbeatVerified(h, n))

-----------------------------------------------------------------------------
(* The calls to a node that have begun and not ended.                       *)
CallsTo(n) == {s \in Slots : pc[s] \in Calling /\ selection[s].node = n}

(* A node's in-flight count (callNode's finally, mergeRecord) is the number *)
(* of calls to it that have begun and not ended, whatever registrations,    *)
(* heartbeats, disconnects and retries come between.                        *)
InFlightExact == \A n \in Nodes : records[n].inFlight = Cardinality(CallsTo(n))

(* The stored health flag says what the outcomes in the window say: a       *)
(* heartbeat or a registration, read before an outcome and written after    *)
(* it, does not give a benched node a clean bill (mergeRecord).             *)
HealthIsEarned ==
    \A n \in Nodes : Registered(n) =>
        (records[n].healthy <=> consecutiveFailures(windows[n]) < UnhealthyAfter)

(* A settled payment is credited to the operator of the one node whose      *)
(* bytes the client was sent (route's retry rule, onNodeSelected): never to *)
(* the node that failed, and no response mixes two nodes.                   *)
PaidToServer ==
    \A s \in Slots :
        /\ Cardinality(served[s]) <= 1
        /\ inbound[s] = "settled" => served[s] # {} /\ \A x \in served[s] : payee[s] = x.op

(* Every request is answered, with a completion or an error (route).        *)
Answered == \A s \in Slots : pc[s] = "select" ~> response[s] # "open"

(* "The node id is operator-chosen, so it is first-come-first-served"       *)
(* (handleRegister): a registered id keeps its operator.                    *)
OwnerKept == [][\A n \in Nodes : Registered(n) => records'[n].op = records[n].op]_vars

(* "an unhealthy node still receives traffic through the selector's weight  *)
(* floor once it recovers" (UNHEALTHY_CONSECUTIVE_FAILURES): a benched node *)
(* that works and sends heartbeats is chosen again.                         *)
BenchedReturns ==
    \A n \in Nodes : (Registered(n) /\ ~records[n].healthy)
                     ~> (\E s \in Slots : pc[s] = "begin" /\ selection[s].node = n)
=============================================================================
