----------------------------- MODULE MeshProofs -----------------------------
(***************************************************************************)
(* Invariance proofs for the request path, for every number of nodes,      *)
(* operators, concurrent requests and handlers, every window, threshold    *)
(* and concurrency cap.                                                    *)
(***************************************************************************)
EXTENDS Mesh, FiniteSetTheorems, TLAPS

(* The type invariant in three parts, the requests' one with the fact that  *)
(* a request which calls a node, or is about to, has selected one.          *)
RequestType ==
    /\ pc \in [Slots -> {"idle", "select", "begin", "done"} \cup Calling]
    /\ streaming \in [Slots -> BOOLEAN] /\ aborted \in [Slots -> BOOLEAN]
    /\ attempt \in [Slots -> 1 .. 2]
    /\ tried \in [Slots -> SUBSET Nodes]
    /\ selection \in [Slots -> Selection \cup {NoSelection}]
    /\ ok \in [Slots -> BOOLEAN]
    /\ response \in [Slots -> {"open", "sent", "error"}]
    /\ served \in [Slots -> SUBSET Selection]
    /\ note \in [Slots -> Operators \cup {None}]
    /\ inbound \in [Slots -> {"verified", "settled", "failed"}]
    /\ payee \in [Slots -> Operators \cup {None}]
    /\ \A s \in Slots : pc[s] \in Calling \cup {"begin"} => selection[s] \in Selection

HandlerType ==
    handler \in [Handlers -> [at : {"register", "verified", "beat"}, node : Nodes,
                              record : Record] \cup {Idle}]

(* An unregistered node has no calls and no outcomes.                       *)
FreshNodes ==
    \A n \in Nodes : ~Registered(n) => records[n].inFlight = 0 /\ windows[n] = <<>>

(* A request which calls a node, or is about to, selected a registered one. *)
CallsRegistered ==
    \A s \in Slots : pc[s] \in Calling \cup {"begin"} => Registered(selection[s].node)

(* A heartbeat is of a registered node, and a registration that found the   *)
(* node unregistered carries no count.  What a handler is about to write is *)
(* a healthy record with an operator.                                       *)
HandlersSound ==
    \A h \in Handlers : handler[h] # Idle =>
        /\ \/ Registered(handler[h].node)
           \/ handler[h].at = "register" /\ handler[h].record.inFlight = 0
        /\ handler[h].at \in {"register", "beat"} =>
              handler[h].record.op # None /\ handler[h].record.healthy

StoreInv ==
    /\ NodeStoreTypeOK /\ RequestType /\ HandlerType
    /\ FreshNodes /\ CallsRegistered /\ HandlersSound /\ HealthIsEarned

(* The response holds bytes of the current selection only, and none before  *)
(* a stream begins or a call succeeds; a response that was sent has them.   *)
(* Until the payment settles the note names the selection's operator.       *)
CreditingOf(s) ==
    /\ served[s] \in {{}, {selection[s]}}
    /\ pc[s] \in {"idle", "select", "begin", "call"} => served[s] = {}
    /\ pc[s] = "stream" => served[s] = {selection[s]}
    /\ pc[s] \in {"idle", "select", "begin", "call", "stream"} => response[s] = "open"
    /\ response[s] = "error" => pc[s] = "done"
    /\ response[s] = "sent" => served[s] = {selection[s]}
    /\ inbound[s] # "verified" => response[s] = "sent"
    /\ pc[s] \in Calling \cup {"begin"} /\ inbound[s] = "verified"
          => note[s] = selection[s].op
    /\ response[s] = "sent" /\ inbound[s] = "verified" => note[s] = selection[s].op
    /\ inbound[s] = "settled" => payee[s] = selection[s].op

Crediting == \A s \in Slots : CreditingOf(s)

IInv == StoreInv /\ Crediting /\ InFlightExact

-----------------------------------------------------------------------------
(* What each store operation does to the record and the window of one node, *)
(* field by field.                                                          *)

(* The other nodes are left alone, and so are the owner and opt-in of n.    *)
OthersKept(n) ==
    /\ NodeStoreTypeOK'
    /\ \A m \in Nodes \ {n} : records'[m] = records[m] /\ windows'[m] = windows[m]

(* A store update that gives n a record and a window keeps the types.       *)
LEMMA UpdateOne ==
    ASSUME NodeStoreTypeOK, NEW n \in Nodes,
           NEW r \in Record, NEW w \in Seq(BOOLEAN), Len(w) <= HealthWindow,
           records' = [records EXCEPT ![n] = r],
           windows' = [windows EXCEPT ![n] = w]
    PROVE  OthersKept(n) /\ records'[n] = r /\ windows'[n] = w
BY DEF NodeStoreTypeOK, OthersKept

(* The store's current entry for a node is a record and a window.           *)
LEMMA EntryType ==
    ASSUME NodeStoreTypeOK, NEW n \in Nodes
    PROVE  /\ records[n] \in Record /\ windows[n] \in Seq(BOOLEAN)
           /\ Len(windows[n]) <= HealthWindow
           /\ windows = [windows EXCEPT ![n] = windows[n]]
BY DEF NodeStoreTypeOK

(* beginRequest adds one to the count and touches nothing else.             *)
LEMMA BeginEffect ==
    ASSUME NodeStoreTypeOK, NEW n \in Nodes, beginRequest(n)
    PROVE  /\ OthersKept(n) /\ windows'[n] = windows[n]
           /\ records'[n].op = records[n].op
           /\ records'[n].healthy = records[n].healthy
           /\ records'[n].inFlight = records[n].inFlight + 1
<1> DEFINE r == [records[n] EXCEPT !.inFlight = @ + 1]
<1>1. records[n].inFlight \in Nat
  BY EntryType DEF Record
<1>2. records[n].inFlight + 1 \in Nat
  BY <1>1
<1>3. /\ r \in Record /\ r.op = records[n].op /\ r.healthy = records[n].healthy
      /\ r.inFlight = records[n].inFlight + 1
  BY <1>2, EntryType DEF Record
<1>4. records' = [records EXCEPT ![n] = r] /\ windows' = windows
  BY DEF beginRequest
<1> HIDE DEF r
<1> QED BY <1>3, <1>4, EntryType, UpdateOne

(* endRequest takes one from a count that is not zero.                      *)
LEMMA EndEffect ==
    ASSUME NodeStoreTypeOK, NEW n \in Nodes, endRequest(n)
    PROVE  /\ OthersKept(n) /\ windows'[n] = windows[n]
           /\ records'[n].op = records[n].op
           /\ records'[n].healthy = records[n].healthy
           /\ records'[n].inFlight =
                IF records[n].inFlight = 0 THEN 0 ELSE records[n].inFlight - 1
<1> DEFINE c == IF records[n].inFlight = 0 THEN 0 ELSE records[n].inFlight - 1
           r == [records[n] EXCEPT !.inFlight = c]
<1>1. records[n].inFlight \in Nat
  BY EntryType DEF Record
<1>2. c \in Nat
  BY <1>1
<1>3. records' = [records EXCEPT ![n] = r] /\ windows' = windows
  BY DEF endRequest
<1> HIDE DEF c
<1>4. /\ r \in Record /\ r.op = records[n].op /\ r.healthy = records[n].healthy
      /\ r.inFlight = c
  BY <1>2, EntryType DEF Record
<1> HIDE DEF r
<1>5. /\ OthersKept(n) /\ windows'[n] = windows[n]
      /\ records'[n] = r
  BY <1>3, <1>4, EntryType, UpdateOne
<1> QED BY <1>4, <1>5 DEF c

(* A node goes stale with its count and its health unchanged.               *)
LEMMA StaleEffect ==
    ASSUME NodeStoreTypeOK, NEW n \in Nodes, GoStale(n)
    PROVE  /\ OthersKept(n) /\ windows'[n] = windows[n]
           /\ records'[n].op = records[n].op
           /\ records'[n].healthy = records[n].healthy
           /\ records'[n].inFlight = records[n].inFlight
<1> DEFINE r == [records[n] EXCEPT !.fresh = FALSE]
<1>1. /\ r \in Record /\ r.op = records[n].op /\ r.healthy = records[n].healthy
      /\ r.inFlight = records[n].inFlight
  BY EntryType DEF Record
<1>2. records' = [records EXCEPT ![n] = r] /\ windows' = windows
  BY DEF GoStale
<1> HIDE DEF r
<1> QED BY <1>1, <1>2, EntryType, UpdateOne

(* An outcome appended to the window and trimmed leaves a window.           *)
LEMMA WindowType ==
    ASSUME NEW w \in Seq(BOOLEAN), Len(w) <= HealthWindow, NEW x \in BOOLEAN,
           NEW window,
           window = IF Len(Append(w, x)) > HealthWindow
                    THEN Tail(Append(w, x)) ELSE Append(w, x)
    PROVE  window \in Seq(BOOLEAN) /\ Len(window) <= HealthWindow
<1> DEFINE all == Append(w, x)
<1>1. all \in Seq(BOOLEAN) /\ Len(all) = Len(w) + 1
  OBVIOUS
<1>2. all # <<>>
  BY <1>1
<1> HIDE DEF all
<1>3. Tail(all) \in Seq(BOOLEAN) /\ Len(Tail(all)) = Len(all) - 1
  BY <1>1, <1>2
<1>4. window = IF Len(all) > HealthWindow THEN Tail(all) ELSE all
  BY DEF all
<1>5. Len(w) \in Nat /\ HealthWindow \in Nat
  BY NodeStoreAssumption
<1>6. CASE Len(all) > HealthWindow
  BY <1>1, <1>3, <1>4, <1>5, <1>6
<1>7. CASE ~(Len(all) > HealthWindow)
  <2>1. window = all /\ Len(all) \in Nat
    BY <1>1, <1>4, <1>5, <1>7
  <2> QED BY <2>1, <1>1, <1>5, <1>7
<1> QED BY <1>6, <1>7

(* recordOutcome derives the health flag from the window it stores.         *)
LEMMA OutcomeEffect ==
    ASSUME NodeStoreTypeOK, NEW n \in Nodes, NEW x \in BOOLEAN, recordOutcome(n, x)
    PROVE  /\ OthersKept(n)
           /\ records'[n].op = records[n].op
           /\ records'[n].healthy = deriveHealth(windows'[n])
           /\ records'[n].inFlight = records[n].inFlight
<1> DEFINE all == Append(windows[n], x)
           w == IF Len(all) > HealthWindow THEN Tail(all) ELSE all
           d == deriveHealth(w)
           f == records[n].fresh \/ x
           r == [records[n] EXCEPT !.healthy = d, !.fresh = f]
<1>1. w \in Seq(BOOLEAN) /\ Len(w) <= HealthWindow
  BY EntryType, WindowType
<1>2. d \in BOOLEAN /\ f \in BOOLEAN
  BY DEF deriveHealth
<1>3. records' = [records EXCEPT ![n] = r] /\ windows' = [windows EXCEPT ![n] = w]
  BY DEF recordOutcome
<1>4. d = deriveHealth(w)
  OBVIOUS
<1> HIDE DEF w, d, f
<1>5. /\ r \in Record /\ r.op = records[n].op /\ r.healthy = d
      /\ r.inFlight = records[n].inFlight
  BY <1>2, EntryType DEF Record
<1> HIDE DEF r
<1>6. OthersKept(n) /\ records'[n] = r /\ windows'[n] = w
  BY <1>1, <1>3, <1>5, UpdateOne
<1> QED BY <1>4, <1>5, <1>6

(* upsert keeps the count of a registered node and never clears what its    *)
(* window says.                                                             *)
LEMMA UpsertEffect ==
    ASSUME NodeStoreTypeOK, NEW n \in Nodes, NEW i \in Record, upsert(n, i)
    PROVE  /\ OthersKept(n) /\ windows'[n] = windows[n]
           /\ records'[n].op = i.op
           /\ records'[n].healthy =
                (i.healthy /\ (windows[n] = <<>> \/ deriveHealth(windows[n])))
           /\ records'[n].inFlight =
                IF records[n].op = None THEN i.inFlight ELSE records[n].inFlight
<1> DEFINE c == IF records[n].op = None THEN i.inFlight ELSE records[n].inFlight
           d == i.healthy /\ (windows[n] = <<>> \/ deriveHealth(windows[n]))
           f == i.fresh \/ records[n].fresh
           r == [i EXCEPT !.inFlight = c, !.fresh = f, !.healthy = d]
<1>1. c \in Nat /\ d \in BOOLEAN /\ f \in BOOLEAN
  BY EntryType DEF Record
<1>2. records' = [records EXCEPT ![n] = r] /\ windows' = windows
  BY DEF upsert, mergeRecord
<1> HIDE DEF c, d, f
<1>3. r \in Record /\ r.op = i.op /\ r.healthy = d /\ r.inFlight = c
  BY <1>1 DEF Record
<1> HIDE DEF r
<1>4. OthersKept(n) /\ windows'[n] = windows[n] /\ records'[n] = r
  BY <1>2, <1>3, EntryType, UpdateOne
<1> QED BY <1>3, <1>4 DEF c, d

-----------------------------------------------------------------------------
(* The types and the store: what the steps may assume of each other.        *)

(* Every step of a request keeps the types of its part of the state.        *)
LEMMA RequestTypeStep ==
    ASSUME NodeStoreTypeOK, RequestType, NEW s \in Slots, RequestStep(s)
    PROVE  RequestType'
<1>1. CASE Arrive(s)
  BY <1>1 DEF Arrive, RequestType, Calling, NoSelection
<1>2. CASE Disconnect(s)
  BY <1>2 DEF Disconnect, RequestType
<1>3. ASSUME NEW n \in Nodes, SelectNode(s, n)
      PROVE  RequestType'
  <2>1. records[n].op \in Operators
    BY <1>3, EntryType DEF SelectNode, Eligible, Record
  <2>2. [node |-> n, op |-> records[n].op] \in Selection
    BY <2>1 DEF Selection
  <2> QED BY <1>3, <2>1, <2>2 DEF SelectNode, RequestType, Calling
<1>4. CASE NoCapacity(s)
  BY <1>4 DEF NoCapacity, RequestType, Calling
<1>5. CASE Begin(s)
  BY <1>5 DEF Begin, CallStep, RequestType, Calling
<1>6. CASE CallFails(s) \/ CallSucceeds(s)
  BY <1>6 DEF CallFails, CallSucceeds, CallStep, RequestType, Calling
<1>7. CASE StreamBegins(s)
  BY <1>7 DEF StreamBegins, CallStep, RequestType, Calling
<1>8. CASE StreamEnds(s)
  BY <1>8 DEF StreamEnds, CallStep, RequestType, Calling
<1>9. CASE Report(s)
  BY <1>9 DEF Report, CallStep, RequestType, Calling
<1>10. CASE Release(s)
  BY <1>10 DEF Release, CallStep, RequestType, Calling
<1>11. CASE Settle(s)
  BY <1>11 DEF Settle, RequestType
<1>12. CASE SettleFails(s)
  BY <1>12 DEF SettleFails, RequestType
<1> QED BY <1>1, <1>2, <1>3, <1>4, <1>5, <1>6, <1>7, <1>8, <1>9, <1>10, <1>11, <1>12
        DEF RequestStep, Select, CallEnds

(* A selection that is called is of a registered node.                      *)
LEMMA CalledNode ==
    ASSUME StoreInv, NEW s \in Slots, pc[s] \in Calling \cup {"begin"}
    PROVE  selection[s].node \in Nodes /\ Registered(selection[s].node)
BY DEF StoreInv, RequestType, CallsRegistered, Selection

(* A window without outcomes has no failures.                               *)
LEMMA NoFailures == consecutiveFailures(<<>>) = 0 /\ deriveHealth(<<>>)
<1>1. {i \in 1 .. Len(<<>>) : \A j \in i .. Len(<<>>) : ~<<>>[j]} = {}
  OBVIOUS
<1>2. consecutiveFailures(<<>>) = 0
  BY <1>1, FS_EmptySet DEF consecutiveFailures
<1> QED BY <1>2, NodeStoreAssumption DEF deriveHealth

(* What a step may do to the entry of one node: keep its owner registered,  *)
(* and leave a health flag that is what the window says.                    *)
EntrySound(n) ==
    /\ Registered(n) => records'[n].op # None
    /\ records'[n].op # None => records'[n].healthy = deriveHealth(windows'[n])
    /\ records'[n].op = None => records'[n].inFlight = 0 /\ windows'[n] = <<>>

(* The health flag of a registered node equals the derived one.             *)
LEMMA HealthFlag ==
    ASSUME StoreInv, NEW n \in Nodes, Registered(n)
    PROVE  records[n].healthy = deriveHealth(windows[n])
<1>1. records[n].healthy \in BOOLEAN
  BY EntryType DEF StoreInv, Record
<1>2. records[n].healthy <=> deriveHealth(windows[n])
  BY DEF StoreInv, HealthIsEarned, deriveHealth
<1> QED BY <1>1, <1>2 DEF deriveHealth

(* An entry that a step leaves alone stays sound.                           *)
LEMMA EntryKept ==
    ASSUME StoreInv, NEW n \in Nodes,
           records'[n] = records[n], windows'[n] = windows[n]
    PROVE  EntrySound(n)
BY HealthFlag DEF StoreInv, EntrySound, FreshNodes, Registered

(* Every step keeps the store's type and the soundness of every entry.      *)
LEMMA StoreStep ==
    ASSUME StoreInv, [Next]_vars
    PROVE  NodeStoreTypeOK' /\ \A n \in Nodes : EntrySound(n)
<1>0. NodeStoreTypeOK
  BY DEF StoreInv
<1>1. ASSUME NEW n \in Nodes, OthersKept(n), EntrySound(n)
      PROVE  NodeStoreTypeOK' /\ \A m \in Nodes : EntrySound(m)
  <2>1. ASSUME NEW m \in Nodes, m # n
        PROVE  EntrySound(m)
    BY <1>1, <2>1, EntryKept DEF OthersKept
  <2> QED BY <1>1, <2>1 DEF OthersKept
<1>2. ASSUME UNCHANGED nodeStore
      PROVE  NodeStoreTypeOK' /\ \A m \in Nodes : EntrySound(m)
  <2>1. ASSUME NEW m \in Nodes
        PROVE  EntrySound(m)
    BY <1>2, <2>1, EntryKept DEF nodeStore
  <2> QED BY <1>0, <1>2, <2>1 DEF nodeStore, NodeStoreTypeOK
<1>3. ASSUME NEW s \in Slots, Begin(s)
      PROVE  \E n \in Nodes : OthersKept(n) /\ EntrySound(n)
  <2>1. PICK n \in Nodes : Registered(n) /\ beginRequest(n)
    BY <1>3, CalledNode DEF Begin, CallStep
  <2>2. OthersKept(n) /\ EntrySound(n)
    BY <1>0, <2>1, BeginEffect, HealthFlag DEF EntrySound, Registered
  <2> QED BY <2>1, <2>2
<1>4. ASSUME NEW s \in Slots, Report(s)
      PROVE  \E n \in Nodes : OthersKept(n) /\ EntrySound(n)
  <2>1. PICK n \in Nodes, x \in BOOLEAN : Registered(n) /\ recordOutcome(n, x)
    BY <1>4, CalledNode DEF Report, CallStep, Calling, StoreInv, RequestType
  <2>2. OthersKept(n) /\ EntrySound(n)
    BY <1>0, <2>1, OutcomeEffect DEF EntrySound, Registered
  <2> QED BY <2>1, <2>2
<1>5. ASSUME NEW s \in Slots, Release(s)
      PROVE  \E n \in Nodes : OthersKept(n) /\ EntrySound(n)
  <2>1. PICK n \in Nodes : Registered(n) /\ endRequest(n)
    BY <1>5, CalledNode DEF Release, CallStep, Calling
  <2>2. OthersKept(n) /\ EntrySound(n)
    BY <1>0, <2>1, EndEffect, HealthFlag DEF EntrySound, Registered
  <2> QED BY <2>1, <2>2
<1>6. ASSUME NEW h \in Handlers, Upsert(h)
      PROVE  \E n \in Nodes : OthersKept(n) /\ EntrySound(n)
  <2>1. PICK n \in Nodes, i \in Record : upsert(n, i) /\ i.op # None /\ i.healthy
    BY <1>6 DEF Upsert, StoreInv, HandlerType, HandlersSound, Idle
  <2>2. OthersKept(n) /\ records'[n].op # None
    BY <1>0, <2>1, UpsertEffect
  <2>3. records'[n].healthy = deriveHealth(windows'[n])
    <3>1. /\ windows'[n] = windows[n]
          /\ records'[n].healthy =
               (i.healthy /\ (windows[n] = <<>> \/ deriveHealth(windows[n])))
      BY <1>0, <2>1, UpsertEffect
    <3>2. windows[n] = <<>> => deriveHealth(windows[n])
      BY NoFailures
    <3>3. deriveHealth(windows[n]) \in BOOLEAN
      BY DEF deriveHealth
    <3>4. (i.healthy /\ (windows[n] = <<>> \/ deriveHealth(windows[n])))
            = deriveHealth(windows[n])
      BY <2>1, <3>2, <3>3
    <3> QED BY <3>1, <3>4
  <2> QED BY <2>1, <2>2, <2>3 DEF EntrySound
<1>7. ASSUME NEW n \in Nodes, Stale(n)
      PROVE  OthersKept(n) /\ EntrySound(n)
  BY <1>0, <1>7, StaleEffect, HealthFlag
  DEF Stale, StoreInv, EntrySound, FreshNodes, Registered
<1>8. ASSUME NEW s \in Slots, RequestStep(s)
      PROVE  UNCHANGED nodeStore \/ Begin(s) \/ Report(s) \/ Release(s)
  BY <1>8 DEF RequestStep, Arrive, Disconnect, Select, SelectNode, NoCapacity, CallEnds,
              CallFails, CallSucceeds, StreamBegins, StreamEnds, Settle, SettleFails
<1>9. ASSUME NEW h \in Handlers, HandlerStep(h)
      PROVE  UNCHANGED nodeStore \/ Upsert(h)
  BY <1>9 DEF HandlerStep, RegisterChecked, HeartbeatVerified, HeartbeatRead
<1> QED BY <1>1, <1>2, <1>3, <1>4, <1>5, <1>6, <1>7, <1>8, <1>9 DEF Next, vars

(* Every step keeps the handlers' part of the state.                        *)
LEMMA HandlerSoundStep ==
    ASSUME StoreInv, [Next]_vars
    PROVE  HandlerType' /\ HandlersSound'
<1> USE DEF StoreInv
<1>1. NodeStoreTypeOK /\ \A n \in Nodes : Registered(n) => records'[n].op # None
  BY StoreStep DEF EntrySound
<1>2. CASE UNCHANGED handler
  <2>1. HandlerType'
    BY <1>2 DEF HandlerType
  <2>2. ASSUME NEW h \in Handlers, handler[h] # Idle
        PROVE  handler[h].node \in Nodes
    BY <2>2 DEF HandlerType
  <2> QED BY <1>1, <1>2, <2>1, <2>2 DEF HandlersSound, Registered
<1>3. ASSUME NEW h \in Handlers, HandlerStep(h)
      PROVE  HandlerType' /\ HandlersSound'
  <2>1. ASSUME NEW v \in [at : {"register", "verified", "beat"}, node : Nodes,
                          record : Record] \cup {Idle},
               handler' = [handler EXCEPT ![h] = v],
               v # Idle =>
                 /\ \/ records'[v.node].op # None
                    \/ v.at = "register" /\ v.record.inFlight = 0
                 /\ v.at \in {"register", "beat"} => v.record.op # None /\ v.record.healthy
        PROVE  HandlerType' /\ HandlersSound'
    <3>1. HandlerType'
      BY <2>1 DEF HandlerType
    <3>2. handler'[h] = v
      BY <2>1 DEF HandlerType
    <3>3. ASSUME NEW g \in Handlers, g # h, handler[g] # Idle
          PROVE  handler[g].node \in Nodes
      BY <3>3 DEF HandlerType
    <3>4. ASSUME NEW g \in Handlers, g # h
          PROVE  handler'[g] = handler[g]
      BY <2>1, <3>4 DEF HandlerType
    <3> QED BY <1>1, <2>1, <3>1, <3>2, <3>3, <3>4 DEF HandlersSound, Registered
  <2>2. ASSUME NEW n \in Nodes, NEW o \in Operators, NEW opted \in BOOLEAN,
               RegisterChecked(h, n, o, opted)
        PROVE  HandlerType' /\ HandlersSound'
    <3> DEFINE r == [op |-> o, opted |-> opted, healthy |-> TRUE,
                     inFlight |-> records[n].inFlight, fresh |-> TRUE]
               v == [at |-> "register", node |-> n, record |-> r]
    <3>1. handler' = [handler EXCEPT ![h] = v]
      BY <2>2 DEF RegisterChecked
    <3>2. records[n].inFlight \in Nat
      BY EntryType DEF Record
    <3>3. r \in Record /\ r.op # None /\ r.healthy /\ r.inFlight = records[n].inFlight
      BY <3>2, NodeStoreAssumption DEF Record
    <3>4. records'[n].op # None \/ r.inFlight = 0
      BY <1>1, <3>3 DEF FreshNodes
    <3> HIDE DEF r
    <3>5. /\ v \in [at : {"register", "verified", "beat"}, node : Nodes, record : Record]
          /\ v.at = "register" /\ v.node = n /\ v.record = r
      BY <3>3
    <3> HIDE DEF v
    <3> QED BY <2>1, <3>1, <3>3, <3>4, <3>5
  <2>3. ASSUME NEW n \in Nodes, HeartbeatVerified(h, n)
        PROVE  HandlerType' /\ HandlersSound'
    <3> DEFINE v == [at |-> "verified", node |-> n, record |-> NoRecord]
    <3>1. handler' = [handler EXCEPT ![h] = v] /\ Registered(n)
      BY <2>3 DEF HeartbeatVerified
    <3>2. NoRecord \in Record
      BY DEF NoRecord, Record
    <3>3. /\ v \in [at : {"register", "verified", "beat"}, node : Nodes, record : Record]
          /\ v.at = "verified" /\ v.node = n
      BY <3>2
    <3> HIDE DEF v
    <3> QED BY <1>1, <2>1, <3>1, <3>3
  <2>4. CASE HeartbeatRead(h)
    <3>1. /\ handler[h].at = "verified" /\ handler[h] # Idle
          /\ handler[h] \in [at : {"register", "verified", "beat"}, node : Nodes,
                             record : Record]
      BY <2>4 DEF HeartbeatRead, HandlerType, Idle
    <3>2. PICK n \in Nodes : n = handler[h].node
      BY <3>1
    <3> DEFINE r == [records[n] EXCEPT !.healthy = TRUE, !.fresh = TRUE]
               v == [handler[h] EXCEPT !.at = "beat", !.record = r]
    <3>3. Registered(n)
      BY <3>1, <3>2 DEF HandlersSound
    <3>4. r \in Record /\ r.op # None /\ r.healthy
      BY <3>3, EntryType DEF Record, Registered
    <3>5. handler' = [handler EXCEPT ![h] = v]
      BY <2>4, <3>2 DEF HeartbeatRead
    <3> HIDE DEF r
    <3>6. /\ v \in [at : {"register", "verified", "beat"}, node : Nodes, record : Record]
          /\ v.at = "beat" /\ v.node = n /\ v.record = r
      BY <3>1, <3>2, <3>4
    <3> HIDE DEF v
    <3> QED BY <1>1, <2>1, <3>3, <3>4, <3>5, <3>6
  <2>5. CASE Upsert(h)
    BY <2>1, <2>5 DEF Upsert
  <2> QED BY <1>3, <2>2, <2>3, <2>4, <2>5 DEF HandlerStep
<1>4. ASSUME NEW s \in Slots, RequestStep(s)
      PROVE  UNCHANGED handler
  BY <1>4 DEF RequestStep, Arrive, Disconnect, Select, SelectNode, NoCapacity, CallEnds,
              CallFails, CallSucceeds, StreamBegins, StreamEnds, Settle, SettleFails,
              Begin, Report, Release, CallStep
<1> QED BY <1>2, <1>3, <1>4 DEF Next, vars, Stale

(* Every step keeps the requests' part of the state.                        *)
LEMMA RequestSoundStep ==
    ASSUME StoreInv, [Next]_vars
    PROVE  RequestType' /\ CallsRegistered'
<1> USE DEF StoreInv
<1>1. \A n \in Nodes : Registered(n) => records'[n].op # None
  BY StoreStep DEF EntrySound
<1>2. ASSUME UNCHANGED request
      PROVE  RequestType' /\ CallsRegistered'
  <2>1. RequestType'
    BY <1>2 DEF request, RequestType
  <2> QED BY <1>1, <1>2, <2>1 DEF request, CallsRegistered, RequestType, Registered, Selection
<1>3. ASSUME NEW s \in Slots, RequestStep(s)
      PROVE  RequestType' /\ CallsRegistered'
  <2>1. RequestType'
    BY <1>3, RequestTypeStep
  <2>2. ASSUME NEW t \in Slots, t # s
        PROVE  pc'[t] = pc[t] /\ selection'[t] = selection[t]
    BY <1>3, <2>2 DEF RequestStep, RequestType, Arrive, Disconnect, Select, SelectNode,
              NoCapacity, CallEnds, CallFails, CallSucceeds, StreamBegins, StreamEnds,
              Settle, SettleFails, Begin, Report, Release, CallStep
  <2>3. \/ pc'[s] \notin Calling \cup {"begin"}
        \/ selection'[s] = selection[s] /\ pc[s] \in Calling \cup {"begin"}
        \/ \E n \in Nodes : SelectNode(s, n)
    BY <1>3 DEF RequestStep, RequestType, Arrive, Disconnect, Select,
              NoCapacity, CallEnds, CallFails, CallSucceeds, StreamBegins, StreamEnds,
              Settle, SettleFails, Begin, Report, Release, CallStep, Calling
  <2>4. ASSUME NEW n \in Nodes, SelectNode(s, n)
        PROVE  selection'[s].node = n /\ Registered(n)
    BY <2>4 DEF SelectNode, Eligible, RequestType, Registered
  <2>5. ASSUME NEW t \in Slots, pc'[t] \in Calling \cup {"begin"}
        PROVE  records'[selection'[t].node].op # None
    <3>1. CASE selection'[t] = selection[t] /\ pc[t] \in Calling \cup {"begin"}
      BY <1>1, <3>1, CalledNode
    <3>2. CASE t = s /\ \E n \in Nodes : SelectNode(s, n)
      BY <1>1, <2>4, <3>2
    <3> QED BY <2>2, <2>3, <2>5, <3>1, <3>2
  <2> QED BY <2>1, <2>5 DEF CallsRegistered, Registered
<1>4. ASSUME NEW h \in Handlers, HandlerStep(h)
      PROVE  UNCHANGED request
  BY <1>4 DEF HandlerStep, RegisterChecked, HeartbeatVerified, HeartbeatRead, Upsert
<1> QED BY <1>2, <1>3, <1>4 DEF Next, vars, Stale

(* StoreInv is inductive.                                                   *)
LEMMA StoreInvStep == StoreInv /\ [Next]_vars => StoreInv'
<1> SUFFICES ASSUME StoreInv, [Next]_vars PROVE StoreInv'
  OBVIOUS
<1>1. FreshNodes' /\ HealthIsEarned'
  BY StoreStep DEF EntrySound, FreshNodes, HealthIsEarned, Registered, deriveHealth
<1> QED BY <1>1, StoreStep, HandlerSoundStep, RequestSoundStep DEF StoreInv

-----------------------------------------------------------------------------
(* Crediting.                                                               *)

(* A request's step keeps its crediting.                                    *)
LEMMA CreditingOwnStep ==
    ASSUME RequestType, NEW s \in Slots, CreditingOf(s), RequestStep(s)
    PROVE  CreditingOf(s)'
<1> USE DEF CreditingOf, RequestType, Calling
<1>1. CASE Arrive(s)
  BY <1>1 DEF Arrive
<1>2. CASE Disconnect(s)
  BY <1>2 DEF Disconnect
<1>3. ASSUME NEW n \in Nodes, SelectNode(s, n)
      PROVE  CreditingOf(s)'
  BY <1>3 DEF SelectNode
<1>4. CASE NoCapacity(s)
  BY <1>4 DEF NoCapacity
<1>5. CASE Begin(s)
  BY <1>5 DEF Begin, CallStep
<1>6. CASE CallFails(s) \/ CallSucceeds(s)
  BY <1>6 DEF CallFails, CallSucceeds, CallStep
<1>7. CASE StreamBegins(s)
  BY <1>7 DEF StreamBegins, CallStep
<1>8. CASE StreamEnds(s)
  BY <1>8 DEF StreamEnds, CallStep
<1>9. CASE Report(s)
  BY <1>9 DEF Report, CallStep
<1>10. CASE Release(s)
  BY <1>10 DEF Release, CallStep
<1>11. CASE Settle(s)
  BY <1>11 DEF Settle
<1>12. CASE SettleFails(s)
  BY <1>12 DEF SettleFails
<1> QED BY <1>1, <1>2, <1>3, <1>4, <1>5, <1>6, <1>7, <1>8, <1>9, <1>10, <1>11, <1>12
        DEF RequestStep, Select, CallEnds

(* A request's step leaves the other requests alone.                        *)
LEMMA OtherRequests ==
    ASSUME RequestType, NEW s \in Slots, RequestStep(s), NEW t \in Slots, t # s
    PROVE  /\ pc'[t] = pc[t] /\ selection'[t] = selection[t]
           /\ served'[t] = served[t] /\ response'[t] = response[t]
           /\ inbound'[t] = inbound[t] /\ note'[t] = note[t] /\ payee'[t] = payee[t]
BY DEF RequestStep, RequestType, Arrive, Disconnect, Select, SelectNode, NoCapacity,
       CallEnds, CallFails, CallSucceeds, StreamBegins, StreamEnds, Settle, SettleFails,
       Begin, Report, Release, CallStep

(* Every step keeps Crediting.                                              *)
LEMMA CreditingStep ==
    ASSUME StoreInv, Crediting, [Next]_vars
    PROVE  Crediting'
<1>1. RequestType
  BY DEF StoreInv
<1>2. ASSUME NEW s \in Slots, RequestStep(s)
      PROVE  Crediting'
  <2>1. ASSUME NEW t \in Slots, t # s
        PROVE  CreditingOf(t)'
    BY <1>1, <1>2, <2>1, OtherRequests DEF Crediting, CreditingOf
  <2> QED BY <1>1, <1>2, <2>1, CreditingOwnStep DEF Crediting
<1>3. CASE UNCHANGED request
  BY <1>3 DEF Crediting, CreditingOf, request
<1>4. ASSUME NEW h \in Handlers, HandlerStep(h)
      PROVE  UNCHANGED request
  BY <1>4 DEF HandlerStep, RegisterChecked, HeartbeatVerified, HeartbeatRead, Upsert
<1> QED BY <1>2, <1>3, <1>4 DEF Next, vars, Stale

(* Crediting gives the property of the runs.                                *)
LEMMA CreditingPays == Crediting => PaidToServer
<1> SUFFICES ASSUME Crediting, NEW s \in Slots
             PROVE  /\ Cardinality(served[s]) <= 1
                    /\ inbound[s] = "settled" =>
                          served[s] # {} /\ \A x \in served[s] : payee[s] = x.op
  BY DEF PaidToServer
<1>1. CreditingOf(s)
  BY DEF Crediting
<1>2. Cardinality(served[s]) <= 1
  <2>1. served[s] = {} \/ served[s] = {selection[s]}
    BY <1>1 DEF CreditingOf
  <2>2. Cardinality({}) = 0 /\ Cardinality({selection[s]}) = 1
    BY FS_EmptySet, FS_Singleton
  <2> QED BY <2>1, <2>2
<1> QED BY <1>1, <1>2 DEF CreditingOf

-----------------------------------------------------------------------------
(* The in-flight counts.                                                    *)

(* The calls to a node are finitely many.                                   *)
LEMMA CallsFinite ==
    ASSUME NEW n
    PROVE  IsFiniteSet(CallsTo(n)) /\ Cardinality(CallsTo(n)) \in Nat
<1>1. CallsTo(n) \subseteq Slots
  BY DEF CallsTo
<1>2. IsFiniteSet(CallsTo(n))
  BY <1>1, MeshAssumption, FS_Subset
<1> QED BY <1>2, FS_CardinalityType

(* Every step keeps InFlightExact.                                          *)
LEMMA InFlightStep ==
    ASSUME StoreInv, InFlightExact, [Next]_vars
    PROVE  InFlightExact'
<1>0. NodeStoreTypeOK /\ RequestType
  BY DEF StoreInv
<1>1. ASSUME NEW s \in Slots, Begin(s)
      PROVE  InFlightExact'
  <2>1. PICK n \in Nodes : n = selection[s].node /\ beginRequest(n)
    BY <1>1, CalledNode DEF Begin, CallStep
  <2>2. s \notin CallsTo(n)
    BY <1>1 DEF Begin, CallStep, CallsTo, Calling
  <2>3. CallsTo(n)' = CallsTo(n) \cup {s}
    BY <1>0, <1>1, <2>1 DEF Begin, CallStep, CallsTo, Calling, RequestType
  <2>4. ASSUME NEW m \in Nodes, m # n
        PROVE  CallsTo(m)' = CallsTo(m)
    BY <1>0, <1>1, <2>1, <2>4 DEF Begin, CallStep, CallsTo, Calling, RequestType
  <2>5. Cardinality(CallsTo(n)') = Cardinality(CallsTo(n)) + 1
    BY <2>2, <2>3, CallsFinite, FS_AddElement
  <2>6. records'[n].inFlight = Cardinality(CallsTo(n)')
    BY <1>0, <2>1, <2>5, BeginEffect DEF InFlightExact
  <2>7. ASSUME NEW m \in Nodes, m # n
        PROVE  records'[m].inFlight = Cardinality(CallsTo(m)')
    BY <1>0, <2>1, <2>4, <2>7, BeginEffect DEF InFlightExact, OthersKept
  <2> QED BY <2>6, <2>7 DEF InFlightExact
<1>2. ASSUME NEW s \in Slots, Release(s)
      PROVE  InFlightExact'
  <2>1. PICK n \in Nodes : n = selection[s].node /\ endRequest(n)
    BY <1>2, CalledNode DEF Release, CallStep, Calling
  <2>2. s \in CallsTo(n)
    BY <1>2, <2>1 DEF Release, CallStep, CallsTo, Calling
  <2>3. CallsTo(n)' = CallsTo(n) \ {s}
    BY <1>0, <1>2, <2>1 DEF Release, CallStep, CallsTo, Calling, RequestType
  <2>4. ASSUME NEW m \in Nodes, m # n
        PROVE  CallsTo(m)' = CallsTo(m)
    BY <1>0, <1>2, <2>1, <2>4 DEF Release, CallStep, CallsTo, Calling, RequestType
  <2>5. Cardinality(CallsTo(n)') = Cardinality(CallsTo(n)) - 1
    BY <2>2, <2>3, CallsFinite, FS_RemoveElement
  <2>6. Cardinality(CallsTo(n)) # 0
    BY <2>2, CallsFinite, FS_EmptySet
  <2>7. records'[n].inFlight = Cardinality(CallsTo(n)')
    BY <1>0, <2>1, <2>5, <2>6, EndEffect DEF InFlightExact
  <2>8. ASSUME NEW m \in Nodes, m # n
        PROVE  records'[m].inFlight = Cardinality(CallsTo(m)')
    BY <1>0, <2>1, <2>4, <2>8, EndEffect DEF InFlightExact, OthersKept
  <2> QED BY <2>7, <2>8 DEF InFlightExact
<1>3. ASSUME \A n \in Nodes : records'[n].inFlight = records[n].inFlight,
             \A t \in Slots : /\ pc'[t] \in Calling <=> pc[t] \in Calling
                              /\ pc[t] \in Calling => selection'[t] = selection[t]
      PROVE  InFlightExact'
  <2>1. ASSUME NEW n \in Nodes
        PROVE  CallsTo(n)' = CallsTo(n)
    BY <1>3 DEF CallsTo
  <2> QED BY <1>3, <2>1 DEF InFlightExact
<1>4. ASSUME NEW s \in Slots, RequestStep(s), ~Begin(s), ~Release(s)
      PROVE  InFlightExact'
  <2>1. \A t \in Slots : /\ pc'[t] \in Calling <=> pc[t] \in Calling
                         /\ pc[t] \in Calling => selection'[t] = selection[t]
    <3>1. /\ pc'[s] \in Calling <=> pc[s] \in Calling
          /\ pc[s] \in Calling => selection'[s] = selection[s]
      BY <1>0, <1>4 DEF RequestStep, RequestType, Arrive, Over, Disconnect, Select,
         SelectNode, NoCapacity, CallEnds, CallFails, CallSucceeds, StreamBegins,
         StreamEnds, Settle, SettleFails, Report, CallStep, Calling
    <3> QED BY <1>0, <1>4, <3>1, OtherRequests
  <2>2. CASE Report(s)
    <3>1. PICK n \in Nodes, x \in BOOLEAN : recordOutcome(n, x)
      BY <1>0, <2>2, CalledNode DEF Report, CallStep, Calling, RequestType
    <3> QED BY <1>0, <1>3, <2>1, <3>1, OutcomeEffect DEF OthersKept
  <2>3. CASE UNCHANGED nodeStore
    BY <1>3, <2>1, <2>3 DEF nodeStore
  <2> QED BY <1>4, <2>2, <2>3
      DEF RequestStep, Arrive, Disconnect, Select, SelectNode, NoCapacity, CallEnds,
          CallFails, CallSucceeds, StreamBegins, StreamEnds, Settle, SettleFails
<1>5. ASSUME NEW h \in Handlers, Upsert(h)
      PROVE  InFlightExact'
  <2>1. PICK n \in Nodes, i \in Record :
           upsert(n, i) /\ (records[n].op = None => i.inFlight = 0)
    BY <1>5 DEF Upsert, StoreInv, HandlerType, HandlersSound, Idle, Registered
  <2>2. records'[n].inFlight = records[n].inFlight
    BY <1>0, <2>1, UpsertEffect DEF StoreInv, FreshNodes, Registered
  <2>3. \A m \in Nodes : records'[m].inFlight = records[m].inFlight
    BY <1>0, <2>1, <2>2, UpsertEffect DEF OthersKept
  <2> QED BY <1>3, <1>5, <2>3 DEF Upsert, request
<1>6. ASSUME NEW n \in Nodes, Stale(n)
      PROVE  InFlightExact'
  <2>1. \A m \in Nodes : records'[m].inFlight = records[m].inFlight
    BY <1>0, <1>6, StaleEffect DEF Stale, OthersKept
  <2> QED BY <1>3, <1>6, <2>1 DEF Stale, request
<1>7. CASE UNCHANGED <<nodeStore, request>>
  BY <1>3, <1>7 DEF nodeStore, request
<1>8. ASSUME NEW h \in Handlers, HandlerStep(h), ~Upsert(h)
      PROVE  UNCHANGED <<nodeStore, request>>
  BY <1>8 DEF HandlerStep, RegisterChecked, HeartbeatVerified, HeartbeatRead
<1> QED BY <1>1, <1>2, <1>4, <1>5, <1>6, <1>7, <1>8 DEF Next, vars

-----------------------------------------------------------------------------
(* The inductive invariant, and what it gives.                              *)

(* The initial state satisfies it: no node is registered, no call runs.     *)
LEMMA InitInv == Init => IInv
<1> SUFFICES ASSUME Init PROVE IInv
  OBVIOUS
<1>1. NodeStoreTypeOK /\ FreshNodes /\ HealthIsEarned
  BY NodeStoreAssumption
  DEF Init, NodeStoreInit, NodeStoreTypeOK, FreshNodes, HealthIsEarned, Registered,
      NoRecord, Record
<1>2. RequestType /\ CallsRegistered
  BY DEF Init, RequestType, CallsRegistered, Calling
<1>3. HandlerType /\ HandlersSound
  BY DEF Init, HandlerType, HandlersSound
<1>4. Crediting
  BY DEF Init, Crediting, CreditingOf, Calling
<1>5. InFlightExact
  <2>1. ASSUME NEW n \in Nodes
        PROVE  CallsTo(n) = {} /\ records[n].inFlight = 0
    BY DEF Init, NodeStoreInit, NoRecord, CallsTo, Calling
  <2> QED BY <2>1, FS_EmptySet DEF InFlightExact
<1> QED BY <1>1, <1>2, <1>3, <1>4, <1>5 DEF IInv, StoreInv

(* Every step keeps it.                                                     *)
LEMMA NextInv == IInv /\ [Next]_vars => IInv'
BY StoreInvStep, CreditingStep, InFlightStep DEF IInv

(* It is an invariant of the request path.                                  *)
THEOREM Invariance == Spec => []IInv
BY InitInv, NextInv, PTL DEF Spec

(* Records, windows, requests and handlers keep their types (the records of *)
(* memory.ts, the locals of route and handleRegister).                      *)
THEOREM TypeCorrect == Spec => []TypeOK
<1>1. IInv => TypeOK
  BY DEF IInv, StoreInv, TypeOK, RequestType, HandlerType
<1> QED BY <1>1, Invariance, PTL

(* A node's in-flight count is exactly the number of calls to it that have  *)
(* begun and not ended (beginRequest, endRequest, mergeRecord).             *)
THEOREM CountsAreExact == Spec => []InFlightExact
<1>1. IInv => InFlightExact
  BY DEF IInv
<1> QED BY <1>1, Invariance, PTL

(* The stored health flag is what the window says, whatever heartbeats and  *)
(* registrations were read before an outcome and written after it           *)
(* (mergeRecord, recordOutcome).                                            *)
THEOREM HealthFollowsOutcomes == Spec => []HealthIsEarned
<1>1. IInv => HealthIsEarned
  BY DEF IInv, StoreInv
<1> QED BY <1>1, Invariance, PTL

(* A settled payment is credited to the one operator whose node answered    *)
(* (route, onNodeSelected, the settlement hook).                            *)
THEOREM PaymentFollowsService == Spec => []PaidToServer
<1>1. IInv => PaidToServer
  BY CreditingPays DEF IInv
<1> QED BY <1>1, Invariance, PTL
=============================================================================
