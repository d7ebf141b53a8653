------------------------------ MODULE Replies -------------------------------
(***************************************************************************)
(* What a failure becomes on the wire: the error classes and the details    *)
(* they may carry (packages/shared/src/errors.ts), the gateway's last error *)
(* handler (packages/gateway/src/middleware/errorHandler.ts), the errors    *)
(* its node routes raise (routes/nodes.ts) and what the daemon makes of the *)
(* answer (packages/node-daemon/src/registration.ts, heartbeat.ts).         *)
(*                                                                          *)
(* A detail is a kind and its parts; the parts of an object are named by a  *)
(* plain key or by one that looks like a secret's.                          *)
(***************************************************************************)
EXTENDS Naturals, Sequences

CONSTANTS
    MaxDetailItems,     \* MAX_DETAIL_ITEMS
    MaxDetailDepth      \* the depth below which details are cut off

ASSUME RepliesAssumption == MaxDetailItems \in Nat \ {0} /\ MaxDetailDepth \in Nat

LeafKinds == {"text", "long", "number", "bigint", "undefined", "error"}
Leaf(kind) == [kind |-> kind, parts |-> <<>>]
Part(key, value) == [key |-> key, value |-> value]

-----------------------------------------------------------------------------
(* A part as it leaves: what is not defined is dropped from an object and   *)
(* stays a hole in a list.                                                  *)
RECURSIVE sanitizeDetailValue(_, _)
Sanitized(v, depth) ==
    LET kept == SubSeq(v.parts, 1, IF Len(v.parts) < MaxDetailItems THEN Len(v.parts)
                                   ELSE MaxDetailItems)
        safe(p) == Part(p.key, IF v.kind = "object" /\ p.key = "secret" THEN Leaf("redacted")
                               ELSE sanitizeDetailValue(p.value, depth + 1))
        parts == [i \in DOMAIN kept |-> safe(kept[i])]
    IN [v EXCEPT !.parts =
          IF v.kind = "object" THEN SelectSeq(parts, LAMBDA p : p.value.kind # "undefined")
          ELSE parts]

sanitizeDetailValue(v, depth) ==
    IF depth > MaxDetailDepth THEN Leaf("truncated")
    ELSE CASE v.kind \in {"text", "number", "undefined"} -> v
           [] v.kind = "long" -> Leaf("shortened")
           [] v.kind = "bigint" -> Leaf("text")
           [] v.kind = "error" -> Leaf("class name")
           [] v.kind \in {"list", "object"} -> Sanitized(v, depth)

-----------------------------------------------------------------------------
(* Mutant of Classes: a node that is gone is a malformed request.           *)
NotFoundIsInvalid ==
    [ConfigError |-> 500, PricingError |-> 500, ValidationError |-> 400, NotFoundError |-> 400,
     PaymentError |-> 402, SettlementError |-> 502, NoCapacityError |-> 503,
     UpstreamError |-> 502, AuthError |-> 401, RateLimitError |-> 429, PayloadTooLarge |-> 413]

(* The status of each class.                                                *)
Classes ==
    [ConfigError |-> 500, PricingError |-> 500, ValidationError |-> 400, NotFoundError |-> 404,
     PaymentError |-> 402, SettlementError |-> 502, NoCapacityError |-> 503,
     UpstreamError |-> 502, AuthError |-> 401, RateLimitError |-> 429, PayloadTooLarge |-> 413]

(* A throwable is an instance of a class, or a "plain" error with the       *)
(* status it carries, 0 for none.                                           *)
MeshError(class, details) == [class |-> class, status |-> 0, details |-> details]
Plain(status) == [class |-> "plain", status |-> status, details |-> Leaf("undefined")]

(* The body parser's complaints are the client's mistakes.                  *)
normalizeBodyParserError(e) ==
    IF e.class # "plain" \/ e.status \notin 400 .. 499 THEN e
    ELSE IF e.status = 413
    THEN MeshError("PayloadTooLarge", [kind |-> "object", parts |-> <<Part("plain", Leaf("text"))>>])
    ELSE MeshError("ValidationError", Leaf("undefined"))

(* Only the mesh's own errors speak to a client; empty details are left out.*)
toErrorResponse(e) ==
    IF e.class = "plain"
    THEN [status |-> 500, code |-> "internal", details |-> Leaf("undefined")]
    ELSE LET details == sanitizeDetailValue(e.details, 0)
         IN [status |-> Classes[e.class], code |-> e.class,
             details |-> IF details.parts = <<>> THEN Leaf("undefined") ELSE details]

(* Once the headers are on the wire the response can only be ended.         *)
errorHandler(e, headersSent) ==
    IF headersSent THEN <<>> ELSE <<toErrorResponse(normalizeBodyParserError(e))>>

-----------------------------------------------------------------------------
(* What a registration or a heartbeat can fail on, and what is thrown.      *)
handleRegister ==
    [invalid |-> MeshError("ValidationError", Leaf("undefined")),
     forged |-> MeshError("AuthError", Leaf("undefined")),
     replayed |-> MeshError("ValidationError", Leaf("undefined")),
     elsewhere |-> MeshError("ValidationError", Leaf("undefined")),
     unpayable |-> MeshError("ValidationError", Leaf("undefined")),
     taken |-> MeshError("AuthError", Leaf("undefined")),
     broken |-> Plain(0)]

handleHeartbeat ==
    [invalid |-> MeshError("ValidationError", Leaf("undefined")),
     forgotten |-> MeshError("NotFoundError", Leaf("undefined")),
     forged |-> MeshError("AuthError", Leaf("undefined")),
     replayed |-> MeshError("ValidationError", Leaf("undefined")),
     broken |-> Plain(0)]

(* The daemon: a registration is tried again, a heartbeat re-registers.     *)
isRetryableStatus(status) == status \in {408, 425, 429} \/ status >= 500
reregisters(status) == status \in {404, 410}

-----------------------------------------------------------------------------
(* Nothing that should not leave is left in a detail.                       *)
RECURSIVE Contained(_, _)
Contained(v, depth) ==
    /\ v.kind \notin {"long", "bigint", "error"}
    /\ depth <= MaxDetailDepth + 1 /\ Len(v.parts) <= MaxDetailItems
    /\ \A i \in DOMAIN v.parts :
         /\ v.kind = "object" /\ v.parts[i].key = "secret" => v.parts[i].value.kind = "redacted"
         /\ Contained(v.parts[i].value, depth + 1)

(* Whatever details an error was given, what leaves is small, flat and      *)
(* holds nothing under a secret's name; a failure is never a success, so    *)
(* that it is not charged for, and of an error that is not the mesh's own   *)
(* nothing but a 500 leaves.                                                *)
ReplySafe(e, headersSent) ==
    LET replies == errorHandler(e, headersSent) IN
    /\ replies = <<>> <=> headersSent
    /\ \A i \in DOMAIN replies :
         /\ replies[i].status >= 400
         /\ Contained(replies[i].details, 0)
         /\ e.class = "plain" =>
              IF e.status \in 400 .. 499
              THEN replies[i].status = (IF e.status = 413 THEN 413 ELSE 400)
              ELSE replies[i].status = 500

(* A node understands every refusal: it tries a registration again exactly  *)
(* when the gateway broke down over it, gives up one that was refused for   *)
(* what it says (an operator that cannot be paid included, which is also    *)
(* how an unreachable algod looks), and answers a heartbeat's refusal with  *)
(* a new registration exactly when the gateway has forgotten the node.      *)
RefusalsUnderstood ==
    LET status(e) == errorHandler(e, FALSE)[1].status IN
    /\ \A c \in DOMAIN handleRegister :
         isRetryableStatus(status(handleRegister[c])) <=> c = "broken"
    /\ \A c \in DOMAIN handleHeartbeat :
         reregisters(status(handleHeartbeat[c])) <=> c = "forgotten"

=============================================================================
