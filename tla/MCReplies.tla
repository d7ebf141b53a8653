----------------------------- MODULE MCReplies ------------------------------
(***************************************************************************)
(* The rules of MCRules with one more question: what a failure is answered  *)
(* with.                                                                    *)
(***************************************************************************)
EXTENDS MCRules, Replies

(* Details too wide, too deep, and both.                                    *)
Leaves == {Leaf(kind) : kind \in LeafKinds}
Wrapped(values) ==
    {[kind |-> "list", parts |-> <<Part("item", v)>>] : v \in values}
      \cup {[kind |-> "object", parts |-> <<Part(key, v)>>] : key \in {"plain", "secret"}, v \in values}
Pairs == {[kind |-> "object", parts |-> <<Part(k, v), Part(l, w)>>] :
            k, l \in {"plain", "secret"}, v, w \in Leaves}
           \cup {[kind |-> "list", parts |-> <<Part("item", v), Part("item", w), Part("item", v)>>] :
                    v, w \in Leaves}
Shallow == Leaves \cup Wrapped(Leaves) \cup Pairs
Details == {d \in Shallow \cup Wrapped(Shallow) \cup Wrapped(Wrapped(Shallow)) : d.kind = "object"}
             \cup {Leaf("undefined")}

-----------------------------------------------------------------------------
AskReply ==
    \E headersSent \in BOOLEAN :
        \/ \E d \in Details :
             Ask([about |-> "reply", sent |-> headersSent, error |-> MeshError("UpstreamError", d)])
        \/ \E class \in DOMAIN Classes :
             Ask([about |-> "reply", sent |-> headersSent,
                  error |-> MeshError(class, Leaf("undefined"))])
        \/ \E status \in {0, 200, 399, 400, 413, 415, 499, 500} :
             Ask([about |-> "reply", sent |-> headersSent, error |-> Plain(status)])

RepliesNext ==
    \/ RulesNext
    \/ Unasked /\ AskReply /\ UNCHANGED vars

RepliesSpec == RulesInit /\ [][RepliesNext]_<<vars, asked>>

-----------------------------------------------------------------------------
(* A failure reaches the client and the node as what it is: see ReplySafe   *)
(* and RefusalsUnderstood of Replies.                                       *)
RepliesSafe ==
    /\ asked.about = "reply" => ReplySafe(asked.error, asked.sent)
    /\ RefusalsUnderstood

=============================================================================
