----------------------------- MODULE Completion -----------------------------
(***************************************************************************)
(* How the daemon makes a backend's answer fit the mesh's contract          *)
(* (packages/node-daemon/src/providers/openai-compatible.ts) and the        *)
(* contract itself (packages/shared/src/schemas.ts).                        *)
(*                                                                          *)
(* A field holds a value of its kind, or Absent (NoCount for a number): it  *)
(* is not there, or null, or something else, which the code treats alike.   *)
(* id, created and model are filled in as a choice's finish_reason is.      *)
(***************************************************************************)
EXTENDS Integers, Sequences, FiniteSets

Absent == "absent"
NoCount == -1
Roles == {"system", "user", "assistant"}
Unusable == [usable |-> FALSE]

-----------------------------------------------------------------------------
(* asCount(value) ?? default: a count that is not a natural number is none. *)
orElse(value, default) == IF value >= 0 THEN value ELSE default
Max0(n) == IF n < 0 THEN 0 ELSE n

normalizeRole(value) == IF value \in {"system", "user"} THEN value ELSE "assistant"

orNull(value) == IF value = Absent THEN "null" ELSE value
orEmpty(value) == IF value = Absent THEN "" ELSE value

(* normalizeChoices: an entry that is not an object reads as an empty one.  *)
normalizeChoices(list) ==
    [i \in DOMAIN list |->
       [index |-> orElse(list[i].index, i - 1),
        role |-> normalizeRole(list[i].role),
        content |-> orEmpty(list[i].content),
        finish_reason |-> orNull(list[i].finish_reason)]]

(* normalizeChunkChoices: a delta keeps only what it carries.               *)
normalizeChunkChoices(list) ==
    [i \in DOMAIN list |->
       [index |-> orElse(list[i].index, i - 1),
        role |-> IF list[i].role = Absent THEN Absent ELSE normalizeRole(list[i].role),
        content |-> list[i].content,
        finish_reason |-> orNull(list[i].finish_reason)]]

(* Mutant of normalizeUsage: the total is always recomputed.                *)
UsageRecomputed(raw) ==
    LET prompt == orElse(raw.prompt, 0)
        completion == orElse(raw.completion, 0)
    IN [prompt |-> prompt, completion |-> completion, total |-> prompt + completion]

(* normalizeUsage: the total from its parts, or the parts from the total.   *)
normalizeUsage(raw) ==
    LET prompt == orElse(raw.prompt, 0)
        completion == orElse(raw.completion, 0)
    IN IF raw.total >= 0 /\ (raw.prompt < 0 \/ raw.completion < 0)
       THEN [prompt |-> orElse(raw.prompt, Max0(raw.total - completion)),
             completion |-> orElse(raw.completion, Max0(raw.total - prompt)),
             total |-> raw.total]
       ELSE [prompt |-> prompt, completion |-> completion,
             total |-> orElse(raw.total, prompt + completion)]

-----------------------------------------------------------------------------
(* ChatCompletionResponseSchema and ChatCompletionChunkSchema.              *)
ChoiceOk(c) == c.index \in Nat /\ c.role \in Roles /\ c.content # Absent
ChunkChoiceOk(c) == c.index \in Nat /\ c.role \in Roles \cup {Absent}
UsageOk(u) == \A k \in DOMAIN u : u[k] \in Nat

(* normalizeCompletion, the two parts of it that are more than a default.   *)
normalizeCompletion(body) ==
    LET choices == normalizeChoices(body.choices)
        usage == normalizeUsage(body.usage)
    IN IF body.object /\ UsageOk(usage) /\ \A i \in DOMAIN choices : ChoiceOk(choices[i])
       THEN [usable |-> TRUE, choices |-> choices, usage |-> usage] ELSE Unusable

(* normalizeChunk: an error inside a frame ends the stream.                 *)
normalizeChunk(frame) ==
    LET choices == normalizeChunkChoices(frame.choices) IN
    IF frame.object /\ ~frame.error /\ \A i \in DOMAIN choices : ChunkChoiceOk(choices[i])
    THEN [usable |-> TRUE, choices |-> choices] ELSE Unusable

-----------------------------------------------------------------------------
(* Every object a backend sends becomes a completion of the contract, one   *)
(* that is of the contract already is not changed, and doing it twice       *)
(* changes nothing more; no choice and no text is lost; of the token counts *)
(* none that was reported is changed, and they add up when those reported   *)
(* leave one unknown.  A frame with an error in it never passes for text.   *)
NormalForm(body) ==
    LET c == normalizeCompletion(body)
        d == normalizeChunk(body)
        kept(ds) == \A i \in DOMAIN body.choices :
                      body.choices[i].content # Absent =>
                          ds[i].content = body.choices[i].content
        u == body.usage
        reported == {k \in DOMAIN u : u[k] >= 0}
    IN /\ c.usable = body.object
       /\ d.usable = (body.object /\ ~body.error)
       /\ c.usable =>
            /\ Len(c.choices) = Len(body.choices) /\ kept(c.choices)
            /\ (\A i \in DOMAIN body.choices : ChoiceOk(body.choices[i])
                  /\ body.choices[i].finish_reason # Absent) => c.choices = body.choices
            /\ normalizeCompletion([body EXCEPT !.choices = c.choices, !.usage = c.usage]) = c
            /\ \A k \in reported : c.usage[k] = u[k]
            /\ ("total" \in reported =>
                  Cardinality(reported) = 2 /\ \A k \in reported : u[k] <= u.total)
                 => c.usage.total = c.usage.prompt + c.usage.completion
       /\ d.usable => /\ Len(d.choices) = Len(body.choices) /\ kept(d.choices)
                      /\ normalizeChunk([body EXCEPT !.choices = d.choices]) = d

=============================================================================
