---------------------------- MODULE RulesProofs -----------------------------
(***************************************************************************)
(* Proofs about the rules that keep no state: what a model check tries on   *)
(* the inputs of MCRules holds of every input the code can meet.            *)
(***************************************************************************)
EXTENDS MCRules, FiniteSetTheorems, WellFoundedInduction, TLAPS

(* What is asked in a behaviour of MCRules: an invariant needs to hold of   *)
(* the first question only, for there is no second.                         *)
LEMMA AskedOnce ==
  ASSUME RulesNext, asked' # asked
  PROVE  asked = Nothing /\ Question
BY DEF RulesNext, Question, Unasked

-----------------------------------------------------------------------------
(* A backend's answer.                                                      *)

(* A choice whose fields are of their kinds or Absent, whatever kinds those *)
(* are, and a body made of them.                                            *)
AnyCount == Nat \cup {NoCount}
AnyChoice(A) == [index : AnyCount, role : A, content : A, finish_reason : A]
AnyChoices(A) == Seq(AnyChoice(A))
AnyUsage == [prompt : AnyCount, completion : AnyCount, total : AnyCount]
AnyBody(A) == [object : BOOLEAN, error : BOOLEAN, choices : AnyChoices(A), usage : AnyUsage]

(* Counts are natural numbers, the reported ones as reported, and counts    *)
(* that are in order stay as they are.                                      *)
LEMMA UsageNormal ==
  ASSUME NEW u \in AnyUsage
  PROVE  LET v == normalizeUsage(u)
         IN  /\ v \in [prompt : Nat, completion : Nat, total : Nat] /\ UsageOk(v)
             /\ normalizeUsage(v) = v
             /\ \A k \in DOMAIN u : u[k] >= 0 => v[k] = u[k]
<1> DEFINE v == normalizeUsage(u)
<1>1. /\ u.prompt \in AnyCount /\ u.completion \in AnyCount /\ u.total \in AnyCount
      /\ DOMAIN u = {"prompt", "completion", "total"}
  BY DEF AnyUsage
<1>2. \A n \in AnyCount : n \in Int /\ (n < 0 \/ n \in Nat)
  BY DEF AnyCount, NoCount
<1>3. /\ \A n \in AnyCount, m \in Nat : orElse(n, m) \in Nat /\ (n >= 0 => orElse(n, m) = n)
      /\ \A n \in Int : Max0(n) \in Nat
  BY <1>2 DEF orElse, Max0
<1>4. v \in [prompt : Nat, completion : Nat, total : Nat]
  BY <1>1, <1>2, <1>3, SMTT(30) DEF normalizeUsage
<1>5. UsageOk(v)
  BY <1>4 DEF UsageOk
<1>6. v.prompt \in Nat /\ v.completion \in Nat /\ v.total \in Nat
  BY <1>4
<1>7. ASSUME NEW w \in [prompt : Nat, completion : Nat, total : Nat] PROVE normalizeUsage(w) = w
  BY DEF normalizeUsage, orElse
<1>8. /\ u.prompt >= 0 => v.prompt = u.prompt
      /\ u.completion >= 0 => v.completion = u.completion
      /\ u.total >= 0 => v.total = u.total
  BY <1>1, <1>2 DEF normalizeUsage, orElse
<1> HIDE DEF v
<1>9. \A k \in DOMAIN u : u[k] >= 0 => v[k] = u[k]
  BY <1>1, <1>8
<1> QED
  BY <1>4, <1>5, <1>7, <1>9 DEF v

(* Two reported counts, one of them the total, leave one part unknown: it   *)
(* is what the total leaves of the other.                                   *)
LEMMA UsageAddsUp ==
  ASSUME NEW u \in AnyUsage,
         LET reported == {k \in DOMAIN u : u[k] >= 0}
         IN "total" \in reported =>
              Cardinality(reported) = 2 /\ \A k \in reported : u[k] <= u.total
  PROVE  normalizeUsage(u).total = normalizeUsage(u).prompt + normalizeUsage(u).completion
<1> DEFINE reported == {k \in DOMAIN u : u[k] >= 0}
<1>1. /\ u.prompt \in AnyCount /\ u.completion \in AnyCount /\ u.total \in AnyCount
      /\ DOMAIN u = {"prompt", "completion", "total"}
  BY DEF AnyUsage
<1>2. \A n \in AnyCount : n \in Int /\ (n < 0 \/ n \in Nat)
  BY DEF AnyCount, NoCount
<1>3. CASE u.total < 0
  BY <1>1, <1>2, <1>3 DEF normalizeUsage, orElse
<1>4. CASE u.total >= 0
  <2>1. "total" \in reported /\ u["total"] = u.total
    BY <1>1, <1>4
  <2>2. Cardinality(reported) = 2 /\ \A k \in reported : u[k] <= u.total
    BY <2>1
  <2>3. ~(u.prompt < 0 /\ u.completion < 0)
    <3> SUFFICES ASSUME u.prompt < 0, u.completion < 0 PROVE FALSE
      OBVIOUS
    <3>1. reported = {"total"}
      BY <1>1, <1>2, <1>4
    <3> QED
      BY <2>2, <3>1, FS_Singleton
  <2>4. ~(u.prompt >= 0 /\ u.completion >= 0)
    <3> SUFFICES ASSUME u.prompt >= 0, u.completion >= 0 PROVE FALSE
      OBVIOUS
    <3>1. reported = {"prompt", "completion"} \cup {"total"}
      BY <1>1, <1>2, <1>4
    <3>2. Cardinality({"prompt"}) = 1 /\ IsFiniteSet({"prompt"})
      BY FS_Singleton
    <3>3. Cardinality({"prompt"} \cup {"completion"}) = 2 /\ IsFiniteSet({"prompt"} \cup {"completion"})
      <4>1. Cardinality({"prompt"} \cup {"completion"}) = Cardinality({"prompt"}) + 1
        BY <3>2, FS_AddElement
      <4> QED
        BY <3>2, <4>1, FS_AddElement
    <3>4. {"prompt"} \cup {"completion"} = {"prompt", "completion"}
      OBVIOUS
    <3>5. Cardinality(reported) = 3
      BY <3>1, <3>3, <3>4, FS_AddElement
    <3> QED
      BY <2>2, <3>5
  <2>5. CASE u.prompt >= 0 /\ u.completion < 0
    <3>1. u.prompt <= u.total
      BY <1>1, <2>2, <2>5
    <3> QED
      BY <1>1, <1>2, <1>4, <2>5, <3>1 DEF normalizeUsage, orElse, Max0
  <2>6. CASE u.prompt < 0 /\ u.completion >= 0
    <3>1. u.completion <= u.total
      BY <1>1, <2>2, <2>6
    <3> QED
      BY <1>1, <1>2, <1>4, <2>6, <3>1 DEF normalizeUsage, orElse, Max0
  <2> QED
    BY <1>1, <1>2, <2>3, <2>4, <2>5, <2>6
<1> QED
  BY <1>1, <1>2, <1>3, <1>4

(* Choices.  Absent is a kind of its own, neither a text nor null.          *)
LEMMA ChoicesNormal ==
  ASSUME NEW A, NEW l \in AnyChoices(A)
  PROVE  LET ds == normalizeChoices(l)
         IN  /\ DOMAIN ds = DOMAIN l /\ Len(ds) = Len(l)
             /\ \A i \in DOMAIN l : ChoiceOk(ds[i])
             /\ \A i \in DOMAIN l : l[i].content # Absent => ds[i].content = l[i].content
             /\ normalizeChoices(ds) = ds
             /\ (\A i \in DOMAIN l : ChoiceOk(l[i]) /\ l[i].finish_reason # Absent) => ds = l
<1> DEFINE ds == normalizeChoices(l)
           Normal(c, i) == [index |-> orElse(c.index, i - 1), role |-> normalizeRole(c.role),
                            content |-> orEmpty(c.content),
                            finish_reason |-> orNull(c.finish_reason)]
<1>1. /\ Len(l) \in Nat /\ DOMAIN l = 1 .. Len(l)
      /\ l \in [DOMAIN l -> AnyChoice(A)]
  BY DEF AnyChoices
<1>2. ds = [i \in DOMAIN l |-> Normal(l[i], i)]
  BY DEF normalizeChoices
<1>3. DOMAIN ds = DOMAIN l /\ Len(ds) = Len(l)
  <2> HIDE DEF ds
  <2> QED
    BY <1>1, <1>2
<1>4. \A n \in AnyCount, m \in Nat :
         orElse(n, m) \in Nat /\ orElse(orElse(n, m), m) = orElse(n, m) /\ (n \in Nat => orElse(n, m) = n)
  BY DEF orElse, AnyCount, NoCount
<1>5. ASSUME NEW i \in DOMAIN l
      PROVE  /\ ChoiceOk(Normal(l[i], i))
             /\ l[i].content # Absent => Normal(l[i], i).content = l[i].content
             /\ Normal(Normal(l[i], i), i) = Normal(l[i], i)
             /\ ChoiceOk(l[i]) /\ l[i].finish_reason # Absent => Normal(l[i], i) = l[i]
  <2>1. l[i] \in AnyChoice(A) /\ i - 1 \in Nat
    BY <1>1
  <2>2. PICK c : c = l[i]
    OBVIOUS
  <2>3. /\ c.index \in AnyCount
        /\ c = [index |-> c.index, role |-> c.role, content |-> c.content,
                finish_reason |-> c.finish_reason]
    BY <2>1, <2>2 DEF AnyChoice
  <2>4. orElse(c.index, i - 1) \in Nat
    BY <1>4, <2>1, <2>3
  <2>5. /\ \A r : normalizeRole(r) \in Roles /\ normalizeRole(normalizeRole(r)) = normalizeRole(r)
                  /\ (r \in Roles => normalizeRole(r) = r)
        /\ \A x : orEmpty(x) # Absent /\ (x # Absent => orEmpty(x) = x) /\ orEmpty(orEmpty(x)) = orEmpty(x)
        /\ \A x : (x # Absent => orNull(x) = x) /\ orNull(orNull(x)) = orNull(x)
    BY DEF normalizeRole, Roles, orEmpty, orNull, Absent
  <2>6. ChoiceOk(Normal(c, i))
    BY <2>4, <2>5 DEF ChoiceOk
  <2>7. Normal(Normal(c, i), i) = Normal(c, i)
    BY <1>4, <2>1, <2>3, <2>5
  <2>8. ChoiceOk(c) /\ c.finish_reason # Absent => Normal(c, i) = c
    <3> SUFFICES ASSUME ChoiceOk(c), c.finish_reason # Absent PROVE Normal(c, i) = c
      OBVIOUS
    <3>1. /\ orElse(c.index, i - 1) = c.index /\ normalizeRole(c.role) = c.role
          /\ orEmpty(c.content) = c.content /\ orNull(c.finish_reason) = c.finish_reason
      BY <1>4, <2>1, <2>3, <2>5 DEF ChoiceOk
    <3> QED
      BY <2>3, <3>1
  <2> QED
    BY <2>2, <2>5, <2>6, <2>7, <2>8
<1> HIDE DEF ds
<1>6. \A i \in DOMAIN l : ds[i] = Normal(l[i], i)
  BY <1>2
<1> HIDE DEF Normal
<1>7. /\ \A i \in DOMAIN l : ChoiceOk(ds[i])
      /\ \A i \in DOMAIN l : l[i].content # Absent => ds[i].content = l[i].content
  BY <1>5, <1>6
<1>8. normalizeChoices(ds) = ds
  <2>1. normalizeChoices(ds) = [i \in DOMAIN ds |-> Normal(ds[i], i)]
    BY DEF normalizeChoices, Normal
  <2>2. \A i \in DOMAIN l : Normal(ds[i], i) = ds[i]
    BY <1>5, <1>6
  <2> QED
    BY <1>2, <1>3, <1>6, <2>1, <2>2
<1>9. (\A i \in DOMAIN l : ChoiceOk(l[i]) /\ l[i].finish_reason # Absent) => ds = l
  <2> SUFFICES ASSUME \A i \in DOMAIN l : ChoiceOk(l[i]) /\ l[i].finish_reason # Absent PROVE ds = l
    OBVIOUS
  <2>1. \A i \in DOMAIN l : Normal(l[i], i) = l[i]
    BY <1>5
  <2>2. l = [i \in DOMAIN l |-> l[i]]
    BY <1>1
  <2> QED
    BY <1>2, <2>1, <2>2
<1> QED
  BY <1>3, <1>7, <1>8, <1>9 DEF ds

(* The same of a chunk's choices, whose texts stay as they are, Absent or   *)
(* not.                                                                     *)
LEMMA DeltasNormal ==
  ASSUME NEW A, NEW l \in AnyChoices(A)
  PROVE  LET ds == normalizeChunkChoices(l)
         IN  /\ DOMAIN ds = DOMAIN l /\ Len(ds) = Len(l)
             /\ \A i \in DOMAIN l : ChunkChoiceOk(ds[i])
             /\ \A i \in DOMAIN l : ds[i].content = l[i].content
             /\ normalizeChunkChoices(ds) = ds
<1> DEFINE ds == normalizeChunkChoices(l)
           Normal(c, i) == [index |-> orElse(c.index, i - 1),
                            role |-> IF c.role = Absent THEN Absent ELSE normalizeRole(c.role),
                            content |-> c.content,
                            finish_reason |-> orNull(c.finish_reason)]
<1>1. /\ Len(l) \in Nat /\ DOMAIN l = 1 .. Len(l)
      /\ l \in [DOMAIN l -> AnyChoice(A)]
  BY DEF AnyChoices
<1>2. ds = [i \in DOMAIN l |-> Normal(l[i], i)]
  BY DEF normalizeChunkChoices
<1>3. DOMAIN ds = DOMAIN l /\ Len(ds) = Len(l)
  <2> HIDE DEF ds
  <2> QED
    BY <1>1, <1>2
<1>4. \A n \in AnyCount, m \in Nat :
         orElse(n, m) \in Nat /\ orElse(orElse(n, m), m) = orElse(n, m)
  BY DEF orElse, AnyCount, NoCount
<1>5. ASSUME NEW i \in DOMAIN l
      PROVE  /\ ChunkChoiceOk(Normal(l[i], i))
             /\ Normal(l[i], i).content = l[i].content
             /\ Normal(Normal(l[i], i), i) = Normal(l[i], i)
  <2>1. l[i].index \in AnyCount /\ i - 1 \in Nat
    BY <1>1 DEF AnyChoice
  <2>2. orElse(l[i].index, i - 1) \in Nat
    BY <1>4, <2>1
  <2>3. /\ \A r : normalizeRole(r) \in Roles /\ normalizeRole(normalizeRole(r)) = normalizeRole(r)
        /\ \A x : orNull(orNull(x)) = orNull(x)
        /\ Absent \notin Roles
    BY DEF normalizeRole, Roles, orNull, Absent
  <2>4. ChunkChoiceOk(Normal(l[i], i))
    BY <2>2, <2>3 DEF ChunkChoiceOk
  <2>5. Normal(Normal(l[i], i), i) = Normal(l[i], i)
    BY <1>4, <2>1, <2>3
  <2> QED
    BY <2>4, <2>5
<1> HIDE DEF ds
<1>6. \A i \in DOMAIN l : ds[i] = Normal(l[i], i)
  BY <1>2
<1> HIDE DEF Normal
<1>7. /\ \A i \in DOMAIN l : ChunkChoiceOk(ds[i])
      /\ \A i \in DOMAIN l : ds[i].content = l[i].content
  BY <1>5, <1>6
<1>8. normalizeChunkChoices(ds) = ds
  <2>1. normalizeChunkChoices(ds) = [i \in DOMAIN ds |-> Normal(ds[i], i)]
    BY DEF normalizeChunkChoices, Normal
  <2>2. \A i \in DOMAIN l : Normal(ds[i], i) = ds[i]
    BY <1>5, <1>6
  <2> QED
    BY <1>2, <1>3, <1>6, <2>1, <2>2
<1> QED
  BY <1>3, <1>7, <1>8 DEF ds

(* Whatever a backend's body says, of any length and with any counts, it is *)
(* usable if it is an object, and then normalised once and for all: no      *)
(* choice and no text is lost, no reported count changed                    *)
(* (normalizeCompletion, normalizeChunk).                                   *)
THEOREM AnswersNormalised ==
  ASSUME NEW A, NEW body \in AnyBody(A)
  PROVE  NormalForm(body)
<1> DEFINE c == normalizeCompletion(body)
           d == normalizeChunk(body)
           cs == normalizeChoices(body.choices)
           ds == normalizeChunkChoices(body.choices)
           u == normalizeUsage(body.usage)
<1>1. /\ body.choices \in AnyChoices(A) /\ body.usage \in AnyUsage
      /\ body.object \in BOOLEAN /\ body.error \in BOOLEAN
  BY DEF AnyBody
<1>2. /\ DOMAIN cs = DOMAIN body.choices /\ Len(cs) = Len(body.choices)
      /\ \A i \in DOMAIN body.choices : ChoiceOk(cs[i])
      /\ \A i \in DOMAIN body.choices :
            body.choices[i].content # Absent => cs[i].content = body.choices[i].content
      /\ normalizeChoices(cs) = cs
      /\ (\A i \in DOMAIN body.choices :
             ChoiceOk(body.choices[i]) /\ body.choices[i].finish_reason # Absent) => cs = body.choices
  BY <1>1, ChoicesNormal
<1>3. /\ DOMAIN ds = DOMAIN body.choices /\ Len(ds) = Len(body.choices)
      /\ \A i \in DOMAIN body.choices : ChunkChoiceOk(ds[i])
      /\ \A i \in DOMAIN body.choices : ds[i].content = body.choices[i].content
      /\ normalizeChunkChoices(ds) = ds
  BY <1>1, DeltasNormal
<1>4. /\ UsageOk(u) /\ normalizeUsage(u) = u
      /\ \A k \in DOMAIN body.usage : body.usage[k] >= 0 => u[k] = body.usage[k]
  BY <1>1, UsageNormal
<1>5. LET reported == {k \in DOMAIN body.usage : body.usage[k] >= 0}
      IN ("total" \in reported =>
            Cardinality(reported) = 2 /\ \A k \in reported : body.usage[k] <= body.usage.total)
           => u.total = u.prompt + u.completion
  BY <1>1, UsageAddsUp
<1> HIDE DEF cs, ds, u
<1>6. c = IF body.object THEN [usable |-> TRUE, choices |-> cs, usage |-> u] ELSE Unusable
  BY <1>2, <1>4 DEF normalizeCompletion, cs, u
<1>7. d = IF body.object /\ ~body.error THEN [usable |-> TRUE, choices |-> ds] ELSE Unusable
  BY <1>3 DEF normalizeChunk, ds
<1> HIDE DEF c, d
<1>8. c.usable = body.object /\ d.usable = (body.object /\ ~body.error)
  BY <1>1, <1>6, <1>7 DEF Unusable
<1>9. body.object => normalizeCompletion([body EXCEPT !.choices = cs, !.usage = u]) = c
  <2> DEFINE b == [body EXCEPT !.choices = cs, !.usage = u]
  <2>1. b.choices = cs /\ b.usage = u /\ b.object = body.object
    BY DEF AnyBody
  <2> HIDE DEF b
  <2>2. \A i \in DOMAIN cs : ChoiceOk(cs[i])
    BY <1>2
  <2>3. body.object => normalizeCompletion(b) = [usable |-> TRUE, choices |-> cs, usage |-> u]
    BY <1>2, <1>4, <2>1, <2>2 DEF normalizeCompletion
  <2> QED
    BY <1>6, <2>3 DEF b
<1>10. body.object /\ ~body.error => normalizeChunk([body EXCEPT !.choices = ds]) = d
  <2> DEFINE b == [body EXCEPT !.choices = ds]
  <2>1. b.choices = ds /\ b.object = body.object /\ b.error = body.error
    BY DEF AnyBody
  <2> HIDE DEF b
  <2>2. \A i \in DOMAIN ds : ChunkChoiceOk(ds[i])
    BY <1>3
  <2>3. body.object /\ ~body.error => normalizeChunk(b) = [usable |-> TRUE, choices |-> ds]
    BY <1>3, <2>1, <2>2 DEF normalizeChunk
  <2> QED
    BY <1>7, <2>3 DEF b
<1>11. c.usable => c.choices = cs /\ c.usage = u /\ body.object
  BY <1>6, <1>8
<1>12. d.usable => d.choices = ds /\ body.object /\ ~body.error
  BY <1>7, <1>8
<1> QED
  BY <1>2, <1>3, <1>4, <1>5, <1>8, <1>9, <1>10, <1>11, <1>12 DEF NormalForm, c, d

(* The kinds of fields in the answers MCRules asks about.                   *)
Fields == {Absent, "", "text", "stop", "user", "assistant", "tool"}

(* The answers MCRules asks about are such bodies.                          *)
LEMMA AskedAnswers ==
  ASSUME AskCompletion
  PROVE  asked'.about = "completion" /\ asked'.body \in AnyBody(Fields)
<1>1. ASSUME NEW c \in RawChoices PROVE c \in AnyChoice(Fields)
  <2>1. {NoCount, 0, 1} \subseteq AnyCount
    BY DEF AnyCount, NoCount
  <2> QED
    BY <2>1 DEF RawChoices, AnyChoice, Fields
<1>2. \A c, d \in RawChoices : <<c, d>> \in AnyChoices(Fields)
  BY <1>1 DEF AnyChoices
<1>3. \A u \in Counts : u \in AnyUsage
  BY DEF Counts, AnyUsage, AnyCount, NoCount
<1>4. NoCounts \in AnyUsage
  BY DEF NoCounts, AnyUsage, AnyCount, NoCount
<1>5. <<>> \in AnyChoices(Fields)
  BY DEF AnyChoices
<1>6. \A object, error \in BOOLEAN, l \in AnyChoices(Fields), u \in AnyUsage :
         [object |-> object, error |-> error, choices |-> l, usage |-> u] \in AnyBody(Fields)
  BY DEF AnyBody
<1>7. PICK object \in BOOLEAN, error \in BOOLEAN :
        \/ \E c, d \in RawChoices :
             asked' = [about |-> "completion",
                       body |-> [object |-> object, error |-> error, choices |-> <<c, d>>,
                                 usage |-> NoCounts]]
        \/ \E u \in Counts :
             asked' = [about |-> "completion",
                       body |-> [object |-> object, error |-> error, choices |-> <<>>, usage |-> u]]
  BY DEF AskCompletion, Ask
<1>8. CASE \E c, d \in RawChoices :
             asked' = [about |-> "completion",
                       body |-> [object |-> object, error |-> error, choices |-> <<c, d>>,
                                 usage |-> NoCounts]]
  <2>1. PICK c \in RawChoices, d \in RawChoices :
             asked' = [about |-> "completion",
                       body |-> [object |-> object, error |-> error, choices |-> <<c, d>>,
                                 usage |-> NoCounts]]
    BY <1>8
  <2>2. [object |-> object, error |-> error, choices |-> <<c, d>>, usage |-> NoCounts]
           \in AnyBody(Fields)
    BY <1>2, <1>4, <1>6
  <2> QED
    BY <2>1, <2>2
<1>9. CASE \E u \in Counts :
             asked' = [about |-> "completion",
                       body |-> [object |-> object, error |-> error, choices |-> <<>>, usage |-> u]]
  <2>1. PICK u \in Counts :
             asked' = [about |-> "completion",
                       body |-> [object |-> object, error |-> error, choices |-> <<>>, usage |-> u]]
    BY <1>9
  <2>2. [object |-> object, error |-> error, choices |-> <<>>, usage |-> u] \in AnyBody(Fields)
    BY <1>3, <1>5, <1>6
  <2> QED
    BY <2>1, <2>2
<1> QED
  BY <1>7, <1>8, <1>9

(* What each other question is about.                                       *)
LEMMA AskedAbout ==
  ASSUME Question
  PROVE  \/ AskCompletion
         \/ AskConfig
         \/ AskDoctor
         \/ AskAccounts \/ AskFacilitator \/ AskDeployment
         \/ asked'.about \in {"prices", "node", "draw", "window", "networks"}
BY DEF Question, AskPrices, AskNode, AskDraw, AskWindow, AskNetworks, Ask

(* An environment is asked about as its process's.                          *)
LEMMA AboutConfig ==
  ASSUME AskConfig
  PROVE  asked'.about \in {"gateway", "daemon"}
BY DEF AskConfig, Ask

(* A world is asked about as the doctor's or as preflight's.                *)
LEMMA AboutWorlds ==
  /\ AskDoctor => asked'.about = "doctor"
  /\ AskAccounts \/ AskFacilitator \/ AskDeployment => asked'.about = "preflight"
<1>1. AskDoctor => asked'.about = "doctor"
  BY DEF AskDoctor, Ask
<1>2. \A w : AskPreflight(w) => asked'.about = "preflight"
  BY DEF AskPreflight, Ask
<1>3. AskAccounts => asked'.about = "preflight"
  BY <1>2 DEF AskAccounts
<1>4. AskFacilitator => asked'.about = "preflight"
  BY <1>2 DEF AskFacilitator
<1>5. AskDeployment => asked'.about = "preflight"
  BY <1>2 DEF AskDeployment
<1> QED
  BY <1>1, <1>3, <1>4, <1>5

(* Whatever body a backend sends, its answer is normalised (AnswerNormal    *)
(* of the model check, where the bodies are short).                         *)
THEOREM AnswersAreNormal == RulesSpec => []AnswerNormal
<1>1. RulesInit => AnswerNormal
  BY DEF RulesInit, Nothing, AnswerNormal
<1>2. ASSUME AnswerNormal, [RulesNext]_<<vars, asked>> PROVE AnswerNormal'
  <2>1. CASE asked' = asked
    BY <1>2, <2>1 DEF AnswerNormal
  <2>2. CASE asked' # asked
    <3>1. Question
      BY <1>2, <2>2, AskedOnce
    <3>2. asked'.about = "completion" => AskCompletion
      BY <3>1, AskedAbout, AboutConfig, AboutWorlds
    <3>3. asked'.about = "completion" => NormalForm(asked'.body)
      BY <3>2, AskedAnswers, AnswersNormalised
    <3> QED
      BY <3>3 DEF AnswerNormal
  <2> QED
    BY <2>1, <2>2
<1> QED
  BY <1>1, <1>2, PTL DEF RulesSpec

-----------------------------------------------------------------------------
(* The configuration.                                                       *)

(* What both schemas are like: a default is one value or none, and only a   *)
(* text or the models have none.                                            *)
One(value) == value # Bad /\ <<value[1]>> = value
FieldKinds == {"int", "port", "bool", "text", "models"}
FieldOk(f) ==
    /\ f.kind \in FieldKinds
    /\ f.default = Bad \/ One(f.default)
    /\ f.default = Bad => f.kind = "models" \/ (f.kind = "text" /\ f.accepted # {})
SchemaOk(schema) == \A v \in DOMAIN schema : FieldOk(schema[v])

(* One value is one.                                                        *)
LEMMA OneOf == \A x : One(<<x>>)
BY DEF One, Bad

(* Every field is built in one of these ways.                               *)
LEMMA FieldsOk ==
  /\ \A default, min, max : FieldOk(Number(default, min, max))
  /\ \A default : FieldOk(Flag(default))
  /\ \A x, accepted : FieldOk(Text(<<x>>, accepted))
  /\ \A accepted : accepted # {} => FieldOk(Text(Bad, accepted))
<1>1. \A default, min, max : FieldOk(Number(default, min, max))
  BY OneOf DEF FieldOk, Number, FieldKinds, One
<1>2. \A default : FieldOk(Flag(default))
  BY OneOf DEF FieldOk, Flag, FieldKinds, One
<1>3. \A x, accepted : FieldOk(Text(<<x>>, accepted))
  BY OneOf DEF FieldOk, Text, FieldKinds, One
<1>4. \A accepted : accepted # {} => FieldOk(Text(Bad, accepted))
  BY DEF FieldOk, Text, FieldKinds
<1> QED
  BY <1>1, <1>2, <1>3, <1>4

(* The port of a daemon may be left out.                                    *)
LEMMA PortOk == FieldOk([kind |-> "port", default |-> Missing, min |-> 1, max |-> 65535])
<1> DEFINE f == [kind |-> "port", default |-> Missing, min |-> 1, max |-> 65535]
<1>1. f.kind \in FieldKinds /\ f.default = Missing
  BY DEF FieldKinds
<1>2. One(Missing)
  BY OneOf DEF Missing
<1> HIDE DEF f
<1>3. FieldOk(f)
  BY <1>1, <1>2 DEF FieldOk, One
<1> QED
  BY <1>3 DEF f

(* The list of models has no default.                                       *)
LEMMA ModelsOk == FieldOk([kind |-> "models", default |-> Bad])
<1> DEFINE f == [kind |-> "models", default |-> Bad]
<1>1. f.kind \in FieldKinds /\ f.default = Bad /\ f.kind = "models"
  BY DEF FieldKinds
<1> HIDE DEF f
<1>2. FieldOk(f)
  BY <1>1 DEF FieldOk
<1> QED
  BY <1>2 DEF f

(* So the gateway's schema is made of such fields (GatewayEnvSchema).       *)
LEMMA GatewayFields == SchemaOk(GatewayEnvSchema)
<1>1. DOMAIN GatewayEnvSchema =
        {"PORT", "HOST", "X402_PAY_TO_ADDRESS", "X402_FACILITATOR_URL",
         "MESH_MARGIN_BPS", "MESH_PAYOUT_BATCH_MAX_DELAY_MS",
         "MESH_PAYOUT_BATCH_MAX_REQUESTS", "MESH_PUBLIC_BASE_URL",
         "REDIS_URL", "MESH_REQUIRE_USDC_OPT_IN",
         "MESH_ALLOW_PRIVATE_NODE_ENDPOINTS", "MESH_TRUST_PROXY_HOPS",
         "MESH_NODE_REQUEST_TIMEOUT_MS", "MESH_MAX_CONCURRENT_PER_NODE",
         "LOG_LEVEL", "OTEL_ENABLED", "OTEL_EXPORTER_OTLP_ENDPOINT",
         "MESH_NODE_STALE_AFTER_MS", "X402_CHALLENGE_TAG"}
  BY DEF GatewayEnvSchema
<1>2. /\ GatewayEnvSchema.PORT = Number(8402, 1, 65535)
      /\ GatewayEnvSchema.MESH_MARGIN_BPS = Number(1500, 0, 10000)
      /\ GatewayEnvSchema.MESH_PAYOUT_BATCH_MAX_DELAY_MS = Number(900000, 1000, 86400000)
      /\ GatewayEnvSchema.MESH_PAYOUT_BATCH_MAX_REQUESTS = Number(100, 1, 10000)
      /\ GatewayEnvSchema.MESH_TRUST_PROXY_HOPS = Number(0, 0, 10)
      /\ GatewayEnvSchema.MESH_NODE_REQUEST_TIMEOUT_MS = Number(120000, 1000, 600000)
      /\ GatewayEnvSchema.MESH_MAX_CONCURRENT_PER_NODE = Number(8, 1, 1024)
      /\ GatewayEnvSchema.MESH_NODE_STALE_AFTER_MS = Number(90000, 5000, 3600000)
  BY DEF GatewayEnvSchema
<1>3. /\ GatewayEnvSchema.HOST = Text(<<"any_host">>, Words)
      /\ GatewayEnvSchema.X402_PAY_TO_ADDRESS = Text(Bad, {"address"})
      /\ GatewayEnvSchema.X402_FACILITATOR_URL = Text(<<"http">>, Urls)
      /\ GatewayEnvSchema.MESH_PUBLIC_BASE_URL = Text(Missing, Urls)
      /\ GatewayEnvSchema.REDIS_URL = Text(Missing, {"redis"})
      /\ GatewayEnvSchema.LOG_LEVEL = Text(<<"info">>, {"info"})
      /\ GatewayEnvSchema.OTEL_EXPORTER_OTLP_ENDPOINT = Text(Missing, Urls)
      /\ GatewayEnvSchema.X402_CHALLENGE_TAG = Text(<<"the_tag">>, Words)
  BY DEF GatewayEnvSchema
<1>4. \A accepted : FieldOk(Text(Missing, accepted))
  BY FieldsOk DEF Missing
<1>5. /\ FieldOk(GatewayEnvSchema["PORT"])
      /\ FieldOk(GatewayEnvSchema["MESH_MARGIN_BPS"])
      /\ FieldOk(GatewayEnvSchema["MESH_PAYOUT_BATCH_MAX_DELAY_MS"])
      /\ FieldOk(GatewayEnvSchema["MESH_PAYOUT_BATCH_MAX_REQUESTS"])
      /\ FieldOk(GatewayEnvSchema["MESH_TRUST_PROXY_HOPS"])
      /\ FieldOk(GatewayEnvSchema["MESH_NODE_REQUEST_TIMEOUT_MS"])
      /\ FieldOk(GatewayEnvSchema["MESH_MAX_CONCURRENT_PER_NODE"])
      /\ FieldOk(GatewayEnvSchema["MESH_NODE_STALE_AFTER_MS"])
  BY <1>2, FieldsOk
<1>6. /\ FieldOk(GatewayEnvSchema["MESH_REQUIRE_USDC_OPT_IN"])
      /\ FieldOk(GatewayEnvSchema["MESH_ALLOW_PRIVATE_NODE_ENDPOINTS"])
      /\ FieldOk(GatewayEnvSchema["OTEL_ENABLED"])
  <2>1. /\ GatewayEnvSchema["MESH_REQUIRE_USDC_OPT_IN"] = Flag(TRUE)
        /\ GatewayEnvSchema["MESH_ALLOW_PRIVATE_NODE_ENDPOINTS"] = Flag(FALSE)
        /\ GatewayEnvSchema["OTEL_ENABLED"] = Flag(FALSE)
    BY DEF GatewayEnvSchema
  <2>2. FieldOk(Flag(TRUE)) /\ FieldOk(Flag(FALSE))
    BY FieldsOk
  <2> QED
    BY <2>1, <2>2, Zenon
<1>7. /\ FieldOk(GatewayEnvSchema["HOST"])
      /\ FieldOk(GatewayEnvSchema["X402_PAY_TO_ADDRESS"])
      /\ FieldOk(GatewayEnvSchema["X402_FACILITATOR_URL"])
      /\ FieldOk(GatewayEnvSchema["MESH_PUBLIC_BASE_URL"])
      /\ FieldOk(GatewayEnvSchema["REDIS_URL"])
      /\ FieldOk(GatewayEnvSchema["LOG_LEVEL"])
      /\ FieldOk(GatewayEnvSchema["OTEL_EXPORTER_OTLP_ENDPOINT"])
      /\ FieldOk(GatewayEnvSchema["X402_CHALLENGE_TAG"])
  <2>1. {"address"} # {}
    OBVIOUS
  <2> QED
    BY <1>3, <1>4, <2>1, FieldsOk
<1> QED
  BY <1>1, <1>5, <1>6, <1>7 DEF SchemaOk

(* The same of the daemon's schema (DaemonEnvSchema).                       *)
LEMMA DaemonFields == SchemaOk(DaemonEnvSchema)
<1>1. DOMAIN DaemonEnvSchema =
        {"MESH_GATEWAY_URL", "MESH_NODE_ID", "MESH_NODE_ENDPOINT",
         "MESH_NODE_PORT", "MESH_PROVIDER", "MESH_PROVIDER_BASE_URL",
         "MESH_MODELS", "MESH_HEARTBEAT_INTERVAL_MS", "MESH_MAX_CONCURRENCY",
         "AVM_PRIVATE_KEY"}
  BY DEF DaemonEnvSchema
<1>2. /\ DaemonEnvSchema.MESH_GATEWAY_URL = Text(Bad, Urls)
      /\ DaemonEnvSchema.MESH_NODE_ID = Text(Bad, {"id"})
      /\ DaemonEnvSchema.MESH_NODE_ENDPOINT = Text(Bad, Urls)
      /\ DaemonEnvSchema.MESH_NODE_PORT = [kind |-> "port", default |-> Missing, min |-> 1, max |-> 65535]
      /\ DaemonEnvSchema.MESH_PROVIDER = Text(<<"ollama">>, Providers)
      /\ DaemonEnvSchema.MESH_PROVIDER_BASE_URL = Text(Missing, Urls)
      /\ DaemonEnvSchema.MESH_MODELS = [kind |-> "models", default |-> Bad]
      /\ DaemonEnvSchema.MESH_HEARTBEAT_INTERVAL_MS = Number(15000, 1000, 600000)
      /\ DaemonEnvSchema.MESH_MAX_CONCURRENCY = Number(8, 1, 1024)
      /\ DaemonEnvSchema.AVM_PRIVATE_KEY = Text(Bad, {"key"})
  BY DEF DaemonEnvSchema
<1>3. Urls # {} /\ {"id"} # {} /\ {"key"} # {} /\ Missing = <<"missing">>
  BY DEF Urls, Missing
<1>4. /\ FieldOk(DaemonEnvSchema["MESH_GATEWAY_URL"])
      /\ FieldOk(DaemonEnvSchema["MESH_NODE_ID"])
      /\ FieldOk(DaemonEnvSchema["MESH_NODE_ENDPOINT"])
      /\ FieldOk(DaemonEnvSchema["MESH_NODE_PORT"])
      /\ FieldOk(DaemonEnvSchema["MESH_PROVIDER"])
      /\ FieldOk(DaemonEnvSchema["MESH_PROVIDER_BASE_URL"])
      /\ FieldOk(DaemonEnvSchema["MESH_MODELS"])
      /\ FieldOk(DaemonEnvSchema["MESH_HEARTBEAT_INTERVAL_MS"])
      /\ FieldOk(DaemonEnvSchema["MESH_MAX_CONCURRENCY"])
      /\ FieldOk(DaemonEnvSchema["AVM_PRIVATE_KEY"])
  BY <1>2, <1>3, FieldsOk, PortOk, ModelsOk
<1> QED
  BY <1>1, <1>4 DEF SchemaOk

(* What is read of a variable that is set, kind by kind.                    *)
LEMMA ReadKinds ==
  ASSUME NEW f, NEW raw
  PROVE  /\ isUnset(raw) => Read(f, raw) = f.default
         /\ ~isUnset(raw) /\ f.kind = "int" => Read(f, raw) = intField(f, raw)
         /\ ~isUnset(raw) /\ f.kind = "port" => Read(f, raw) = portField(f, raw)
         /\ ~isUnset(raw) /\ f.kind = "bool" => Read(f, raw) = boolField(raw)
         /\ ~isUnset(raw) /\ f.kind = "text" => Read(f, raw) = textField(f, raw)
         /\ ~isUnset(raw) /\ f.kind = "models" => Read(f, raw) = modelsField(raw)
BY DEF Read

(* A number that is read is the one that was typed, within its limits.      *)
LEMMA NumberRead ==
  ASSUME NEW f, NEW raw, ~isUnset(raw), f.kind \in {"int", "port"}, Read(f, raw) # Bad
  PROVE  Read(f, raw) = <<raw.value>> /\ raw.value \in f.min .. f.max
BY ReadKinds DEF intField, portField, Within

(* A text is the one that was typed, and is accepted.                       *)
LEMMA TextRead ==
  ASSUME NEW f, NEW raw, ~isUnset(raw), f.kind = "text", Read(f, raw) # Bad
  PROVE  Read(f, raw) = <<raw.value>> /\ raw.value \in f.accepted
BY ReadKinds DEF textField

(* The models are items of the list, none of them empty.                    *)
LEMMA ModelsRead ==
  ASSUME NEW f, NEW raw, ~isUnset(raw), f.kind = "models", Read(f, raw) # Bad
  PROVE  /\ raw.form = "list"
         /\ LET named == {i \in DOMAIN raw.value : raw.value[i] # ""}
            IN  /\ Cardinality(named) \in 1 .. MaxModels
                /\ Read(f, raw) = <<Restrict(raw.value, named)>>
<1>1. Read(f, raw) = modelsField(raw)
  BY ReadKinds
<1>2. CASE raw.form = "list"
  BY <1>1, <1>2 DEF modelsField
<1>3. CASE raw.form # "list"
  <2>1. Cardinality({}) = 0
    BY FS_EmptySet
  <2>2. modelsField(raw) = Bad
    BY <1>3, <2>1 DEF modelsField
  <2> QED
    BY <1>1, <2>2
<1> QED
  BY <1>2, <1>3

(* An environment that says only what it has to is accepted.                *)
LEMMA TypicalRead ==
  ASSUME NEW schema, SchemaOk(schema), NEW v \in DOMAIN schema
  PROVE  Read(schema[v], Typical(schema)[v]) # Bad
<1> DEFINE f == schema[v]
           raw == Typical(schema)[v]
<1>1. FieldOk(f)
  BY DEF SchemaOk
<1>2. raw = IF f.default # Bad THEN Unwritten
            ELSE IF f.kind = "models" THEN [form |-> "list", value |-> <<"model">>]
            ELSE [form |-> "word", value |-> CHOOSE w \in f.accepted : TRUE]
  BY DEF Typical
<1> HIDE DEF f, raw
<1>3. CASE f.default # Bad
  <2>1. isUnset(raw)
    BY <1>2, <1>3 DEF Unwritten, isUnset
  <2> QED
    BY <1>3, <2>1, ReadKinds DEF f, raw
<1>4. CASE f.default = Bad /\ f.kind = "models"
  <2>1. raw = [form |-> "list", value |-> <<"model">>]
    BY <1>2, <1>4
  <2>2. ~isUnset(raw) /\ raw.form = "list" /\ raw.value = <<"model">>
    BY <2>1 DEF isUnset
  <2>3. {i \in DOMAIN raw.value : raw.value[i] # ""} = {1}
    <3>1. DOMAIN <<"model">> = {1} /\ <<"model">>[1] = "model"
      OBVIOUS
    <3>2. DOMAIN raw.value = {1} /\ raw.value[1] # ""
      BY <2>2, <3>1
    <3> QED
      BY <3>2
  <2>4. Cardinality({1}) = 1 /\ 1 \in 1 .. MaxModels
    BY FS_Singleton, ConfigurationAssumption
  <2>5. modelsField(raw) = <<Restrict(raw.value, {1})>>
    BY <2>2, <2>3, <2>4 DEF modelsField
  <2>6. Read(f, raw) = <<Restrict(raw.value, {1})>>
    BY <1>4, <2>2, <2>5, ReadKinds
  <2> QED
    BY <2>6 DEF Bad, f, raw
<1>5. CASE f.default = Bad /\ f.kind # "models"
  <2>1. f.kind = "text" /\ f.accepted # {}
    BY <1>1, <1>5 DEF FieldOk
  <2>2. raw = [form |-> "word", value |-> CHOOSE w \in f.accepted : TRUE]
    BY <1>2, <1>5
  <2>3. ~isUnset(raw) /\ raw.form = "word" /\ raw.value \in f.accepted
    BY <2>1, <2>2 DEF isUnset
  <2>4. Read(f, raw) = <<raw.value>>
    BY <2>1, <2>3, ReadKinds DEF textField
  <2> QED
    BY <2>4 DEF Bad, f, raw
<1> QED
  BY <1>3, <1>4, <1>5

(* Every variable is judged by itself, and what was written is in force, in *)
(* any environment and for any schema of such fields (parseEnv).            *)
LEMMA WrittenInForce ==
  ASSUME NEW schema, SchemaOk(schema), NEW env
  PROVE  WrittenIsRead(schema, env)
<1> DEFINE typed == {v \in DOMAIN schema : env[v].form \notin {"absent", "blank"}}
<1>1. \A v \in DOMAIN schema : v \in typed <=> ~isUnset(env[v])
  BY DEF isUnset
<1> HIDE DEF typed
<1>2. Offending(schema, env)
        = {v \in DOMAIN schema : Offending(schema, [Typical(schema) EXCEPT ![v] = env[v]]) # {}}
  <2> DEFINE Only(v) == [Typical(schema) EXCEPT ![v] = env[v]]
  <2>1. DOMAIN Typical(schema) = DOMAIN schema
    BY DEF Typical
  <2>2. ASSUME NEW v \in DOMAIN schema
        PROVE  /\ Only(v)[v] = env[v]
               /\ \A u \in DOMAIN schema : u # v => Only(v)[u] = Typical(schema)[u]
    BY <2>1
  <2> HIDE DEF Only
  <2>3. ASSUME NEW v \in DOMAIN schema
        PROVE  Offending(schema, Only(v)) # {} <=> Read(schema[v], env[v]) = Bad
    <3>1. \A u \in DOMAIN schema : u # v => Read(schema[u], Only(v)[u]) # Bad
      BY <2>2, TypicalRead
    <3>2. Read(schema[v], Only(v)[v]) = Read(schema[v], env[v])
      BY <2>2
    <3> QED
      BY <3>1, <3>2 DEF Offending
  <2> QED
    BY <2>3 DEF Offending, Only
<1>3. ASSUME Offending(schema, env) = {}, NEW v \in DOMAIN schema
      PROVE  /\ v \notin typed => <<parseEnv(schema, env)[v]>> = schema[v].default
             /\ v \in typed /\ schema[v].kind \in {"int", "port"} =>
                  parseEnv(schema, env)[v] = env[v].value
  <2>1. Read(schema[v], env[v]) # Bad
    BY <1>3 DEF Offending
  <2>2. parseEnv(schema, env)[v] = Read(schema[v], env[v])[1]
    BY DEF parseEnv
  <2>3. ASSUME v \notin typed PROVE <<parseEnv(schema, env)[v]>> = schema[v].default
    <3>1. Read(schema[v], env[v]) = schema[v].default
      BY <1>1, <2>3, ReadKinds
    <3>2. One(schema[v].default)
      BY <2>1, <3>1 DEF SchemaOk, FieldOk
    <3> QED
      BY <2>2, <3>1, <3>2 DEF One
  <2>4. ASSUME v \in typed, schema[v].kind \in {"int", "port"}
        PROVE  parseEnv(schema, env)[v] = env[v].value
    <3>1. Read(schema[v], env[v]) = <<env[v].value>>
      BY <1>1, <2>1, <2>4, NumberRead
    <3> QED
      BY <2>2, <3>1
  <2> QED
    BY <2>3, <2>4
<1>4. Offending(schema, env) \subseteq typed \cup {v \in DOMAIN schema : schema[v].default = Bad}
  <2> SUFFICES ASSUME NEW v \in DOMAIN schema, Read(schema[v], env[v]) = Bad, v \notin typed
               PROVE  schema[v].default = Bad
    BY DEF Offending
  <2> QED
    BY <1>1, ReadKinds
<1> QED
  BY <1>2, <1>3, <1>4 DEF WrittenIsRead, typed

(* A gateway that starts has numbers its parts are built for, whatever else *)
(* its environment says (loadGatewayConfig).                                *)
THEOREM GatewayReadsWhatIsWritten ==
  ASSUME NEW env
  PROVE  WrittenIsRead(GatewayEnvSchema, env) /\ GatewayFits(env)
<1> DEFINE S == GatewayEnvSchema
           Reads(v, min, max) == parseEnv(S, env)[v] \in Int
                                   /\ min <= parseEnv(S, env)[v] /\ parseEnv(S, env)[v] <= max
<1>1. WrittenIsRead(S, env)
  BY GatewayFields, WrittenInForce
<1>2. ASSUME Offending(S, env) = {}, NEW v \in DOMAIN S, NEW default, NEW min \in Int, NEW max \in Int,
             S[v] = Number(default, min, max), default \in Int, min <= default, default <= max
      PROVE  Reads(v, min, max)
  <2>1. /\ S[v].kind = "int" /\ S[v].default = <<default>> /\ S[v].min = min /\ S[v].max = max
    BY <1>2 DEF Number
  <2>2. Read(S[v], env[v]) # Bad /\ parseEnv(S, env)[v] = Read(S[v], env[v])[1]
    BY <1>2 DEF Offending, parseEnv
  <2> HIDE DEF S
  <2>3. CASE isUnset(env[v])
    <3>1. Read(S[v], env[v]) = <<default>>
      BY <2>1, <2>3, ReadKinds
    <3> QED
      BY <1>2, <2>2, <3>1
  <2>4. CASE ~isUnset(env[v])
    <3>1. Read(S[v], env[v]) = <<env[v].value>> /\ env[v].value \in min .. max
      BY <2>1, <2>2, <2>4, NumberRead
    <3> QED
      BY <2>2, <3>1
  <2> QED
    BY <2>3, <2>4
<1>3. /\ "MESH_MARGIN_BPS" \in DOMAIN S /\ S["MESH_MARGIN_BPS"] = Number(1500, 0, 10000)
      /\ "MESH_PAYOUT_BATCH_MAX_REQUESTS" \in DOMAIN S
      /\ S["MESH_PAYOUT_BATCH_MAX_REQUESTS"] = Number(100, 1, 10000)
      /\ "MESH_MAX_CONCURRENT_PER_NODE" \in DOMAIN S
      /\ S["MESH_MAX_CONCURRENT_PER_NODE"] = Number(8, 1, 1024)
  BY DEF GatewayEnvSchema
<1>4. \A n \in Int : 0 <= n /\ n <= 10000 => IsMarginBps(n)
  BY DEF IsMarginBps, BPS_DENOMINATOR
<1> HIDE DEF S, Reads
<1>5. Offending(S, env) = {} => /\ Reads("MESH_MARGIN_BPS", 0, 10000)
                                /\ Reads("MESH_PAYOUT_BATCH_MAX_REQUESTS", 1, 10000)
                                /\ Reads("MESH_MAX_CONCURRENT_PER_NODE", 1, 1024)
  <2> SUFFICES ASSUME Offending(S, env) = {}
               PROVE  /\ Reads("MESH_MARGIN_BPS", 0, 10000)
                      /\ Reads("MESH_PAYOUT_BATCH_MAX_REQUESTS", 1, 10000)
                      /\ Reads("MESH_MAX_CONCURRENT_PER_NODE", 1, 1024)
    OBVIOUS
  <2>1. Reads("MESH_MARGIN_BPS", 0, 10000)
    BY <1>2, <1>3
  <2>2. Reads("MESH_PAYOUT_BATCH_MAX_REQUESTS", 1, 10000)
    BY <1>2, <1>3
  <2>3. Reads("MESH_MAX_CONCURRENT_PER_NODE", 1, 1024)
    BY <1>2, <1>3
  <2> QED
    BY <2>1, <2>2, <2>3
<1>6. Offending(S, env) = {} =>
        /\ IsMarginBps(parseEnv(S, env).MESH_MARGIN_BPS)
        /\ parseEnv(S, env).MESH_PAYOUT_BATCH_MAX_REQUESTS >= 1
        /\ parseEnv(S, env).MESH_MAX_CONCURRENT_PER_NODE >= 1
  <2> SUFFICES ASSUME Offending(S, env) = {}
               PROVE  /\ IsMarginBps(parseEnv(S, env)["MESH_MARGIN_BPS"])
                      /\ parseEnv(S, env)["MESH_PAYOUT_BATCH_MAX_REQUESTS"] >= 1
                      /\ parseEnv(S, env)["MESH_MAX_CONCURRENT_PER_NODE"] >= 1
    OBVIOUS
  <2>1. IsMarginBps(parseEnv(S, env)["MESH_MARGIN_BPS"])
    <3>1. Reads("MESH_MARGIN_BPS", 0, 10000)
      BY <1>5
    <3> QED
      BY <1>4, <3>1 DEF Reads
  <2>2. parseEnv(S, env)["MESH_PAYOUT_BATCH_MAX_REQUESTS"] >= 1
    <3>1. Reads("MESH_PAYOUT_BATCH_MAX_REQUESTS", 1, 10000)
      BY <1>5
    <3> QED
      BY <3>1 DEF Reads
  <2>3. parseEnv(S, env)["MESH_MAX_CONCURRENT_PER_NODE"] >= 1
    <3>1. Reads("MESH_MAX_CONCURRENT_PER_NODE", 1, 1024)
      BY <1>5
    <3> QED
      BY <3>1 DEF Reads
  <2> QED
    BY <2>1, <2>2, <2>3
<1>7. GatewayFits(env)
  BY <1>6 DEF GatewayFits, S
<1> QED
  BY <1>1, <1>7 DEF S

(* The models of an environment, each of them empty, a plain id or an odd   *)
(* one: the kinds of id the gateway tells apart.                            *)
ModelTexts(env) ==
    env["MESH_MODELS"].form = "list" =>
      \A i \in DOMAIN env["MESH_MODELS"].value :
         env["MESH_MODELS"].value[i] \in {"", "model", "odd"}

(* A daemon that starts sends heartbeats the gateway accepts, and a         *)
(* registration it accepts unless its endpoint is not http or a model's id  *)
(* is odd (loadDaemonConfig, NodeRegistrationSchema, NodeHeartbeatSchema).  *)
THEOREM DaemonReadsWhatIsWritten ==
  ASSUME NEW env, ModelTexts(env)
  PROVE  WrittenIsRead(DaemonEnvSchema, env) /\ DaemonFits(env)
<1> DEFINE S == DaemonEnvSchema
           config == parseEnv(S, env)
<1>1. WrittenIsRead(S, env)
  BY DaemonFields, WrittenInForce
<1>2. /\ "MESH_NODE_ID" \in DOMAIN S /\ S["MESH_NODE_ID"] = Text(Bad, {"id"})
      /\ "MESH_MODELS" \in DOMAIN S /\ S["MESH_MODELS"] = [kind |-> "models", default |-> Bad]
      /\ "MESH_MAX_CONCURRENCY" \in DOMAIN S /\ S["MESH_MAX_CONCURRENCY"] = Number(8, 1, 1024)
  BY DEF DaemonEnvSchema
<1> HIDE DEF S
<1>3. ASSUME Offending(S, env) = {}, NEW v \in DOMAIN S
      PROVE  Read(S[v], env[v]) # Bad /\ config[v] = Read(S[v], env[v])[1]
  BY <1>3 DEF Offending, parseEnv
<1> HIDE DEF config
<1>4. ASSUME Offending(S, env) = {} PROVE config["MESH_NODE_ID"] = "id"
  <2> DEFINE f == S["MESH_NODE_ID"]
             raw == env["MESH_NODE_ID"]
  <2>1. f.kind = "text" /\ f.default = Bad /\ f.accepted = {"id"}
    BY <1>2 DEF Text
  <2>2. Read(f, raw) # Bad /\ config["MESH_NODE_ID"] = Read(f, raw)[1]
    BY <1>2, <1>3, <1>4
  <2> HIDE DEF f, raw
  <2>3. ~isUnset(raw)
    BY <2>1, <2>2, ReadKinds
  <2>4. Read(f, raw) = <<raw.value>> /\ raw.value \in {"id"}
    BY <2>1, <2>2, <2>3, TextRead
  <2> QED
    BY <2>2, <2>4
<1>5. ASSUME Offending(S, env) = {} PROVE config["MESH_MAX_CONCURRENCY"] \in 1 .. 4096
  <2> DEFINE f == S["MESH_MAX_CONCURRENCY"]
             raw == env["MESH_MAX_CONCURRENCY"]
  <2>1. f.kind = "int" /\ f.default = <<8>> /\ f.min = 1 /\ f.max = 1024
    BY <1>2 DEF Number
  <2>2. Read(f, raw) # Bad /\ config["MESH_MAX_CONCURRENCY"] = Read(f, raw)[1]
    BY <1>2, <1>3, <1>5
  <2> HIDE DEF f, raw
  <2>3. CASE isUnset(raw)
    <3>1. Read(f, raw) = <<8>>
      BY <2>1, <2>3, ReadKinds
    <3> QED
      BY <2>2, <3>1
  <2>4. CASE ~isUnset(raw)
    <3>1. Read(f, raw) = <<raw.value>> /\ raw.value \in 1 .. 1024
      BY <2>1, <2>2, <2>4, NumberRead
    <3>2. raw.value \in Int /\ 1 <= raw.value /\ raw.value <= 4096
      BY <3>1, SMTT(30)
    <3> QED
      BY <2>2, <3>1, <3>2, SMTT(30)
  <2> QED
    BY <2>3, <2>4
<1>6. ASSUME Offending(S, env) = {}
      PROVE  /\ Cardinality(DOMAIN config["MESH_MODELS"]) \in 1 .. MaxModels
             /\ \A i \in DOMAIN config["MESH_MODELS"] : config["MESH_MODELS"][i] \in {"model", "odd"}
  <2> DEFINE f == S["MESH_MODELS"]
             raw == env["MESH_MODELS"]
             named == {i \in DOMAIN raw.value : raw.value[i] # ""}
             models == config["MESH_MODELS"]
  <2>1. f.kind = "models" /\ f.default = Bad
    BY <1>2
  <2>2. Read(f, raw) # Bad /\ models = Read(f, raw)[1]
    BY <1>2, <1>3, <1>6
  <2>3. raw.form = "list" => \A i \in DOMAIN raw.value : raw.value[i] \in {"", "model", "odd"}
    BY DEF ModelTexts
  <2> HIDE DEF f, raw
  <2>4. ~isUnset(raw)
    BY <2>1, <2>2, ReadKinds
  <2>5. /\ raw.form = "list" /\ Cardinality(named) \in 1 .. MaxModels
        /\ Read(f, raw) = <<Restrict(raw.value, named)>>
    BY <2>1, <2>2, <2>4, ModelsRead
  <2>6. models = [i \in named |-> raw.value[i]]
    <3> DEFINE R == Restrict(raw.value, named)
    <3>1. models = R
      <4>1. Read(f, raw) = <<R>>
        BY <2>5
      <4> HIDE DEF R, named, models
      <4> QED
        BY <2>2, <4>1
    <3> QED
      BY <3>1 DEF Restrict
  <2>7. \A i \in named : raw.value[i] \in {"model", "odd"}
    BY <2>3, <2>5
  <2> HIDE DEF named, models
  <2>8. DOMAIN models = named /\ \A i \in named : models[i] = raw.value[i]
    BY <2>6
  <2> QED
    BY <2>5, <2>7, <2>8 DEF models
<1> HIDE DEF S
<1>7. Offending(S, env) = {} =>
        /\ config.MESH_NODE_ID = "id"
        /\ config.MESH_MAX_CONCURRENCY \in 1 .. 4096
        /\ Cardinality(DOMAIN config.MESH_MODELS) \in 1 .. MaxModels
        /\ (\A i \in DOMAIN config.MESH_MODELS : config.MESH_MODELS[i] # "odd")
             => \A i \in DOMAIN config.MESH_MODELS : config.MESH_MODELS[i] = "model"
  BY <1>4, <1>5, <1>6
<1>8. DaemonFits(env)
  BY <1>7, SMTT(30) DEF DaemonFits, HeartbeatOk, RegistrationOk, S, config
<1> QED
  BY <1>1, <1>8 DEF S

(* The environments MCRules asks about.                                     *)
LEMMA OddModels ==
  ASSUME NEW raw \in Odd([kind |-> "models", default |-> Bad]), raw.form = "list"
  PROVE  \A i \in DOMAIN raw.value : raw.value[i] \in {"", "model", "odd"}
<1> DEFINE f == [kind |-> "models", default |-> Bad]
<1>1. f.kind = "models"
  OBVIOUS
<1> HIDE DEF f
<1>2. Odd(f) = {Unwritten, BlankText} \cup {[form |-> "list", value |-> l] : l \in ModelLists}
  BY <1>1 DEF Odd
<1>3. raw \in Odd(f)
  BY DEF f
<1>4. Unwritten.form # "list" /\ BlankText.form # "list"
  BY DEF Unwritten, BlankText
<1>5. PICK l \in ModelLists : raw = [form |-> "list", value |-> l]
  BY <1>2, <1>3, <1>4
<1>6. raw.value = l
  BY <1>5
<1>7. PICK n \in 1 .. MaxModels + 1 : l \in [1 .. n -> {"", "model", "odd"}]
  BY DEF ModelLists
<1> QED
  BY <1>6, <1>7

(* The other variables of a daemon say nothing of its models.               *)
LEMMA AskedEnvironments ==
  ASSUME AskConfig
  PROVE  \/ asked'.about = "gateway"
         \/ asked'.about = "daemon" /\ ModelTexts(asked'.env)
<1>1. PICK schema \in {GatewayEnvSchema, DaemonEnvSchema} :
        \E v, u \in DOMAIN schema : \E a \in Odd(schema[v]), b \in Odd(schema[u]) :
          Ask([about |-> IF "PORT" \in DOMAIN schema THEN "gateway" ELSE "daemon",
               env |-> [Typical(schema) EXCEPT ![v] = a, ![u] = b]])
  BY DEF AskConfig
<1>2. PICK v \in DOMAIN schema, u \in DOMAIN schema : \E a \in Odd(schema[v]), b \in Odd(schema[u]) :
          Ask([about |-> IF "PORT" \in DOMAIN schema THEN "gateway" ELSE "daemon",
               env |-> [Typical(schema) EXCEPT ![v] = a, ![u] = b]])
  BY <1>1
<1>3. PICK a \in Odd(schema[v]), b \in Odd(schema[u]) :
          asked' = [about |-> IF "PORT" \in DOMAIN schema THEN "gateway" ELSE "daemon",
                    env |-> [Typical(schema) EXCEPT ![v] = a, ![u] = b]]
  BY <1>2 DEF Ask
<1>4. CASE "PORT" \in DOMAIN schema
  BY <1>3, <1>4
<1>5. CASE "PORT" \notin DOMAIN schema
  <2> DEFINE env == [Typical(schema) EXCEPT ![v] = a, ![u] = b]
  <2>1. asked'.about = "daemon" /\ asked'.env = env
    BY <1>3, <1>5
  <2>2. "PORT" \in DOMAIN GatewayEnvSchema
    BY DEF GatewayEnvSchema
  <2>3. schema = DaemonEnvSchema
    BY <1>1, <1>5, <2>2
  <2>4. /\ "MESH_MODELS" \in DOMAIN schema
        /\ schema["MESH_MODELS"] = [kind |-> "models", default |-> Bad]
    BY <2>3 DEF DaemonEnvSchema
  <2>5. DOMAIN Typical(schema) = DOMAIN schema
    BY DEF Typical
  <2>6. Typical(schema)["MESH_MODELS"] = [form |-> "list", value |-> <<"model">>]
    BY <2>4 DEF Typical
  <2>7. \/ env["MESH_MODELS"] \in Odd(schema["MESH_MODELS"])
        \/ env["MESH_MODELS"] = Typical(schema)["MESH_MODELS"]
    BY <2>4, <2>5
  <2> HIDE DEF env
  <2>8. ModelTexts(env)
    <3>1. CASE env["MESH_MODELS"] \in Odd(schema["MESH_MODELS"])
      BY <2>4, <3>1, OddModels DEF ModelTexts
    <3>2. CASE env["MESH_MODELS"] = Typical(schema)["MESH_MODELS"]
      <4>1. env["MESH_MODELS"].value = <<"model">>
        BY <2>6, <3>2
      <4>2. DOMAIN <<"model">> = {1} /\ <<"model">>[1] = "model"
        OBVIOUS
      <4>3. DOMAIN env["MESH_MODELS"].value = {1} /\ env["MESH_MODELS"].value[1] = "model"
        BY <4>1, <4>2
      <4> QED
        BY <4>3 DEF ModelTexts
    <3> QED
      BY <2>7, <3>1, <3>2
  <2> QED
    BY <2>1, <2>8
<1> QED
  BY <1>4, <1>5

(* Each process runs on what its operator wrote, in every environment and   *)
(* whatever the limit on models (ConfigFits of the model check, where two   *)
(* variables at a time are odd).                                            *)
THEOREM ConfigurationFits == RulesSpec => []ConfigFits
<1>1. RulesInit => ConfigFits
  BY DEF RulesInit, Nothing, ConfigFits
<1>2. ASSUME ConfigFits, [RulesNext]_<<vars, asked>> PROVE ConfigFits'
  <2>1. CASE asked' = asked
    BY <1>2, <2>1 DEF ConfigFits
  <2>2. CASE asked' # asked
    <3>1. Question
      BY <1>2, <2>2, AskedOnce
    <3>2. asked'.about \in {"gateway", "daemon"} => AskConfig
      BY <3>1, AskedAbout, AboutWorlds, AskedAnswers
    <3>3. asked'.about = "gateway" =>
            WrittenIsRead(GatewayEnvSchema, asked'.env) /\ GatewayFits(asked'.env)
      BY GatewayReadsWhatIsWritten
    <3>4. asked'.about = "daemon" =>
            WrittenIsRead(DaemonEnvSchema, asked'.env) /\ DaemonFits(asked'.env)
      BY <3>2, AskedEnvironments, DaemonReadsWhatIsWritten
    <3> QED
      BY <3>3, <3>4 DEF ConfigFits
  <2> QED
    BY <2>1, <2>2
<1> QED
  BY <1>1, <1>2, PTL DEF RulesSpec

-----------------------------------------------------------------------------
(* The diagnostics.                                                         *)

(* A report whose lines have names of N, each at most once; and one that    *)
(* skips nothing but behind a failure.                                      *)
ReportLine(N) == [name : N, status : {"pass", "warn", "fail", "skip"}]
Reports(N) ==
    {r \in Seq(ReportLine(N)) : \A i, j \in DOMAIN r : r[i].name = r[j].name => i = j}
Lines(r) == {r[i] : i \in DOMAIN r}
SkipsBehind(r) ==
    \A i \in DOMAIN r : r[i].status = "skip" => \E j \in 1 .. i - 1 : r[j].status = "fail"

(* One line is a report.                                                    *)
LEMMA OneLine ==
  ASSUME NEW N, NEW name \in N, NEW status \in {"pass", "warn", "fail", "skip"}
  PROVE  LET r == Result(name, status)
         IN  /\ r \in Reports(N) /\ Len(r) = 1
             /\ failed(r) <=> status = "fail"
             /\ status # "skip" => SkipsBehind(r)
             /\ Lines(r) = {[name |-> name, status |-> status]}
<1> DEFINE l == [name |-> name, status |-> status]
           r == <<l>>
<1>1. l \in ReportLine(N) /\ l.status = status
  BY DEF ReportLine
<1> HIDE DEF l
<1>2. r \in Seq(ReportLine(N)) /\ Len(r) = 1 /\ DOMAIN r = {1} /\ r[1] = l
  BY <1>1
<1> HIDE DEF r
<1>3. r \in Reports(N)
  BY <1>2 DEF Reports
<1>4. failed(r) <=> status = "fail"
  BY <1>1, <1>2 DEF failed
<1>5. status # "skip" => SkipsBehind(r)
  BY <1>1, <1>2 DEF SkipsBehind
<1>6. Lines(r) = {l}
  BY <1>2 DEF Lines
<1> QED
  BY <1>2, <1>3, <1>4, <1>5, <1>6 DEF r, l, Result

(* Sequences over more elements.                                            *)
LEMMA SeqMore ==
  ASSUME NEW S, NEW T, S \subseteq T
  PROVE  Seq(S) \subseteq Seq(T)
OBVIOUS

(* A report over some names is one over more.                               *)
LEMMA MoreNames ==
  ASSUME NEW M, NEW N, M \subseteq N
  PROVE  Reports(M) \subseteq Reports(N)
<1>1. ReportLine(M) \subseteq ReportLine(N)
  BY DEF ReportLine
<1>2. Seq(ReportLine(M)) \subseteq Seq(ReportLine(N))
  BY <1>1, SeqMore
<1> QED
  BY <1>2 DEF Reports

(* Two reports under different names, one after the other.                  *)
LEMMA JoinReports ==
  ASSUME NEW M, NEW N, NEW r \in Reports(M), NEW s \in Reports(N), M \cap N = {}
  PROVE  /\ r \o s \in Reports(M \cup N)
         /\ failed(r \o s) <=> failed(r) \/ failed(s)
         /\ Lines(r \o s) = Lines(r) \cup Lines(s)
         /\ Len(r \o s) = Len(r) + Len(s)
         /\ SkipsBehind(r) /\ (SkipsBehind(s) \/ failed(r)) => SkipsBehind(r \o s)
<1> DEFINE t == r \o s
<1>1. /\ r \in Seq(ReportLine(M)) /\ s \in Seq(ReportLine(N))
      /\ \A i, j \in DOMAIN r : r[i].name = r[j].name => i = j
      /\ \A i, j \in DOMAIN s : s[i].name = s[j].name => i = j
  BY DEF Reports
<1>2. ReportLine(M) \subseteq ReportLine(M \cup N) /\ ReportLine(N) \subseteq ReportLine(M \cup N)
  BY DEF ReportLine
<1>3. r \in Seq(ReportLine(M \cup N)) /\ s \in Seq(ReportLine(M \cup N))
  <2>1. Seq(ReportLine(M)) \subseteq Seq(ReportLine(M \cup N))
    BY <1>2, SeqMore
  <2>2. Seq(ReportLine(N)) \subseteq Seq(ReportLine(M \cup N))
    BY <1>2, SeqMore
  <2> QED
    BY <1>1, <2>1, <2>2
<1>4. t \in Seq(ReportLine(M \cup N)) /\ Len(t) = Len(r) + Len(s)
  BY <1>3
<1>5. /\ Len(r) \in Nat /\ Len(s) \in Nat /\ DOMAIN r = 1 .. Len(r) /\ DOMAIN s = 1 .. Len(s)
      /\ DOMAIN t = 1 .. Len(r) + Len(s)
  BY <1>1, <1>4
<1>6. /\ \A i \in DOMAIN r : i \in DOMAIN t /\ t[i] = r[i]
      /\ \A i \in DOMAIN s : Len(r) + i \in DOMAIN t /\ t[Len(r) + i] = s[i]
      /\ \A i \in DOMAIN t : i \in DOMAIN r \/ (i - Len(r) \in DOMAIN s /\ t[i] = s[i - Len(r)])
  BY <1>3, <1>5
<1>7. \A i \in DOMAIN r, j \in DOMAIN s : r[i].name # s[j].name
  <2>1. ASSUME NEW i \in DOMAIN r PROVE r[i].name \in M
    <3>1. r[i] \in ReportLine(M)
      BY <1>1
    <3> QED
      BY <3>1 DEF ReportLine
  <2>2. ASSUME NEW j \in DOMAIN s PROVE s[j].name \in N
    <3>1. s[j] \in ReportLine(N)
      BY <1>1
    <3> QED
      BY <3>1 DEF ReportLine
  <2> QED
    BY <2>1, <2>2
<1> HIDE DEF t
<1>8. ASSUME NEW i \in DOMAIN t, NEW j \in DOMAIN t, t[i].name = t[j].name
      PROVE  i = j
  <2>1. i \in Int /\ j \in Int
    BY <1>5
  <2>2. CASE i \in DOMAIN r /\ j \in DOMAIN r
    BY <1>1, <1>6, <1>8, <2>2
  <2>3. CASE i \in DOMAIN r /\ j \notin DOMAIN r
    BY <1>6, <1>7, <1>8, <2>3
  <2>4. CASE i \notin DOMAIN r /\ j \in DOMAIN r
    BY <1>6, <1>7, <1>8, <2>4
  <2>5. CASE i \notin DOMAIN r /\ j \notin DOMAIN r
    <3>1. i - Len(r) = j - Len(r)
      BY <1>1, <1>6, <1>8, <2>5
    <3> QED
      BY <1>5, <2>1, <3>1
  <2> QED
    BY <2>2, <2>3, <2>4, <2>5
<1>9. t \in Reports(M \cup N)
  BY <1>4, <1>8 DEF Reports
<1>10. failed(t) <=> failed(r) \/ failed(s)
  BY <1>6 DEF failed
<1>11. Lines(t) = Lines(r) \cup Lines(s)
  BY <1>6 DEF Lines
<1>12. ASSUME SkipsBehind(r), SkipsBehind(s) \/ failed(r) PROVE SkipsBehind(t)
  <2> SUFFICES ASSUME NEW i \in DOMAIN t, t[i].status = "skip"
               PROVE  \E j \in 1 .. i - 1 : t[j].status = "fail"
    BY DEF SkipsBehind
  <2>1. CASE i \in DOMAIN r
    <3>1. PICK j \in 1 .. i - 1 : r[j].status = "fail"
      BY <1>6, <1>12, <2>1 DEF SkipsBehind
    <3>2. j \in DOMAIN r
      BY <1>5, <2>1
    <3> QED
      BY <1>6, <3>1, <3>2
  <2>2. CASE i \notin DOMAIN r /\ failed(r)
    <3>1. PICK j \in DOMAIN r : r[j].status = "fail"
      BY <2>2 DEF failed
    <3>2. j \in 1 .. i - 1
      BY <1>5, <2>2
    <3> QED
      BY <1>6, <3>1, <3>2
  <2>3. CASE i \notin DOMAIN r /\ SkipsBehind(s)
    <3>1. i - Len(r) \in DOMAIN s /\ s[i - Len(r)].status = "skip"
      BY <1>6, <2>3
    <3>2. PICK j \in 1 .. i - Len(r) - 1 : s[j].status = "fail"
      BY <2>3, <3>1 DEF SkipsBehind
    <3>3. j \in DOMAIN s /\ Len(r) + j \in 1 .. i - 1
      BY <1>5, <3>1
    <3> QED
      BY <1>6, <3>2, <3>3
  <2> QED
    BY <1>12, <2>1, <2>2, <2>3
<1> QED
  BY <1>4, <1>9, <1>10, <1>11, <1>12 DEF t

(* What holds of a verdict and of a warning.                                *)
LEMMA OneVerdict ==
  ASSUME NEW N, NEW name \in N, NEW good \in BOOLEAN
  PROVE  LET r == Verdict(name, good)
         IN  /\ r \in Reports(N) /\ Len(r) = 1 /\ SkipsBehind(r)
             /\ failed(r) <=> ~good
             /\ Lines(r) = {[name |-> name, status |-> IF good THEN "pass" ELSE "fail"]}
<1> DEFINE status == IF good THEN "pass" ELSE "fail"
<1>1. status \in {"pass", "fail"} /\ (status = "fail" <=> ~good)
  OBVIOUS
<1>2. Verdict(name, good) = Result(name, status)
  BY DEF Verdict
<1> HIDE DEF status
<1>3. LET r == Result(name, status)
      IN  /\ r \in Reports(N) /\ Len(r) = 1
          /\ failed(r) <=> status = "fail"
          /\ status # "skip" => SkipsBehind(r)
          /\ Lines(r) = {[name |-> name, status |-> status]}
  BY <1>1, OneLine
<1> QED
  BY <1>1, <1>2, <1>3 DEF status

(* A warning fails nothing.                                                 *)
LEMMA OneWarning ==
  ASSUME NEW N, NEW name \in N, NEW good \in BOOLEAN
  PROVE  Warning(name, good) \in Reports(N) /\ ~failed(Warning(name, good))
<1> DEFINE status == IF good THEN "pass" ELSE "warn"
<1>1. status \in {"pass", "warn"}
  OBVIOUS
<1>2. Warning(name, good) = Result(name, status)
  BY DEF Warning
<1> HIDE DEF status
<1> QED
  BY <1>1, <1>2, OneLine

(* Checks that are skipped make a report that fails nothing.                *)
LEMMA Skipped ==
  ASSUME NEW N, NEW names \in Seq(N),
         \A i, j \in DOMAIN names : names[i] = names[j] => i = j
  PROVE  LET r == skipped(names)
         IN  r \in Reports(N) /\ Len(r) = Len(names) /\ ~failed(r)
<1> DEFINE r == skipped(names)
<1>1. /\ Len(names) \in Nat /\ DOMAIN names = 1 .. Len(names)
      /\ \A i \in DOMAIN names : names[i] \in N
  OBVIOUS
<1>2. r = [i \in 1 .. Len(names) |-> [name |-> names[i], status |-> "skip"]]
  BY <1>1 DEF skipped
<1>3. \A i \in DOMAIN names : [name |-> names[i], status |-> "skip"] \in ReportLine(N)
  BY <1>1 DEF ReportLine
<1> HIDE DEF r
<1>4. r \in Seq(ReportLine(N)) /\ Len(r) = Len(names) /\ DOMAIN r = DOMAIN names
  BY <1>1, <1>2, <1>3
<1>5. \A i \in DOMAIN names : r[i].name = names[i] /\ r[i].status = "skip"
  BY <1>1, <1>2
<1>6. r \in Reports(N)
  BY <1>4, <1>5 DEF Reports
<1>7. ~failed(r)
  BY <1>4, <1>5 DEF failed
<1> QED
  BY <1>4, <1>6, <1>7 DEF r

(* What the doctor looks at: an account of any amount, a service in any of  *)
(* its states, models of any number.                                        *)
Account == [amount : Nat, others : Nat, optedIn : BOOLEAN, frozen : BOOLEAN, usdc : Nat]
IsAccount(account) == account = <<>> \/ \E a \in Account : account = <<a>>

DoctorWorld(w) ==
    /\ w.config \in BOOLEAN /\ w.offline \in BOOLEAN
    /\ w.gateway \in Statuses
    /\ IsAccount(w.account)

(* An account that exists.                                                  *)
LEMMA AccountFields ==
  ASSUME NEW account, IsAccount(account), account # <<>>
  PROVE  account[1] \in Account
BY DEF IsAccount

(* Each of the doctor's checks.                                             *)
LEMMA DoctorChecks ==
  ASSUME NEW w, DoctorWorld(w)
  PROVE  /\ LET r == fundingCheck(w)
            IN  /\ r \in Reports({"account_funded"}) /\ Len(r) = 1 /\ SkipsBehind(r)
                /\ failed(r) <=> ~(/\ w.algod = "up" /\ w.account # <<>>
                                   /\ w.account[1].amount >= minBalance(w.account[1]) + 1)
                /\ \A l \in Lines(r) : l.name = "account_funded"
         /\ LET r == optInCheck(w)
            IN  /\ r \in Reports({"USDC_opt_in"}) /\ Len(r) = 1 /\ SkipsBehind(r)
                /\ failed(r) <=> ~isOptedIn(w, w.account)
                /\ Lines(r) = {[name |-> "USDC_opt_in",
                                status |-> IF isOptedIn(w, w.account) THEN "pass" ELSE "fail"]}
         /\ LET r == modelsCheck(w)
            IN  /\ r \in Reports({"models_present"}) /\ Len(r) = 1
                /\ w.provider # "down" => SkipsBehind(r)
                /\ failed(r) <=> w.provider # "down" /\ ~(w.models \subseteq w.available)
                /\ \A l \in Lines(r) : l.name = "models_present"
         /\ LET r == gatewayCheck(w)
            IN  /\ r \in Reports({"gateway_reachable"}) /\ Len(r) = 1 /\ SkipsBehind(r)
                /\ \A l \in Lines(r) : l.name = "gateway_reachable"
<1>1. LET r == fundingCheck(w)
      IN  /\ r \in Reports({"account_funded"}) /\ Len(r) = 1 /\ SkipsBehind(r)
          /\ failed(r) <=> ~(/\ w.algod = "up" /\ w.account # <<>>
                             /\ w.account[1].amount >= minBalance(w.account[1]) + 1)
          /\ \A l \in Lines(r) : l.name = "account_funded"
  <2> DEFINE P == /\ w.algod = "up" /\ w.account # <<>>
                  /\ w.account[1].amount >= minBalance(w.account[1]) + 1
  <2>1. P \in BOOLEAN /\ fundingCheck(w) = Verdict("account_funded", P)
    BY DEF fundingCheck
  <2> HIDE DEF P
  <2>2. LET r == Verdict("account_funded", P)
        IN  /\ r \in Reports({"account_funded"}) /\ Len(r) = 1 /\ SkipsBehind(r)
            /\ failed(r) <=> ~P
            /\ Lines(r) = {[name |-> "account_funded", status |-> IF P THEN "pass" ELSE "fail"]}
    BY <2>1, OneVerdict
  <2>3. LET r == fundingCheck(w)
        IN  /\ r \in Reports({"account_funded"}) /\ Len(r) = 1 /\ SkipsBehind(r)
            /\ failed(r) <=> ~P
            /\ \A l \in Lines(r) : l.name = "account_funded"
    BY <2>1, <2>2
  <2> QED
    BY <2>3 DEF P
<1>2. LET r == optInCheck(w)
      IN  /\ r \in Reports({"USDC_opt_in"}) /\ Len(r) = 1 /\ SkipsBehind(r)
          /\ failed(r) <=> ~isOptedIn(w, w.account)
          /\ Lines(r) = {[name |-> "USDC_opt_in",
                          status |-> IF isOptedIn(w, w.account) THEN "pass" ELSE "fail"]}
  <2> DEFINE P == isOptedIn(w, w.account)
  <2>1. P \in BOOLEAN /\ optInCheck(w) = Verdict("USDC_opt_in", P)
    BY DEF optInCheck, isOptedIn
  <2> HIDE DEF P
  <2>2. LET r == Verdict("USDC_opt_in", P)
        IN  /\ r \in Reports({"USDC_opt_in"}) /\ Len(r) = 1 /\ SkipsBehind(r)
            /\ failed(r) <=> ~P
            /\ Lines(r) = {[name |-> "USDC_opt_in", status |-> IF P THEN "pass" ELSE "fail"]}
    BY <2>1, OneVerdict
  <2> QED
    BY <2>1, <2>2 DEF P
<1>3. LET r == modelsCheck(w)
      IN  /\ r \in Reports({"models_present"}) /\ Len(r) = 1
          /\ w.provider # "down" => SkipsBehind(r)
          /\ failed(r) <=> w.provider # "down" /\ ~(w.models \subseteq w.available)
          /\ \A l \in Lines(r) : l.name = "models_present"
  <2> DEFINE P == w.models \subseteq w.available
  <2>1. /\ P \in BOOLEAN
        /\ modelsCheck(w) = IF w.provider = "down" THEN Result("models_present", "skip")
                            ELSE Verdict("models_present", P)
    BY DEF modelsCheck
  <2> HIDE DEF P
  <2>2. LET r == Verdict("models_present", P)
        IN  /\ r \in Reports({"models_present"}) /\ Len(r) = 1 /\ SkipsBehind(r)
            /\ failed(r) <=> ~P
            /\ Lines(r) = {[name |-> "models_present", status |-> IF P THEN "pass" ELSE "fail"]}
    BY <2>1, OneVerdict
  <2>3. LET r == Result("models_present", "skip")
        IN  /\ r \in Reports({"models_present"}) /\ Len(r) = 1 /\ ~failed(r)
            /\ Lines(r) = {[name |-> "models_present", status |-> "skip"]}
    BY OneLine
  <2> QED
    BY <2>1, <2>2, <2>3 DEF P
<1>4. LET r == gatewayCheck(w)
      IN  /\ r \in Reports({"gateway_reachable"}) /\ Len(r) = 1 /\ SkipsBehind(r)
          /\ \A l \in Lines(r) : l.name = "gateway_reachable"
  <2> DEFINE s == CASE w.gateway = "up" -> "pass" [] w.gateway = "failing" -> "warn"
                    [] w.gateway = "down" -> "fail"
  <2>1. s \in {"pass", "warn", "fail"}
    BY DEF DoctorWorld, Statuses
  <2>2. gatewayCheck(w) = Result("gateway_reachable", s)
    BY DEF gatewayCheck
  <2> HIDE DEF s
  <2>3. LET r == Result("gateway_reachable", s)
        IN  /\ r \in Reports({"gateway_reachable"}) /\ Len(r) = 1 /\ SkipsBehind(r)
            /\ Lines(r) = {[name |-> "gateway_reachable", status |-> s]}
    BY <2>1, OneLine
  <2> QED
    BY <2>2, <2>3
<1> QED
  BY <1>1, <1>2, <1>3, <1>4

TailNames == {"provider_reachable", "models_present", "gateway_reachable", "account_funded",
              "USDC_opt_in"}

(* The checks the doctor makes on the network, when it makes them.          *)
LEMMA DoctorTail ==
  ASSUME NEW w, DoctorWorld(w)
  PROVE  LET X == IF w.key = "valid" THEN fundingCheck(w) \o optInCheck(w)
                  ELSE skipped(<<"account_funded", "USDC_opt_in">>)
             r == Verdict("provider_reachable", w.provider = "up")
                    \o modelsCheck(w) \o gatewayCheck(w) \o X
         IN  /\ r \in Reports(TailNames) /\ Len(r) = 5
             /\ w.key = "valid" => SkipsBehind(r)
             /\ ~failed(r) => w.models \subseteq w.available
             /\ w.key = "valid" /\ ~failed(r) =>
                  /\ isOptedIn(w, w.account)
                  /\ w.account[1].amount >= minBalance(w.account[1]) + 1
             /\ w.key = "valid" =>
                  ([name |-> "USDC_opt_in", status |-> "pass"] \in Lines(r)
                     <=> isOptedIn(w, w.account))
<1> DEFINE V == Verdict("provider_reachable", w.provider = "up")
           X == IF w.key = "valid" THEN fundingCheck(w) \o optInCheck(w)
                ELSE skipped(<<"account_funded", "USDC_opt_in">>)
           F == fundingCheck(w)
           O == optInCheck(w)
           M == modelsCheck(w)
           G == gatewayCheck(w)
           pass == [name |-> "USDC_opt_in", status |-> "pass"]
           funded == /\ w.algod = "up" /\ w.account # <<>>
                     /\ w.account[1].amount >= minBalance(w.account[1]) + 1
<1>1. /\ V \in Reports({"provider_reachable"}) /\ Len(V) = 1 /\ SkipsBehind(V)
      /\ failed(V) <=> w.provider # "up"
      /\ \A l \in Lines(V) : l.name = "provider_reachable"
  <2> DEFINE P == w.provider = "up"
  <2>1. P \in BOOLEAN
    OBVIOUS
  <2> HIDE DEF P
  <2>2. LET r == Verdict("provider_reachable", P)
        IN  /\ r \in Reports({"provider_reachable"}) /\ Len(r) = 1 /\ SkipsBehind(r)
            /\ failed(r) <=> ~P
            /\ Lines(r) = {[name |-> "provider_reachable", status |-> IF P THEN "pass" ELSE "fail"]}
    BY <2>1, OneVerdict
  <2>3. LET r == Verdict("provider_reachable", P)
        IN  /\ r \in Reports({"provider_reachable"}) /\ Len(r) = 1 /\ SkipsBehind(r)
            /\ failed(r) <=> ~P
            /\ \A l \in Lines(r) : l.name = "provider_reachable"
    BY <2>2
  <2> QED
    BY <2>3 DEF P
<1>2. /\ F \in Reports({"account_funded"}) /\ Len(F) = 1 /\ SkipsBehind(F)
      /\ failed(F) <=> ~funded
      /\ \A l \in Lines(F) : l.name = "account_funded"
  BY DoctorChecks
<1>3. /\ O \in Reports({"USDC_opt_in"}) /\ Len(O) = 1 /\ SkipsBehind(O)
      /\ failed(O) <=> ~isOptedIn(w, w.account)
      /\ pass \in Lines(O) <=> isOptedIn(w, w.account)
  <2>1. /\ O \in Reports({"USDC_opt_in"}) /\ Len(O) = 1 /\ SkipsBehind(O)
        /\ failed(O) <=> ~isOptedIn(w, w.account)
        /\ Lines(O) = {[name |-> "USDC_opt_in",
                        status |-> IF isOptedIn(w, w.account) THEN "pass" ELSE "fail"]}
    BY DoctorChecks
  <2> HIDE DEF O
  <2>2. pass \in Lines(O) <=> isOptedIn(w, w.account)
    BY <2>1
  <2> QED
    BY <2>1, <2>2
<1>4. /\ M \in Reports({"models_present"}) /\ Len(M) = 1
      /\ w.provider # "down" => SkipsBehind(M)
      /\ failed(M) <=> w.provider # "down" /\ ~(w.models \subseteq w.available)
      /\ \A l \in Lines(M) : l.name = "models_present"
  BY DoctorChecks
<1>5. /\ G \in Reports({"gateway_reachable"}) /\ Len(G) = 1 /\ SkipsBehind(G)
      /\ \A l \in Lines(G) : l.name = "gateway_reachable"
  BY DoctorChecks
<1> HIDE DEF V, F, O, M, G, funded
<1>6. /\ X \in Reports({"account_funded", "USDC_opt_in"}) /\ Len(X) = 2
      /\ w.key = "valid" => /\ SkipsBehind(X)
                            /\ failed(X) <=> ~(funded /\ isOptedIn(w, w.account))
                            /\ pass \in Lines(X) <=> isOptedIn(w, w.account)
  <2>1. CASE w.key = "valid"
    <3>1. /\ F \o O \in Reports({"account_funded"} \cup {"USDC_opt_in"})
          /\ failed(F \o O) <=> failed(F) \/ failed(O)
          /\ Lines(F \o O) = Lines(F) \cup Lines(O)
          /\ Len(F \o O) = Len(F) + Len(O)
          /\ SkipsBehind(F) /\ (SkipsBehind(O) \/ failed(F)) => SkipsBehind(F \o O)
      <4>1. {"account_funded"} \cap {"USDC_opt_in"} = {}
        OBVIOUS
      <4> QED
        BY <1>2, <1>3, <4>1, JoinReports
    <3>2. {"account_funded"} \cup {"USDC_opt_in"} = {"account_funded", "USDC_opt_in"}
      OBVIOUS
    <3>3. pass \notin Lines(F)
      BY <1>2
    <3>4. X = F \o O
      BY <2>1 DEF F, O
    <3> HIDE DEF X, pass
    <3> QED
      BY <1>2, <1>3, <3>1, <3>2, <3>3, <3>4
  <2>2. CASE w.key # "valid"
    <3> DEFINE names == <<"account_funded", "USDC_opt_in">>
    <3>1. /\ names \in Seq({"account_funded", "USDC_opt_in"}) /\ Len(names) = 2
          /\ \A i, j \in DOMAIN names : names[i] = names[j] => i = j
      OBVIOUS
    <3> HIDE DEF names
    <3>2. skipped(names) \in Reports({"account_funded", "USDC_opt_in"}) /\ Len(skipped(names)) = 2
      BY <3>1, Skipped
    <3> QED
      BY <2>2, <3>2 DEF names
  <2> QED
    BY <2>1, <2>2
<1> HIDE DEF X, pass
<1>7. /\ V \o M \in Reports({"provider_reachable"} \cup {"models_present"}) /\ Len(V \o M) = 2
      /\ failed(V \o M) <=> failed(V) \/ failed(M)
      /\ SkipsBehind(V \o M) /\ Lines(V \o M) = Lines(V) \cup Lines(M)
  <2>1. {"provider_reachable"} \cap {"models_present"} = {}
    OBVIOUS
  <2>2. /\ V \o M \in Reports({"provider_reachable"} \cup {"models_present"})
        /\ failed(V \o M) <=> failed(V) \/ failed(M)
        /\ Lines(V \o M) = Lines(V) \cup Lines(M)
        /\ Len(V \o M) = Len(V) + Len(M)
        /\ SkipsBehind(V) /\ (SkipsBehind(M) \/ failed(V)) => SkipsBehind(V \o M)
    BY <1>1, <1>4, <2>1, JoinReports
  <2> QED
    BY <1>1, <1>4, <2>2
<1> DEFINE VM == V \o M
           NVM == {"provider_reachable"} \cup {"models_present"}
<1>8. NVM \cap {"gateway_reachable"} = {}
      /\ (NVM \cup {"gateway_reachable"}) \cap {"account_funded", "USDC_opt_in"} = {}
      /\ (NVM \cup {"gateway_reachable"}) \cup {"account_funded", "USDC_opt_in"} \subseteq TailNames
  BY DEF TailNames
<1> HIDE DEF VM, NVM
<1>9. /\ VM \o G \in Reports(NVM \cup {"gateway_reachable"}) /\ Len(VM \o G) = 3
      /\ failed(VM) => failed(VM \o G)
      /\ SkipsBehind(VM \o G) /\ Lines(VM \o G) = Lines(VM) \cup Lines(G)
  <2>1. /\ VM \o G \in Reports(NVM \cup {"gateway_reachable"})
        /\ failed(VM \o G) <=> failed(VM) \/ failed(G)
        /\ Lines(VM \o G) = Lines(VM) \cup Lines(G)
        /\ Len(VM \o G) = Len(VM) + Len(G)
        /\ SkipsBehind(VM) /\ (SkipsBehind(G) \/ failed(VM)) => SkipsBehind(VM \o G)
    BY <1>5, <1>7, <1>8, JoinReports DEF VM, NVM
  <2> QED
    BY <1>5, <1>7, <2>1 DEF VM
<1> DEFINE VMG == VM \o G
           NVMG == NVM \cup {"gateway_reachable"}
<1> HIDE DEF VMG, NVMG
<1>10. /\ VMG \o X \in Reports(NVMG \cup {"account_funded", "USDC_opt_in"})
       /\ failed(VMG \o X) <=> failed(VMG) \/ failed(X)
       /\ Lines(VMG \o X) = Lines(VMG) \cup Lines(X)
       /\ Len(VMG \o X) = 5
       /\ w.key = "valid" => SkipsBehind(VMG \o X)
  <2>1. /\ VMG \o X \in Reports(NVMG \cup {"account_funded", "USDC_opt_in"})
        /\ failed(VMG \o X) <=> failed(VMG) \/ failed(X)
        /\ Lines(VMG \o X) = Lines(VMG) \cup Lines(X)
        /\ Len(VMG \o X) = Len(VMG) + Len(X)
        /\ SkipsBehind(VMG) /\ (SkipsBehind(X) \/ failed(VMG)) => SkipsBehind(VMG \o X)
    BY <1>6, <1>8, <1>9, JoinReports DEF VMG, NVMG
  <2> QED
    BY <1>6, <1>9, <2>1 DEF VMG
<1>11. VMG \o X \in Reports(TailNames)
  BY <1>8, <1>10, MoreNames DEF NVMG
<1>12. pass \notin Lines(VMG)
  <2>1. pass.name = "USDC_opt_in"
    BY DEF pass
  <2> QED
    BY <1>1, <1>4, <1>5, <1>7, <1>9, <2>1 DEF VM, VMG
<1>13. ~failed(VMG \o X) => w.models \subseteq w.available
  BY <1>1, <1>4, <1>7, <1>9, <1>10 DEF VM, VMG
<1>14. w.key = "valid" /\ ~failed(VMG \o X) => isOptedIn(w, w.account) /\ funded
  BY <1>6, <1>10
<1>15. w.key = "valid" => (pass \in Lines(VMG \o X) <=> isOptedIn(w, w.account))
  BY <1>6, <1>10, <1>12
<1>16. funded => w.account[1].amount >= minBalance(w.account[1]) + 1
  BY DEF funded
<1> DEFINE R == VMG \o X
<1>17. R = V \o M \o G \o X
  BY DEF VM, VMG
<1>18. /\ R \in Reports(TailNames) /\ Len(R) = 5
       /\ w.key = "valid" => SkipsBehind(R)
       /\ ~failed(R) => w.models \subseteq w.available
       /\ w.key = "valid" /\ ~failed(R) =>
            /\ isOptedIn(w, w.account)
            /\ w.account[1].amount >= minBalance(w.account[1]) + 1
       /\ w.key = "valid" => (pass \in Lines(R) <=> isOptedIn(w, w.account))
  BY <1>10, <1>11, <1>13, <1>14, <1>15, <1>16
<1> HIDE DEF R
<1> QED
  BY <1>17, <1>18 DEF V, M, G, X, pass

(* A doctor that finds nothing wrong is right that the node can serve, and  *)
(* be paid unless its holding was frozen, whatever the amounts and the      *)
(* models are; and no problem hides another (runDoctor).                    *)
THEOREM DoctorIsRight ==
  ASSUME NEW w, DoctorWorld(w)
  PROVE  DoctorSound(w)
<1> DEFINE valid == w.key = "valid"
           C == Result("configuration", "pass")
           K == Verdict("operator_key", w.key = "valid")
           X == IF w.key = "valid" THEN fundingCheck(w) \o optInCheck(w)
                ELSE skipped(<<"account_funded", "USDC_opt_in">>)
           V == Verdict("provider_reachable", w.provider = "up")
                  \o modelsCheck(w) \o gatewayCheck(w) \o X
           five == <<"provider_reachable", "models_present", "gateway_reachable",
                     "account_funded", "USDC_opt_in">>
           T == IF w.offline THEN skipped(five) ELSE V
           pass == [name |-> "USDC_opt_in", status |-> "pass"]
           report == runDoctor(w)
           rich == /\ isOptedIn(w, w.account)
                   /\ w.account[1].amount >= minBalance(w.account[1]) + 1
<1>1. w.config \in BOOLEAN /\ w.offline \in BOOLEAN
  BY DEF DoctorWorld
<1>2. C \in Reports({"configuration"}) /\ Len(C) = 1 /\ ~failed(C) /\ SkipsBehind(C)
      /\ \A l \in Lines(C) : l.name = "configuration"
  <2>1. LET r == Result("configuration", "pass")
        IN  /\ r \in Reports({"configuration"}) /\ Len(r) = 1 /\ ~failed(r) /\ SkipsBehind(r)
            /\ Lines(r) = {[name |-> "configuration", status |-> "pass"]}
    BY OneLine
  <2> QED
    BY <2>1
<1>3. /\ K \in Reports({"operator_key"}) /\ Len(K) = 1 /\ SkipsBehind(K)
      /\ failed(K) <=> ~valid
      /\ \A l \in Lines(K) : l.name = "operator_key"
  <2>1. valid \in BOOLEAN
    OBVIOUS
  <2> HIDE DEF valid
  <2>2. LET r == Verdict("operator_key", valid)
        IN  /\ r \in Reports({"operator_key"}) /\ Len(r) = 1 /\ SkipsBehind(r)
            /\ failed(r) <=> ~valid
            /\ Lines(r) = {[name |-> "operator_key", status |-> IF valid THEN "pass" ELSE "fail"]}
    BY <2>1, OneVerdict
  <2>3. LET r == Verdict("operator_key", valid)
        IN  /\ r \in Reports({"operator_key"}) /\ Len(r) = 1 /\ SkipsBehind(r)
            /\ failed(r) <=> ~valid
            /\ \A l \in Lines(r) : l.name = "operator_key"
    BY <2>2
  <2> QED
    BY <2>3 DEF valid
<1>4. /\ V \in Reports(TailNames) /\ Len(V) = 5
      /\ valid => SkipsBehind(V)
      /\ ~failed(V) => w.models \subseteq w.available
      /\ valid /\ ~failed(V) => rich
      /\ valid => (pass \in Lines(V) <=> isOptedIn(w, w.account))
  BY DoctorTail
<1>5. skipped(five) \in Reports(TailNames) /\ Len(skipped(five)) = 5
  <2>1. /\ five \in Seq(TailNames) /\ Len(five) = 5
        /\ \A i, j \in DOMAIN five : five[i] = five[j] => i = j
    BY DEF TailNames
  <2> HIDE DEF five
  <2> QED
    BY <2>1, Skipped
<1> HIDE DEF V, K, C, X
<1>6. T \in Reports(TailNames) /\ Len(T) = 5
  BY <1>1, <1>4, <1>5
<1> HIDE DEF five
<1>7. /\ C \o K \in Reports({"configuration"} \cup {"operator_key"}) /\ Len(C \o K) = 2
      /\ failed(C \o K) <=> ~valid
      /\ SkipsBehind(C \o K) /\ pass \notin Lines(C \o K)
  <2>1. {"configuration"} \cap {"operator_key"} = {}
    OBVIOUS
  <2>2. /\ C \o K \in Reports({"configuration"} \cup {"operator_key"})
        /\ failed(C \o K) <=> failed(C) \/ failed(K)
        /\ Lines(C \o K) = Lines(C) \cup Lines(K)
        /\ Len(C \o K) = Len(C) + Len(K)
        /\ SkipsBehind(C) /\ (SkipsBehind(K) \/ failed(C)) => SkipsBehind(C \o K)
    BY <1>2, <1>3, <2>1, JoinReports
  <2>3. pass.name = "USDC_opt_in"
    OBVIOUS
  <2> HIDE DEF pass
  <2> QED
    BY <1>2, <1>3, <2>2, <2>3
<1> DEFINE CK == C \o K
<1> HIDE DEF pass, CK
<1>8. /\ CK \o T \in Reports({"configuration", "operator_key"} \cup TailNames)
      /\ failed(CK \o T) <=> ~valid \/ failed(T)
      /\ Lines(CK \o T) = Lines(CK) \cup Lines(T)
      /\ Len(CK \o T) = 7
      /\ SkipsBehind(T) \/ ~valid => SkipsBehind(CK \o T)
  <2>1. {"configuration", "operator_key"} \cap TailNames = {}
    BY DEF TailNames
  <2>2. CK \in Reports({"configuration", "operator_key"})
    <3>1. {"configuration"} \cup {"operator_key"} = {"configuration", "operator_key"}
      OBVIOUS
    <3> QED
      BY <1>7, <3>1 DEF CK
  <2>3. /\ CK \o T \in Reports({"configuration", "operator_key"} \cup TailNames)
        /\ failed(CK \o T) <=> failed(CK) \/ failed(T)
        /\ Lines(CK \o T) = Lines(CK) \cup Lines(T)
        /\ Len(CK \o T) = Len(CK) + Len(T)
        /\ SkipsBehind(CK) /\ (SkipsBehind(T) \/ failed(CK)) => SkipsBehind(CK \o T)
    <3> HIDE DEF T
    <3> QED
      BY <1>6, <2>1, <2>2, JoinReports
  <2> HIDE DEF T
  <2> QED
    BY <1>6, <1>7, <2>3 DEF CK
<1>9. CASE ~w.config
  <2>1. report = Result("configuration", "fail")
    BY <1>9 DEF runDoctor
  <2>2. LET r == Result("configuration", "fail")
        IN  r \in Reports({"configuration"}) /\ failed(r) /\ SkipsBehind(r)
    BY OneLine
  <2> HIDE DEF report
  <2>3. /\ report \in Reports({"configuration"}) /\ failed(report) /\ SkipsBehind(report)
    BY <2>1, <2>2
  <2> QED
    BY <1>9, <2>3 DEF DoctorSound, Reports, SkipsBehind, report
<1>10. CASE w.config
  <2>1. report = CK \o T
    BY <1>10 DEF runDoctor, CK, C, K, T, V, X, five
  <2> HIDE DEF report
  <2>2. /\ \A i, j \in DOMAIN report : report[i].name = report[j].name => i = j
        /\ Len(report) = 7
    BY <1>8, <2>1 DEF Reports
  <2>3. ~w.offline => SkipsBehind(report)
    BY <1>4, <1>8, <2>1
  <2>4. ~failed(report) /\ ~w.offline => valid /\ rich /\ w.models \subseteq w.available
    BY <1>4, <1>8, <2>1
  <2>5. rich => w.account[1].amount >= MIN_WALLET
    <3> SUFFICES ASSUME rich PROVE w.account[1].amount >= MIN_WALLET
      OBVIOUS
    <3>1. IsAccount(w.account) /\ w.account # <<>>
      BY DEF DoctorWorld, isOptedIn, OptedIn
    <3>2. w.account[1] \in Account
      BY <3>1, AccountFields
    <3> QED
      BY <3>2 DEF minBalance, MIN_WALLET, Account
  <2>6. valid /\ ~w.offline => (pass \in Lines(report) <=> isOptedIn(w, w.account))
    BY <1>4, <1>7, <1>8, <2>1 DEF CK
  <2>7. \A i \in DOMAIN report : report[i].status = "skip" =>
          w.offline \/ \E j \in 1 .. i - 1 : report[j].status = "fail"
    BY <1>1, <2>3 DEF SkipsBehind
  <2>8. valid /\ ~w.offline => ([name |-> "USDC_opt_in", status |-> "pass"]
                                  \in {report[i] : i \in DOMAIN report} <=> isOptedIn(w, w.account))
    BY <2>6 DEF Lines, pass
  <2>9. isOptedIn(w, w.account) => TakesUsdc(w.account) \/ Frozen(w.account)
    BY DEF isOptedIn, TakesUsdc, Frozen
  <2> QED
    BY <2>2, <2>4, <2>5, <2>7, <2>8, <2>9 DEF DoctorSound, report
<1> QED
  BY <1>1, <1>9, <1>10

(* What preflight looks at: accounts of any amount, any list of kinds a     *)
(* facilitator may advertise.  An operator who is the payee has its account.*)
PreflightWorld(w) ==
    /\ w.config \in BOOLEAN /\ w.loopback \in BOOLEAN /\ w.tag \in BOOLEAN
    /\ w.skipChain \in BOOLEAN /\ w.samePayTo \in BOOLEAN
    /\ w.price \in Nat
    /\ w.network \in {toCaip2(chain) : chain \in Chains}
    /\ w.kinds \in Seq(Kinds)
    /\ w.redis \in {"unset", "up", "down"}
    /\ w.algod \in Statuses
    /\ IsAccount(w.payTo) /\ IsAccount(w.operator)
    /\ w.samePayTo => w.operator = w.payTo

(* A set of naturals has a least element.                                   *)
LEMMA LeastOf ==
  ASSUME NEW S, S \subseteq Nat, S # {}
  PROVE  Min(S) \in S /\ \A n \in S : Min(S) <= n
<1>1. PICK m \in S : \A n \in S : ~ (<<n, m>> \in OpToRel(<, Nat))
  BY NatLessThanWellFounded, WFMin
<1>2. ASSUME NEW n \in S PROVE m <= n
  <2>1. ~(n < m)
    BY <1>1 DEF OpToRel
  <2> QED
    BY <2>1
<1> QED
  BY <1>2 DEF Min

(* A kind settles the chain if it is one of that chain, however it spells   *)
(* its name.                                                                *)
LEMMA SettlersFound ==
  ASSUME NEW w, PreflightWorld(w)
  PROVE  settling(w) = Settlers(w)
<1>1. PICK chain \in Chains : w.network = [chain |-> chain, form |-> "canonical"]
  BY DEF PreflightWorld, toCaip2
<1>2. ASSUME NEW i \in DOMAIN w.kinds
      PROVE  (/\ normalizeNetwork(w.kinds[i].network) # Unsupported
              /\ normalizeNetwork(w.kinds[i].network) = w.network)
               <=> w.kinds[i].network.chain = w.network.chain
  <2> DEFINE n == w.kinds[i].network
  <2>1. n \in NetworkTexts
    <3>1. w.kinds[i] \in Kinds
      BY DEF PreflightWorld
    <3> QED
      BY <3>1 DEF Kinds
  <2> HIDE DEF n
  <2>2. "unsupported" \notin Chains /\ w.network.chain = chain
    BY <1>1 DEF Chains
  <2>3. CASE n \in [chain : Chains, form : {"canonical", "full"}]
    <3>1. n.chain \in Chains /\ n = [chain |-> n.chain, form |-> n.form]
      BY <2>3
    <3>2. normalizeNetwork(n) = [chain |-> n.chain, form |-> "canonical"]
      BY <3>1 DEF normalizeNetwork
    <3>3. normalizeNetwork(n).chain = n.chain
      BY <3>2
    <3>4. Unsupported.chain = "unsupported"
      BY DEF Unsupported
    <3>5. normalizeNetwork(n) # Unsupported
      BY <2>2, <3>1, <3>3, <3>4
    <3>6. normalizeNetwork(n) = w.network <=> n.chain = w.network.chain
      BY <1>1, <2>2, <3>2, <3>3
    <3> QED
      BY <3>5, <3>6 DEF n
  <2>4. CASE n = Unsupported
    <3>1. n.chain = "unsupported"
      BY <2>4 DEF Unsupported
    <3>2. normalizeNetwork(n) = Unsupported
      BY <2>2, <3>1 DEF normalizeNetwork
    <3> QED
      BY <2>2, <3>1, <3>2 DEF n
  <2> QED
    BY <2>1, <2>3, <2>4 DEF NetworkTexts
<1> QED
  BY <1>2 DEF settling, Settlers

(* The payment library starts where a kind has the full name of the chain.  *)
LEMMA StartsInFull ==
  ASSUME NEW w, PreflightWorld(w), w.facilitator = "up"
  PROVE  initialize(w) <=> ListedInFull(w)
<1>1. PICK chain \in Chains : w.network = [chain |-> chain, form |-> "canonical"]
  BY DEF PreflightWorld, toCaip2
<1>2. facilitatorNetwork(w.network) = [chain |-> chain, form |-> "full"]
  BY <1>1 DEF facilitatorNetwork
<1>3. ASSUME NEW i \in DOMAIN w.kinds
      PROVE  w.kinds[i].network = facilitatorNetwork(w.network)
               <=> /\ w.kinds[i].network.chain = w.network.chain
                   /\ w.kinds[i].network.form = "full"
  <2> DEFINE n == w.kinds[i].network
  <2>1. n \in NetworkTexts
    <3>1. w.kinds[i] \in Kinds
      BY DEF PreflightWorld
    <3> QED
      BY <3>1 DEF Kinds
  <2> HIDE DEF n
  <2>2. n = [chain |-> n.chain, form |-> n.form]
    BY <2>1 DEF NetworkTexts, Unsupported
  <2>3. n = facilitatorNetwork(w.network) <=> n.chain = chain /\ n.form = "full"
    BY <1>2, <2>2
  <2> QED
    BY <1>1, <2>3 DEF n
<1> QED
  BY <1>3 DEF initialize, ListedInFull, Settlers

(* No line at all.                                                          *)
LEMMA NoLine ==
  ASSUME NEW N
  PROVE  <<>> \in Reports(N) /\ ~failed(<<>>)
BY DEF Reports, failed

(* The first fee payer decides.                                             *)
Sponsored(w) ==
    LET payers == {i \in settling(w) : w.kinds[i].feePayer # "none"}
    IN \A i \in payers : (\A j \in payers : i <= j) => w.kinds[i].feePayer = "valid"

(* The line on sponsorship fails where it does not decide well.             *)
LEMMA SponsorshipChecked ==
  ASSUME NEW w, PreflightWorld(w)
  PROVE  /\ sponsorship(w) \in Reports({"gasless_sponsorship"})
         /\ failed(sponsorship(w)) <=> ~Sponsored(w)
<1> DEFINE payers == {i \in settling(w) : w.kinds[i].feePayer # "none"}
           P == w.kinds[Min(payers)].feePayer = "valid"
<1>1. payers \subseteq Nat
  <2>1. DOMAIN w.kinds \subseteq Nat
    BY DEF PreflightWorld
  <2> QED
    BY <2>1 DEF settling
<1>2. Sponsored(w) <=>
        \A i \in payers : (\A j \in payers : i <= j) => w.kinds[i].feePayer = "valid"
  BY DEF Sponsored
<1>3. sponsorship(w) = IF payers = {} THEN Result("gasless_sponsorship", "warn")
                       ELSE Verdict("gasless_sponsorship", P)
  BY DEF sponsorship
<1>4. P \in BOOLEAN /\ (P <=> w.kinds[Min(payers)].feePayer = "valid")
  OBVIOUS
<1> HIDE DEF payers, P
<1>5. CASE payers = {}
  <2>1. LET r == Result("gasless_sponsorship", "warn")
        IN  r \in Reports({"gasless_sponsorship"}) /\ ~failed(r)
    BY OneLine
  <2> QED
    BY <1>2, <1>3, <1>5, <2>1
<1>6. CASE payers # {}
  <2>1. LET r == Verdict("gasless_sponsorship", P)
        IN  /\ r \in Reports({"gasless_sponsorship"}) /\ Len(r) = 1 /\ SkipsBehind(r)
            /\ failed(r) <=> ~P
            /\ Lines(r) = {[name |-> "gasless_sponsorship", status |-> IF P THEN "pass" ELSE "fail"]}
    BY <1>4, OneVerdict
  <2>2. Min(payers) \in payers /\ \A n \in payers : Min(payers) <= n
    BY <1>1, <1>6, LeastOf
  <2>3. ASSUME NEW i \in payers, \A j \in payers : i <= j PROVE i = Min(payers)
    <3>1. i <= Min(payers) /\ Min(payers) <= i /\ i \in Nat /\ Min(payers) \in Nat
      BY <1>1, <2>2, <2>3
    <3> QED
      BY <3>1
  <2>4. Sponsored(w) <=> P
    BY <1>2, <1>4, <2>2, <2>3
  <2> QED
    BY <1>3, <1>6, <2>1, <2>4
<1> QED
  BY <1>5, <1>6

(* The names of the lines about the facilitator.                            *)
FacilitatorNames == {"facilitator_reachable", "facilitator_kinds", "facilitator_supports_network",
                     "gasless_sponsorship"}

(* The facilitator's lines.                                                 *)
LEMMA FacilitatorChecked ==
  ASSUME NEW w, PreflightWorld(w)
  PROVE  /\ checkFacilitator(w) \in Reports(FacilitatorNames)
         /\ failed(checkFacilitator(w)) <=>
              ~(w.facilitator = "up" /\ settling(w) # {} /\ Sponsored(w))
<1> DEFINE P == settling(w) # {}
           R == Result("facilitator_reachable", "pass")
           V == Verdict("facilitator_supports_network", P)
           S == IF settling(w) = {} THEN <<>> ELSE sponsorship(w)
           K == IF w.kinds = <<>> THEN Result("facilitator_kinds", "fail") ELSE V \o S
           Later == {"facilitator_kinds", "facilitator_supports_network", "gasless_sponsorship"}
<1>1. checkFacilitator(w) = IF w.facilitator # "up" THEN Result("facilitator_reachable", "fail")
                            ELSE R \o K
  BY DEF checkFacilitator
<1>2. P \in BOOLEAN /\ (P <=> settling(w) # {})
  OBVIOUS
<1>3. P => w.kinds # <<>>
  BY DEF settling
<1>4. R \in Reports({"facilitator_reachable"}) /\ ~failed(R)
  BY OneLine
<1>5. LET r == Result("facilitator_reachable", "fail")
      IN  r \in Reports({"facilitator_reachable"}) /\ failed(r)
  BY OneLine
<1>6. LET r == Result("facilitator_kinds", "fail")
      IN  r \in Reports({"facilitator_kinds"}) /\ failed(r)
  BY OneLine
<1>7. S \in Reports({"gasless_sponsorship"}) /\ (failed(S) <=> P /\ ~Sponsored(w))
  <2>1. /\ sponsorship(w) \in Reports({"gasless_sponsorship"})
        /\ failed(sponsorship(w)) <=> ~Sponsored(w)
    BY SponsorshipChecked
  <2>2. <<>> \in Reports({"gasless_sponsorship"}) /\ ~failed(<<>>)
    BY NoLine
  <2>3. S = IF P THEN sponsorship(w) ELSE <<>>
    OBVIOUS
  <2> HIDE DEF S, P
  <2> QED
    BY <2>1, <2>2, <2>3
<1> HIDE DEF P
<1>8. V \in Reports({"facilitator_supports_network"}) /\ (failed(V) <=> ~P)
  BY <1>2, OneVerdict
<1> HIDE DEF R, V, S
<1>9. /\ V \o S \in Reports({"facilitator_supports_network"} \cup {"gasless_sponsorship"})
      /\ failed(V \o S) <=> failed(V) \/ failed(S)
  <2>1. {"facilitator_supports_network"} \cap {"gasless_sponsorship"} = {}
    OBVIOUS
  <2> QED
    BY <1>7, <1>8, <2>1, JoinReports
<1>10. K \in Reports(Later) /\ (failed(K) <=> ~(P /\ Sponsored(w)))
  <2>1. V \o S \in Reports(Later)
    BY <1>9, MoreNames
  <2>2. Result("facilitator_kinds", "fail") \in Reports(Later)
    BY <1>6, MoreNames
  <2> HIDE DEF Later
  <2> QED
    BY <1>3, <1>6, <1>7, <1>8, <1>9, <2>1, <2>2
<1> HIDE DEF K
<1>11. /\ R \o K \in Reports({"facilitator_reachable"} \cup Later)
       /\ failed(R \o K) <=> failed(R) \/ failed(K)
  <2>1. {"facilitator_reachable"} \cap Later = {}
    OBVIOUS
  <2> HIDE DEF Later
  <2> QED
    BY <1>4, <1>10, <2>1, JoinReports
<1>12. R \o K \in Reports(FacilitatorNames)
  <2>1. {"facilitator_reachable"} \cup Later \subseteq FacilitatorNames
    BY DEF FacilitatorNames
  <2> HIDE DEF Later
  <2> QED
    BY <1>11, <2>1, MoreNames
<1>13. Result("facilitator_reachable", "fail") \in Reports(FacilitatorNames)
  <2>1. {"facilitator_reachable"} \subseteq FacilitatorNames
    BY DEF FacilitatorNames
  <2> QED
    BY <1>5, <2>1, MoreNames
<1> QED
  BY <1>1, <1>2, <1>4, <1>5, <1>10, <1>11, <1>12, <1>13

(* An account that can be paid.                                             *)
Receives(account) ==
    account # <<>> /\ account[1].amount >= MIN_WALLET
      /\ account[1].optedIn /\ ~account[1].frozen

LabelNames(label) == {label.chain, label.funded, label.optIn}

(* The lines on an account.                                                 *)
LEMMA AccountChecked ==
  ASSUME NEW w, NEW label, NEW account, NEW pays \in BOOLEAN,
         IsAccount(account), label.funded # label.optIn
  PROVE  LET r == checkAccount(w, label, account, pays)
         IN  /\ r \in Reports(LabelNames(label))
             /\ failed(r) <=> ~(w.algod # "failing" /\ Receives(account))
<1> DEFINE F == {label.funded}
           O == {label.optIn}
           C == {label.chain}
           P == account[1].amount >= MIN_WALLET
           Q == ~(pays /\ account[1].usdc = 0)
           bad == ~account[1].optedIn \/ account[1].frozen
           X == IF bad THEN Result(label.optIn, "fail") ELSE Warning(label.optIn, Q)
           V == Verdict(label.funded, P)
           r == checkAccount(w, label, account, pays)
<1>1. r = IF w.algod = "failing" THEN Result(label.chain, "fail")
          ELSE IF account = <<>>
          THEN Result(label.funded, "fail") \o Result(label.optIn, "fail")
          ELSE V \o X
  BY DEF checkAccount
<1>2. P \in BOOLEAN /\ Q \in BOOLEAN /\ (P <=> account[1].amount >= MIN_WALLET)
  OBVIOUS
<1>3. account # <<>> => (Receives(account) <=> P /\ ~bad)
  <2>1. account # <<>> => account[1].optedIn \in BOOLEAN /\ account[1].frozen \in BOOLEAN
    BY AccountFields DEF Account
  <2> QED
    BY <2>1 DEF Receives
<1>4. bad \in BOOLEAN
  OBVIOUS
<1> HIDE DEF P, Q, bad
<1>5. F \cap O = {} /\ F \cup O \subseteq LabelNames(label) /\ C \subseteq LabelNames(label)
  BY DEF LabelNames
<1>6. label.funded \in F /\ label.optIn \in O /\ label.chain \in C
  OBVIOUS
<1> HIDE DEF F, O, C
<1>7. V \in Reports(F) /\ (failed(V) <=> ~P)
  BY <1>2, <1>6, OneVerdict
<1>8. X \in Reports(O) /\ (failed(X) <=> bad)
  <2>1. LET x == Result(label.optIn, "fail") IN x \in Reports(O) /\ failed(x)
    BY <1>6, OneLine
  <2>2. Warning(label.optIn, Q) \in Reports(O) /\ ~failed(Warning(label.optIn, Q))
    BY <1>2, <1>6, OneWarning
  <2> QED
    BY <1>4, <2>1, <2>2
<1> HIDE DEF V, X
<1>9. CASE w.algod = "failing"
  <2>1. LET x == Result(label.chain, "fail") IN x \in Reports(C) /\ failed(x)
    BY <1>6, OneLine
  <2>2. r = Result(label.chain, "fail")
    BY <1>1, <1>9
  <2> HIDE DEF r
  <2>3. r \in Reports(LabelNames(label)) /\ failed(r)
    BY <1>5, <2>1, <2>2, MoreNames
  <2> QED
    BY <1>9, <2>3 DEF r
<1>10. CASE w.algod # "failing" /\ account = <<>>
  <2> DEFINE x == Result(label.funded, "fail")
             y == Result(label.optIn, "fail")
  <2>1. x \in Reports(F) /\ failed(x)
    BY <1>6, OneLine
  <2>2. y \in Reports(O) /\ failed(y)
    BY <1>6, OneLine
  <2>3. r = x \o y
    BY <1>1, <1>10
  <2> HIDE DEF x, y, r
  <2>4. r \in Reports(F \cup O) /\ failed(r)
    BY <1>5, <2>1, <2>2, <2>3, JoinReports
  <2>5. r \in Reports(LabelNames(label))
    BY <1>5, <2>4, MoreNames
  <2> QED
    BY <1>10, <2>4, <2>5 DEF r, Receives
<1>11. CASE w.algod # "failing" /\ account # <<>>
  <2>1. r = V \o X
    BY <1>1, <1>11
  <2> HIDE DEF r
  <2>2. r \in Reports(F \cup O) /\ (failed(r) <=> failed(V) \/ failed(X))
    BY <1>5, <1>7, <1>8, <2>1, JoinReports
  <2>3. r \in Reports(LabelNames(label))
    BY <1>5, <2>2, MoreNames
  <2> QED
    BY <1>3, <1>7, <1>8, <1>11, <2>2, <2>3 DEF r
<1> QED
  BY <1>9, <1>10, <1>11

(* The names of the lines about the chain.                                  *)
ChainNames == {"on_chain_checks", "algod_reachable"} \cup LabelNames(PayTo) \cup LabelNames(Operator)

(* The lines on the chain.                                                  *)
LEMMA ChainChecked ==
  ASSUME NEW w, PreflightWorld(w)
  PROVE  /\ onChain(w) \in Reports(ChainNames)
         /\ failed(onChain(w)) <=>
              ~(w.skipChain \/ /\ w.algod = "up"
                               /\ Receives(w.payTo)
                               /\ w.key = "valid" => Receives(w.operator))
<1> DEFINE A == Result("algod_reachable", "pass")
           P == checkAccount(w, PayTo, w.payTo, TRUE)
           both == w.key = "valid" /\ ~w.samePayTo
           O == IF both THEN checkAccount(w, Operator, w.operator, FALSE) ELSE <<>>
           NA == {"algod_reachable"}
           NP == LabelNames(PayTo)
           NO == LabelNames(Operator)
<1>1. onChain(w) = IF w.skipChain THEN Result("on_chain_checks", "skip")
                   ELSE IF w.algod = "down" THEN Result("algod_reachable", "fail")
                   ELSE A \o P \o O
  BY DEF onChain
<1>2. /\ w.skipChain \in BOOLEAN /\ w.samePayTo \in BOOLEAN
      /\ IsAccount(w.payTo) /\ IsAccount(w.operator)
      /\ w.samePayTo => w.operator = w.payTo
      /\ w.algod \in {"up", "down", "failing"}
  BY DEF PreflightWorld, Statuses
<1>3. /\ NP = {"payTo_account_on_chain", "payTo_account_funded", "payTo_account_usdc_opt_in"}
      /\ PayTo.funded # PayTo.optIn
  BY DEF LabelNames, PayTo
<1>4. /\ NO = {"operator_account_on_chain", "operator_account_funded",
               "operator_account_usdc_opt_in"}
      /\ Operator.funded # Operator.optIn
  BY DEF LabelNames, Operator
<1>5. NA \cap NP = {} /\ (NA \cup NP) \cap NO = {}
  BY <1>3, <1>4
<1>6. A \in Reports(NA) /\ ~failed(A)
  BY OneLine
<1>7. P \in Reports(NP) /\ (failed(P) <=> ~(w.algod # "failing" /\ Receives(w.payTo)))
  BY <1>2, <1>3, AccountChecked
<1>8. O \in Reports(NO) /\ (failed(O) <=> both /\ ~(w.algod # "failing" /\ Receives(w.operator)))
  <2>1. LET r == checkAccount(w, Operator, w.operator, FALSE)
        IN r \in Reports(NO) /\ (failed(r) <=> ~(w.algod # "failing" /\ Receives(w.operator)))
    BY <1>2, <1>4, AccountChecked
  <2>2. <<>> \in Reports(NO) /\ ~failed(<<>>)
    BY NoLine
  <2> QED
    BY <2>1, <2>2
<1>9. /\ NA \cup NP \cup NO \subseteq ChainNames /\ NA \subseteq ChainNames
      /\ {"on_chain_checks"} \subseteq ChainNames
  BY DEF ChainNames
<1> HIDE DEF A, P, O, NA, NP, NO
<1>10. A \o P \in Reports(NA \cup NP) /\ (failed(A \o P) <=> failed(A) \/ failed(P))
  BY <1>5, <1>6, <1>7, JoinReports
<1> DEFINE AP == A \o P
<1> HIDE DEF AP
<1>11. AP \o O \in Reports(NA \cup NP \cup NO) /\ (failed(AP \o O) <=> failed(AP) \/ failed(O))
  BY <1>5, <1>8, <1>10, JoinReports DEF AP
<1>12. AP \o O \in Reports(ChainNames)
  BY <1>9, <1>11, MoreNames
<1>13. LET r == Result("on_chain_checks", "skip")
       IN  r \in Reports(ChainNames) /\ ~failed(r)
  <2>1. "on_chain_checks" \in ChainNames
    BY <1>9
  <2> QED
    BY <2>1, OneLine
<1>14. LET r == Result("algod_reachable", "fail")
       IN  r \in Reports(ChainNames) /\ failed(r)
  <2>1. "algod_reachable" \in ChainNames
    BY <1>9 DEF NA
  <2> QED
    BY <2>1, OneLine
<1>15. w.algod # "failing" /\ w.algod # "down" <=> w.algod = "up"
  BY <1>2
<1>16. w.algod # "failing" /\ Receives(w.payTo) =>
         (~both \/ Receives(w.operator) <=> (w.key = "valid" => Receives(w.operator)))
  BY <1>2
<1>17. failed(AP \o O) <=> ~(/\ w.algod # "failing" /\ Receives(w.payTo)
                             /\ w.key = "valid" => Receives(w.operator))
  BY <1>6, <1>7, <1>8, <1>10, <1>11, <1>16 DEF AP
<1>18. onChain(w) = IF w.skipChain THEN Result("on_chain_checks", "skip")
                    ELSE IF w.algod = "down" THEN Result("algod_reachable", "fail")
                    ELSE AP \o O
  BY <1>1 DEF AP
<1>19. CASE w.skipChain
  BY <1>13, <1>18, <1>19
<1>20. CASE ~w.skipChain /\ w.algod = "down"
  BY <1>14, <1>15, <1>18, <1>20
<1>21. CASE ~w.skipChain /\ w.algod # "down"
  BY <1>12, <1>15, <1>17, <1>18, <1>21
<1> QED
  BY <1>2, <1>19, <1>20, <1>21

(* The lines on the deployment itself.                                      *)
LEMMA DeploymentChecked ==
  ASSUME NEW w, PreflightWorld(w)
  PROVE  /\ checkPricing(w) \in Reports({"pricing"}) /\ ~failed(checkPricing(w))
         /\ checkPublicUrl(w) \in Reports({"public_base_url"})
         /\ failed(checkPublicUrl(w)) <=> w.loopback /\ w.network.chain = "mainnet"
         /\ checkChallengeTag(w) \in Reports({"discovery_tag"}) /\ ~failed(checkChallengeTag(w))
         /\ checkRedis(w) \in Reports({"redis"}) /\ (failed(checkRedis(w)) <=> w.redis = "down")
         /\ deriveOperatorAddress(w) \in Reports({"operator_key"})
         /\ failed(deriveOperatorAddress(w)) <=> w.key \notin {"unset", "valid"}
<1>1. /\ w.loopback \in BOOLEAN /\ w.tag \in BOOLEAN /\ w.price \in Nat
      /\ w.redis \in {"unset", "up", "down"}
  BY DEF PreflightWorld
<1>2. checkPricing(w) \in Reports({"pricing"}) /\ ~failed(checkPricing(w))
  <2> DEFINE P == w.price > 0
  <2>1. P \in BOOLEAN /\ checkPricing(w) = Warning("pricing", P)
    BY DEF checkPricing
  <2> HIDE DEF P
  <2> QED
    BY <2>1, OneWarning
<1>3. /\ checkPublicUrl(w) \in Reports({"public_base_url"})
      /\ failed(checkPublicUrl(w)) <=> w.loopback /\ w.network.chain = "mainnet"
  <2> DEFINE P == ~w.loopback
  <2>1. /\ P \in BOOLEAN
        /\ checkPublicUrl(w) = IF w.loopback /\ w.network.chain = "mainnet"
                               THEN Result("public_base_url", "fail")
                               ELSE Warning("public_base_url", P)
    BY DEF checkPublicUrl
  <2> HIDE DEF P
  <2>2. LET r == Warning("public_base_url", P)
        IN  r \in Reports({"public_base_url"}) /\ ~failed(r)
    BY <2>1, OneWarning
  <2>3. LET r == Result("public_base_url", "fail")
        IN  r \in Reports({"public_base_url"}) /\ failed(r)
    BY OneLine
  <2> QED
    BY <2>1, <2>2, <2>3
<1>4. checkChallengeTag(w) \in Reports({"discovery_tag"}) /\ ~failed(checkChallengeTag(w))
  BY <1>1, OneWarning DEF checkChallengeTag
<1>5. checkRedis(w) \in Reports({"redis"}) /\ (failed(checkRedis(w)) <=> w.redis = "down")
  <2> DEFINE s == CASE w.redis = "unset" -> "skip" [] w.redis = "up" -> "pass"
                    [] w.redis = "down" -> "fail"
  <2>1. s \in {"pass", "warn", "fail", "skip"} /\ (s = "fail" <=> w.redis = "down")
    BY <1>1
  <2>2. checkRedis(w) = Result("redis", s)
    BY DEF checkRedis
  <2> HIDE DEF s
  <2>3. LET r == Result("redis", s)
        IN  r \in Reports({"redis"}) /\ (failed(r) <=> s = "fail")
    BY <2>1, OneLine
  <2> QED
    BY <2>1, <2>2, <2>3
<1>6. /\ deriveOperatorAddress(w) \in Reports({"operator_key"})
      /\ failed(deriveOperatorAddress(w)) <=> w.key \notin {"unset", "valid"}
  <2> DEFINE P == w.key = "valid"
  <2>1. /\ P \in BOOLEAN /\ (P <=> w.key = "valid")
        /\ deriveOperatorAddress(w) = IF w.key = "unset" THEN Result("operator_key", "skip")
                                      ELSE Verdict("operator_key", P)
    BY DEF deriveOperatorAddress
  <2> HIDE DEF P
  <2>2. LET r == Verdict("operator_key", P)
        IN  r \in Reports({"operator_key"}) /\ (failed(r) <=> ~P)
    BY <2>1, OneVerdict
  <2>3. LET r == Result("operator_key", "skip")
        IN  r \in Reports({"operator_key"}) /\ ~failed(r)
    BY OneLine
  <2> QED
    BY <2>1, <2>2, <2>3
<1> QED
  BY <1>2, <1>3, <1>4, <1>5, <1>6

(* Preflight passes exactly the deployments whose facilitator settles the   *)
(* chain under whichever name and whose accounts can take USDC, and of      *)
(* those it passes just the ones listed under the full name boot; over any  *)
(* list of kinds and any amounts (preflight, initialize, handleReady).      *)
THEOREM PreflightIsRight ==
  ASSUME NEW w, PreflightWorld(w)
  PROVE  PreflightSound(w)
<1> DEFINE C == Result("configuration", "pass")
           U == Result("usdc_asset", "pass")
           R1 == C \o checkPricing(w)
           R2 == R1 \o checkPublicUrl(w)
           R3 == R2 \o checkChallengeTag(w)
           R4 == R3 \o U
           R5 == R4 \o checkFacilitator(w)
           R6 == R5 \o checkRedis(w)
           R7 == R6 \o deriveOperatorAddress(w)
           R8 == R7 \o onChain(w)
           N0 == {"configuration"}
           N1 == N0 \cup {"pricing"}
           N2 == N1 \cup {"public_base_url"}
           N3 == N2 \cup {"discovery_tag"}
           N4 == N3 \cup {"usdc_asset"}
           N5 == N4 \cup FacilitatorNames
           N6 == N5 \cup {"redis"}
           N7 == N6 \cup {"operator_key"}
           N8 == N7 \cup ChainNames
           report == preflight(w)
           public == ~(w.loopback /\ w.network.chain = "mainnet")
           settled == w.facilitator = "up" /\ settling(w) # {} /\ Sponsored(w)
           paid == w.skipChain \/ /\ w.algod = "up"
                                  /\ Receives(w.payTo)
                                  /\ w.key = "valid" => Receives(w.operator)
<1>1. preflight(w) = IF ~w.config THEN Result("configuration", "fail") ELSE R8
  BY DEF preflight
<1>2. /\ N0 \cap {"pricing"} = {} /\ N1 \cap {"public_base_url"} = {}
      /\ N2 \cap {"discovery_tag"} = {} /\ N3 \cap {"usdc_asset"} = {}
  OBVIOUS
<1>3. N4 \cap FacilitatorNames = {} /\ N5 \cap {"redis"} = {} /\ N6 \cap {"operator_key"} = {}
  BY DEF FacilitatorNames
<1>4. N7 \cap ChainNames = {}
  BY DEF FacilitatorNames, ChainNames, LabelNames, PayTo, Operator
<1>5. C \in Reports(N0) /\ ~failed(C) /\ U \in Reports({"usdc_asset"}) /\ ~failed(U)
  <2>1. C \in Reports({"configuration"}) /\ ~failed(C)
    BY OneLine
  <2>2. U \in Reports({"usdc_asset"}) /\ ~failed(U)
    BY OneLine
  <2> QED
    BY <2>1, <2>2
<1> HIDE DEF C, U, R1, R2, R3, R4, R5, R6, R7, R8, N0, N1, N2, N3, N4, N5, N6, N7, N8
<1>6. R1 \in Reports(N1) /\ ~failed(R1)
  <2>1. checkPricing(w) \in Reports({"pricing"}) /\ ~failed(checkPricing(w))
    BY DeploymentChecked
  <2>2. /\ C \o checkPricing(w) \in Reports(N0 \cup {"pricing"})
        /\ failed(C \o checkPricing(w)) <=> failed(C) \/ failed(checkPricing(w))
    BY <1>2, <1>5, <2>1, JoinReports
  <2> QED
    BY <1>5, <2>1, <2>2 DEF R1, N1
<1>7. R2 \in Reports(N2) /\ (failed(R2) <=> ~public)
  <2>1. /\ checkPublicUrl(w) \in Reports({"public_base_url"})
        /\ failed(checkPublicUrl(w)) <=> ~public
    BY DeploymentChecked
  <2>2. /\ R1 \o checkPublicUrl(w) \in Reports(N1 \cup {"public_base_url"})
        /\ failed(R1 \o checkPublicUrl(w)) <=> failed(R1) \/ failed(checkPublicUrl(w))
    BY <1>2, <1>6, <2>1, JoinReports
  <2> QED
    BY <1>6, <2>1, <2>2 DEF R2, N2
<1>8. R3 \in Reports(N3) /\ (failed(R3) <=> ~public)
  <2>1. /\ checkChallengeTag(w) \in Reports({"discovery_tag"})
        /\ ~failed(checkChallengeTag(w))
    BY DeploymentChecked
  <2>2. /\ R2 \o checkChallengeTag(w) \in Reports(N2 \cup {"discovery_tag"})
        /\ failed(R2 \o checkChallengeTag(w)) <=> failed(R2) \/ failed(checkChallengeTag(w))
    BY <1>2, <1>7, <2>1, JoinReports
  <2> QED
    BY <1>7, <2>1, <2>2 DEF R3, N3
<1>9. R4 \in Reports(N4) /\ (failed(R4) <=> ~public)
  <2>1. /\ R3 \o U \in Reports(N3 \cup {"usdc_asset"})
        /\ failed(R3 \o U) <=> failed(R3) \/ failed(U)
    BY <1>2, <1>5, <1>8, JoinReports
  <2> QED
    BY <1>5, <1>8, <2>1 DEF R4, N4
<1> HIDE DEF public, settled, paid
<1>10. R5 \in Reports(N5) /\ (failed(R5) <=> ~(public /\ settled))
  <2>1. /\ checkFacilitator(w) \in Reports(FacilitatorNames)
        /\ failed(checkFacilitator(w)) <=> ~settled
    BY FacilitatorChecked DEF settled
  <2>2. /\ R4 \o checkFacilitator(w) \in Reports(N4 \cup FacilitatorNames)
        /\ failed(R4 \o checkFacilitator(w)) <=> failed(R4) \/ failed(checkFacilitator(w))
    BY <1>3, <1>9, <2>1, JoinReports
  <2> QED
    BY <1>9, <2>1, <2>2 DEF R5, N5
<1>11. R6 \in Reports(N6) /\ (failed(R6) <=> ~(public /\ settled /\ w.redis # "down"))
  <2>1. checkRedis(w) \in Reports({"redis"}) /\ (failed(checkRedis(w)) <=> w.redis = "down")
    BY DeploymentChecked
  <2>2. /\ R5 \o checkRedis(w) \in Reports(N5 \cup {"redis"})
        /\ failed(R5 \o checkRedis(w)) <=> failed(R5) \/ failed(checkRedis(w))
    BY <1>3, <1>10, <2>1, JoinReports
  <2> QED
    BY <1>10, <2>1, <2>2 DEF R6, N6
<1>12. /\ R7 \in Reports(N7)
       /\ failed(R7) <=> ~(public /\ settled /\ w.redis # "down" /\ w.key \in {"unset", "valid"})
  <2>1. /\ deriveOperatorAddress(w) \in Reports({"operator_key"})
        /\ failed(deriveOperatorAddress(w)) <=> w.key \notin {"unset", "valid"}
    BY DeploymentChecked
  <2>2. /\ R6 \o deriveOperatorAddress(w) \in Reports(N6 \cup {"operator_key"})
        /\ failed(R6 \o deriveOperatorAddress(w)) <=> failed(R6) \/ failed(deriveOperatorAddress(w))
    BY <1>3, <1>11, <2>1, JoinReports
  <2> QED
    BY <1>11, <2>1, <2>2 DEF R7, N7
<1>13. /\ R8 \in Reports(N8)
       /\ failed(R8) <=> ~(/\ public /\ settled /\ w.redis # "down"
                           /\ w.key \in {"unset", "valid"} /\ paid)
  <2>1. onChain(w) \in Reports(ChainNames) /\ (failed(onChain(w)) <=> ~paid)
    BY ChainChecked DEF paid
  <2>2. /\ R7 \o onChain(w) \in Reports(N7 \cup ChainNames)
        /\ failed(R7 \o onChain(w)) <=> failed(R7) \/ failed(onChain(w))
    BY <1>4, <1>12, <2>1, JoinReports
  <2> QED
    BY <1>12, <2>1, <2>2 DEF R8, N8
<1>14. LET r == Result("configuration", "fail")
       IN  r \in Reports(N0) /\ failed(r)
  BY OneLine DEF N0
<1>15. /\ \A i, j \in DOMAIN report : report[i].name = report[j].name => i = j
       /\ ~failed(report) <=> /\ w.config /\ public /\ settled /\ w.redis # "down"
                              /\ w.key \in {"unset", "valid"} /\ paid
  <2>1. CASE ~w.config
    <3>1. report \in Reports(N0) /\ failed(report)
      BY <1>1, <1>14, <2>1
    <3> HIDE DEF report
    <3> QED
      BY <2>1, <3>1 DEF Reports
  <2>2. CASE w.config
    <3>1. /\ report \in Reports(N8)
          /\ failed(report) <=> ~(/\ public /\ settled /\ w.redis # "down"
                                  /\ w.key \in {"unset", "valid"} /\ paid)
      BY <1>1, <1>13, <2>2
    <3> HIDE DEF report
    <3> QED
      BY <2>2, <3>1 DEF Reports
  <2> QED
    BY <2>1, <2>2
<1> HIDE DEF report
<1>16. settling(w) = Settlers(w)
  BY SettlersFound
<1>17. ~failed(report) /\ ~w.skipChain => handleReady(w)
  BY <1>15 DEF handleReady, probeWallet, settled, paid, Receives
<1>18. ~failed(report) => (boots(w) <=> ListedInFull(w))
  BY <1>15, StartsInFull DEF boots, settled
<1> QED
  BY <1>15, <1>16, <1>17, <1>18
     DEF PreflightSound, Sponsored, Receives, TakesUsdc, OptedIn, public, settled, paid, report

-----------------------------------------------------------------------------
(* The accounts the model check enumerates are accounts.                    *)
LEMMA AskedAccounts ==
  ASSUME NEW most \in Nat, NEW account \in Accounts(most)
  PROVE  IsAccount(account)
<1>1. CASE account = <<>>
  BY <1>1 DEF IsAccount
<1>2. CASE account # <<>>
  <2>1. PICK a \in [amount : 1 .. most, others : {0, 1}, optedIn : BOOLEAN,
                    frozen : BOOLEAN, usdc : {0, 1}] : account = <<a>>
    BY <1>2 DEF Accounts
  <2>2. a \in Account
    BY <2>1 DEF Account
  <2> QED
    BY <2>1, <2>2 DEF IsAccount
<1> QED
  BY <1>1, <1>2

(* The worlds the model check shows the doctor.                             *)
LEMMA AskedDoctor ==
  ASSUME AskDoctor
  PROVE  DoctorWorld(asked'.world)
<1>1. \A account \in Accounts(4) : IsAccount(account)
  BY AskedAccounts
<1>2. PICK config \in BOOLEAN, offline \in BOOLEAN, key \in {"unusable", "valid"},
           provider \in {"up", "down"}, available \in {{"a"}, {"a", "b"}},
           gateway \in Statuses, algod \in Statuses, account \in Accounts(4) :
        asked' = [about |-> "doctor",
                  world |-> [config |-> config, offline |-> offline, key |-> key,
                             provider |-> provider, models |-> {"a", "b"},
                             available |-> available, gateway |-> gateway, algod |-> algod,
                             account |-> account]]
  BY DEF AskDoctor, Ask
<1> QED
  BY <1>1, <1>2 DEF DoctorWorld

(* The world in which all is well is one preflight may look at.             *)
LEMMA HealthyWorld == PreflightWorld(Healthy)
<1>1. IsAccount(Fund)
  BY DEF IsAccount, Account, Fund
<1>2. Kind \in Kinds
  BY DEF Kind, Kinds, NetworkTexts, Chains
<1>3. <<Kind>> \in Seq(Kinds)
  BY <1>2
<1>4. toCaip2("mainnet") \in {toCaip2(chain) : chain \in Chains}
  BY DEF Chains
<1> HIDE DEF Fund, Kind, Kinds, toCaip2
<1> QED
  BY <1>1, <1>3, <1>4 DEF PreflightWorld, Healthy, Statuses

(* The worlds the model check shows preflight.                              *)
LEMMA AskedPreflight ==
  ASSUME AskAccounts \/ AskFacilitator \/ AskDeployment
  PROVE  PreflightWorld(asked'.world)
<1>1. \A world : AskPreflight(world) => asked'.world = world
  BY DEF AskPreflight, Ask
<1>2. ASSUME AskAccounts PROVE PreflightWorld(asked'.world)
  <2>1. PICK payTo \in Accounts(3), operator \in Accounts(3), algod \in Statuses,
             same \in BOOLEAN, skip \in BOOLEAN,
             key \in {"unset", "malformed", "unusable", "valid"} :
          /\ same => operator = payTo
          /\ AskPreflight([Healthy EXCEPT !.payTo = payTo, !.operator = operator,
                                          !.algod = algod, !.samePayTo = same,
                                          !.skipChain = skip, !.key = key])
    BY <1>2 DEF AskAccounts
  <2>2. IsAccount(payTo) /\ IsAccount(operator)
    BY AskedAccounts
  <2>3. PreflightWorld([Healthy EXCEPT !.payTo = payTo, !.operator = operator,
                                       !.algod = algod, !.samePayTo = same,
                                       !.skipChain = skip, !.key = key])
    BY <2>1, <2>2, HealthyWorld DEF PreflightWorld, Healthy
  <2> QED
    BY <1>1, <2>1, <2>3
<1>3. ASSUME AskFacilitator PROVE PreflightWorld(asked'.world)
  <2>1. PICK chain \in Chains, status \in Statuses, loopback \in BOOLEAN, kinds \in KindLists :
          AskPreflight([Healthy EXCEPT !.network = toCaip2(chain), !.facilitator = status,
                                       !.loopback = loopback, !.kinds = kinds])
    BY <1>3 DEF AskFacilitator
  <2>2. kinds \in Seq(Kinds)
    <3>1. PICK n \in 0 .. 2 : kinds \in [1 .. n -> Kinds]
      BY <2>1 DEF KindLists
    <3> HIDE DEF Kinds
    <3> QED
      BY <3>1
  <2>3. PreflightWorld([Healthy EXCEPT !.network = toCaip2(chain), !.facilitator = status,
                                       !.loopback = loopback, !.kinds = kinds])
    BY <2>1, <2>2, HealthyWorld DEF PreflightWorld, Healthy
  <2> QED
    BY <1>1, <2>1, <2>3
<1>4. ASSUME AskDeployment PROVE PreflightWorld(asked'.world)
  <2>1. PICK config \in BOOLEAN, tag \in BOOLEAN, price \in {0, 1},
             redis \in {"unset", "up", "down"}, algod \in Statuses :
          AskPreflight([Healthy EXCEPT !.config = config, !.tag = tag, !.price = price,
                                       !.redis = redis, !.algod = algod])
    BY <1>4 DEF AskDeployment
  <2>2. PreflightWorld([Healthy EXCEPT !.config = config, !.tag = tag, !.price = price,
                                       !.redis = redis, !.algod = algod])
    BY <2>1, HealthyWorld DEF PreflightWorld, Healthy
  <2> QED
    BY <1>1, <2>1, <2>2
<1> QED
  BY <1>2, <1>3, <1>4

(* What the diagnostics pass is so, with the two exceptions they name, in   *)
(* every world asked about (DiagnosisSound of the model check):             *)
(* DoctorIsRight and PreflightIsRight say it of all worlds.                 *)
THEOREM DiagnosisIsSound == RulesSpec => []DiagnosisSound
<1>1. RulesInit => DiagnosisSound
  BY DEF RulesInit, Nothing, DiagnosisSound
<1>2. ASSUME DiagnosisSound, [RulesNext]_<<vars, asked>> PROVE DiagnosisSound'
  <2>1. CASE asked' = asked
    BY <1>2, <2>1 DEF DiagnosisSound
  <2>2. CASE asked' # asked
    <3>1. Question
      BY <1>2, <2>2, AskedOnce
    <3>2. /\ asked'.about = "doctor" => AskDoctor
          /\ asked'.about = "preflight" => AskAccounts \/ AskFacilitator \/ AskDeployment
      BY <3>1, AskedAbout, AboutConfig, AboutWorlds, AskedAnswers
    <3>3. asked'.about = "doctor" => DoctorSound(asked'.world)
      BY <3>2, AskedDoctor, DoctorIsRight
    <3>4. asked'.about = "preflight" => PreflightSound(asked'.world)
      BY <3>2, AskedPreflight, PreflightIsRight
    <3> QED
      BY <3>3, <3>4 DEF DiagnosisSound
  <2> QED
    BY <2>1, <2>2
<1> QED
  BY <1>1, <1>2, PTL DEF RulesSpec
-----------------------------------------------------------------------------
(* The choice of a node.                                                    *)

(* A node as the selector reads it, with any number of capabilities.        *)
SelectorNode(node) ==
    /\ node.excluded \in BOOLEAN /\ node.sameNetwork \in BOOLEAN /\ node.fresh \in BOOLEAN
    /\ node.healthy \in BOOLEAN /\ node.usdcOptedIn \in BOOLEAN
    /\ node.inFlight \in Nat /\ node.maxConcurrency \in Nat
    /\ \E C : node.capabilities \in Seq(C)

(* What a node asks for a model is the price of its first capability of     *)
(* that name.                                                               *)
LEMMA FirstPrice ==
  ASSUME NEW node, NEW model, SelectorNode(node)
  PROVE  nodePriceAtomic(node, model) # Throws <=>
           \E i \in DOMAIN node.capabilities :
              /\ node.capabilities[i].model.name = model.name
              /\ usdcToAtomic(node.capabilities[i].price) # Throws
              /\ \A j \in 1 .. i - 1 : node.capabilities[j].model.name # model.name
<1> DEFINE caps == node.capabilities
           I == {i \in 1 .. Len(caps) : caps[i].model.name = model.name}
<1>1. PICK C : caps \in Seq(C)
  BY DEF SelectorNode
<1>2. Len(caps) \in Nat /\ DOMAIN caps = 1 .. Len(caps)
  BY <1>1
<1>3. nodePriceAtomic(node, model) =
        LET i == IF I = {} THEN 0 ELSE Min(I)
        IN IF i = 0 THEN Throws ELSE usdcToAtomic(caps[i].price)
  BY DEF nodePriceAtomic, SelectInSeq, normalizeModelId
<1>4. I \subseteq Nat
  BY <1>2
<1>5. CASE I = {}
  <2>1. nodePriceAtomic(node, model) = Throws
    BY <1>3, <1>5
  <2>2. \A i \in DOMAIN caps : caps[i].model.name # model.name
    BY <1>2, <1>5
  <2> HIDE DEF I
  <2> QED
    BY <2>1, <2>2
<1>6. CASE I # {}
  <2> DEFINE m == Min(I)
  <2>1. m \in I /\ \A n \in I : m <= n
    BY <1>4, <1>6, LeastOf
  <2> HIDE DEF m
  <2>2. nodePriceAtomic(node, model) = usdcToAtomic(caps[m].price)
    <3>1. m # 0
      BY <1>2, <2>1
    <3> HIDE DEF I
    <3> QED
      BY <1>3, <1>6, <3>1 DEF m
  <2>3. caps[m].model.name = model.name /\ \A j \in 1 .. m - 1 : caps[j].model.name # model.name
    BY <1>2, <2>1
  <2>4. ASSUME NEW i \in DOMAIN caps, caps[i].model.name = model.name,
               \A j \in 1 .. i - 1 : caps[j].model.name # model.name
        PROVE  i = m
    BY <1>2, <2>1, <2>3, <2>4
  <2> QED
    BY <1>2, <2>1, <2>2, <2>3, <2>4
<1> QED
  BY <1>5, <1>6

(* The selector and /readyz agree on every node, whatever it advertises     *)
(* (EligibilitySound of Selector; select, handleReady).                     *)
THEOREM EligibilityIsSound ==
  ASSUME NEW node, NEW model, SelectorNode(node)
  PROVE  EligibilitySound(node, model)
<1> DEFINE one == <<node>>
           Ready == unroutableReason(node) = "none"
           Found == \E i \in DOMAIN node.capabilities :
                      /\ node.capabilities[i].model.name = model.name
                      /\ usdcToAtomic(node.capabilities[i].price) # Throws
                      /\ \A j \in 1 .. i - 1 : node.capabilities[j].model.name # model.name
           Priced == nodePriceAtomic(node, model) # Throws
           why == rejection(node, model)
<1>1. readyCount(one) = IF Ready THEN 1 ELSE 0
  <2>1. DOMAIN one = {1} /\ one[1] = node
    OBVIOUS
  <2> HIDE DEF one
  <2>2. {i \in DOMAIN one : unroutableReason(one[i]) = "none"} = IF Ready THEN {1} ELSE {}
    BY <2>1
  <2> QED
    BY <2>2, FS_EmptySet, FS_Singleton DEF readyCount
<1>2. Priced <=> Found
  BY FirstPrice
<1>3. Found => Advertises(node, model)
  BY DEF Advertises, normalizeModelId
<1>4. Ready <=> node.sameNetwork /\ node.fresh /\ node.healthy /\ node.usdcOptedIn
  BY DEF unroutableReason, SelectorNode
<1>5. why = "none" <=> /\ ~node.excluded /\ node.sameNetwork /\ node.fresh /\ node.healthy
                       /\ Advertises(node, model) /\ node.usdcOptedIn
                       /\ ~(node.inFlight >= node.maxConcurrency) /\ Priced
  BY DEF rejection, SelectorNode
<1>6. why \in {"excluded", "wrongNetwork", "stale", "unhealthy", "wrongModel", "notOptedIn",
               "saturated", "unpriceable", "none"}
  BY DEF rejection
<1>7. Ready => why \notin {"wrongNetwork", "stale", "unhealthy", "notOptedIn"}
  BY <1>4 DEF rejection, SelectorNode
<1>8. node.inFlight < node.maxConcurrency <=> ~(node.inFlight >= node.maxConcurrency)
  BY DEF SelectorNode
<1> HIDE DEF one, Ready, Priced, why
<1>9. why = "none" => \A required \in BOOLEAN : publicRoutable(node, required)
  BY <1>5 DEF publicRoutable
<1> QED
  BY <1>1, <1>2, <1>3, <1>4, <1>5, <1>6, <1>7, <1>8, <1>9 DEF EligibilitySound, one, why

(* A list of numbers has a greatest element.                                *)
LEMMA GreatestOf ==
  ASSUME NEW list \in Seq(Nat), list # <<>>
  PROVE  LET S == {list[i] : i \in DOMAIN list}
         IN  Max(S) \in S /\ \A n \in S : n <= Max(S)
<1> DEFINE Top(n) == \E i \in 1 .. n : \A j \in 1 .. n : list[j] <= list[i]
           Odd1 == {n \in 1 .. Len(list) : ~Top(n)}
           S == {list[i] : i \in DOMAIN list}
<1>1. Len(list) \in Nat \ {0} /\ DOMAIN list = 1 .. Len(list)
      /\ \A i \in 1 .. Len(list) : list[i] \in Nat
  OBVIOUS
<1>2. Odd1 = {}
  <2>1. SUFFICES ASSUME Odd1 # {} PROVE FALSE
    OBVIOUS
  <2>2. PICK m \in Odd1 : \A n \in Odd1 : m <= n
    <3>1. Odd1 \subseteq Nat
      BY <1>1
    <3> HIDE DEF Odd1
    <3> QED
      BY <2>1, <3>1, LeastOf
  <2>3. /\ m \in 1 .. Len(list) /\ ~Top(m)
        /\ \A n \in 1 .. Len(list) : n < m => Top(n)
    <3>1. m \in 1 .. Len(list) /\ ~Top(m)
      BY <2>2
    <3>2. ASSUME NEW n \in 1 .. Len(list), n < m, ~Top(n) PROVE FALSE
      <4>1. n \in Odd1
        BY <3>2
      <4> HIDE DEF Odd1
      <4> QED
        BY <1>1, <2>2, <3>1, <3>2, <4>1
    <3> HIDE DEF Top
    <3> QED
      BY <3>1, <3>2
  <2> HIDE DEF Odd1
  <2>4. CASE m = 1
    <3>1. Top(1)
      BY <1>1
    <3> QED
      BY <2>3, <2>4, <3>1
  <2>5. CASE m # 1
    <3>1. m - 1 \in 1 .. Len(list) /\ m - 1 < m /\ m \in Nat
      BY <1>1, <2>3, <2>5
    <3>2. PICK i \in 1 .. m - 1 : \A j \in 1 .. m - 1 : list[j] <= list[i]
      BY <2>3, <3>1
    <3>3. \A j \in 1 .. m : j = m \/ j \in 1 .. m - 1
      BY <3>1
    <3>4. i \in 1 .. m /\ m \in 1 .. m /\ \A j \in 1 .. m : j \in 1 .. Len(list)
      BY <1>1, <2>3, <3>1, <3>2
    <3>5. \A j \in 1 .. m : list[j] \in Nat
      BY <1>1, <3>4
    <3> DEFINE f == list[m]
               g == list[i]
    <3>6. f \in Nat /\ g \in Nat
      BY <3>4, <3>5
    <3>7. \A j \in 1 .. m : list[j] = f \/ list[j] <= g
      BY <3>2, <3>3
    <3> HIDE DEF f, g
    <3>8. (\A j \in 1 .. m : list[j] <= g) \/ (\A j \in 1 .. m : list[j] <= f)
      BY <3>5, <3>6, <3>7
    <3>9. Top(m)
      BY <3>4, <3>8 DEF f, g
    <3> QED
      BY <2>3, <3>9
  <2> QED
    BY <2>4, <2>5
<1>3. Top(Len(list))
  <2> HIDE DEF Odd1, Top
  <2>1. Len(list) \in 1 .. Len(list) /\ Len(list) \notin Odd1
    BY <1>1, <1>2
  <2> QED
    BY <2>1 DEF Odd1
<1>4. \E x \in S : \A y \in S : x >= y
  BY <1>1, <1>3
<1> HIDE DEF S
<1>5. Max(S) \in S /\ \A y \in S : Max(S) >= y
  BY <1>4 DEF Max
<1>6. S \subseteq Nat
  BY <1>1 DEF S
<1> QED
  BY <1>5, <1>6 DEF S

(* A value's place in its span, rounded down: it keeps the order and stays  *)
(* within the scale.                                                        *)
LEMMA SpanDivides ==
  ASSUME NEW x \in Nat, NEW y \in Nat, NEW b \in Nat \ {0}, x <= y, y <= b,
         NEW r \in Nat
  PROVE  /\ (x * r) \div b \in Nat
         /\ (x * r) \div b <= (y * r) \div b
         /\ (y * r) \div b <= r
<1> DEFINE p == (x * r) \div b
           q == (y * r) \div b
<1>1. x * r \in Nat /\ y * r \in Nat /\ x * r <= y * r /\ y * r <= b * r
  OBVIOUS
<1>2. p \in Nat /\ b * p <= x * r /\ x * r < b * p + b
  OBVIOUS
<1>3. q \in Nat /\ b * q <= y * r /\ y * r < b * q + b
  OBVIOUS
<1> HIDE DEF p, q
<1>4. p <= q
  <2>1. b * p < b * (q + 1)
    BY <1>1, <1>2, <1>3
  <2> QED
    BY <1>2, <1>3, <2>1
<1>5. q <= r
  <2>1. b * q <= b * r
    BY <1>1, <1>3
  <2> QED
    BY <1>3, <2>1
<1> QED
  BY <1>2, <1>4, <1>5 DEF p, q

(* A common factor of both numbers does not change their quotient.          *)
LEMMA CommonFactor ==
  ASSUME NEW a \in Nat, NEW b \in Nat \ {0}
  PROVE  (3 * a) \div (3 * b) = a \div b
<1> DEFINE q == a \div b
<1>1. q \in Nat /\ b * q <= a /\ a < b * q + b
  OBVIOUS
<1> HIDE DEF q
<1>2. (3 * b) * q <= 3 * a /\ 3 * a < (3 * b) * q + 3 * b
  BY <1>1
<1> DEFINE p == (3 * a) \div (3 * b)
<1>3. p \in Nat /\ (3 * b) * p <= 3 * a /\ 3 * a < (3 * b) * p + 3 * b
  OBVIOUS
<1> HIDE DEF p
<1>4. p < q + 1
  BY <1>1, <1>2, <1>3
<1>5. q < p + 1
  BY <1>1, <1>2, <1>3
<1> QED
  BY <1>1, <1>3, <1>4, <1>5 DEF p, q
(* Where the values of a list lie in their span: within the scale, in their *)
(* order, and the same in a unit three times as large (normalizeNumber,     *)
(* normalizeAtomic).                                                        *)
LEMMA InTheSpan ==
  ASSUME NEW list \in Seq(Nat), NEW i \in DOMAIN list, NEW j \in DOMAIN list
  PROVE  LET S == {list[k] : k \in DOMAIN list}
             at(n) == normalize01(n, Min(S), Max(S))
         IN  /\ at(list[i]) \in Nat /\ at(list[i]) <= RatioScale
             /\ list[i] <= list[j] => at(list[i]) <= at(list[j])
             /\ normalize01(3 * list[i], 3 * Min(S), 3 * Max(S)) = at(list[i])
<1> DEFINE S == {list[k] : k \in DOMAIN list}
           low == Min(S)
           high == Max(S)
<1>1. list # <<>> /\ S \subseteq Nat /\ S # {} /\ list[i] \in S /\ list[j] \in S
  OBVIOUS
<1>2. RatioScale \in Nat
  BY SelectorAssumption
<1>3. low \in Nat /\ \A n \in S : low <= n
  BY <1>1, LeastOf
<1>4. high \in Nat /\ \A n \in S : n <= high
  BY <1>1, GreatestOf
<1> DEFINE x == list[i]
           y == list[j]
<1>5. x \in Nat /\ y \in Nat /\ low <= x /\ x <= high /\ low <= y /\ y <= high
  BY <1>1, <1>3, <1>4
<1> HIDE DEF x, y, low, high
<1>6. CASE low = high
  BY <1>2, <1>3, <1>4, <1>5, <1>6 DEF normalize01, x, y, low, high
<1>7. CASE low # high
  <2> DEFINE b == high - low
             v(n) == ((n - low) * RatioScale) \div b
  <2>1. b \in Nat \ {0} /\ x - low \in Nat /\ y - low \in Nat /\ x - low <= b /\ y - low <= b
    BY <1>3, <1>4, <1>5, <1>7
  <2>2. v(x) \in Nat /\ v(x) <= RatioScale /\ (x <= y => v(x) <= v(y))
    <3> HIDE DEF b
    <3>1. v(x) \in Nat /\ v(x) <= RatioScale
      <4> DEFINE d == x - low
      <4>1. d \in Nat /\ d <= d /\ d <= b
        BY <2>1
      <4> HIDE DEF d
      <4>2. (d * RatioScale) \div b \in Nat /\ (d * RatioScale) \div b <= RatioScale
        BY <1>2, <2>1, <4>1, SpanDivides
      <4> QED
        BY <4>2 DEF d
    <3>2. ASSUME x <= y PROVE v(x) <= v(y)
      <4>1. x - low <= y - low
        BY <1>3, <1>5, <3>2
      <4> QED
        BY <1>2, <2>1, <4>1, SpanDivides
    <3> QED
      BY <3>1, <3>2
  <2>3. normalize01(3 * x, 3 * low, 3 * high) = v(x)
    <3> DEFINE a == (x - low) * RatioScale
    <3>1. a \in Nat
      BY <1>2, <2>1
    <3>2. (3 * x - 3 * low) * RatioScale = 3 * a /\ 3 * high - 3 * low = 3 * b
      BY <1>2, <1>3, <1>4, <1>5
    <3>3. normalize01(3 * x, 3 * low, 3 * high) = (3 * a) \div (3 * b)
      BY <1>3, <1>4, <1>7, <3>2 DEF normalize01
    <3> HIDE DEF a, b
    <3>4. (3 * a) \div (3 * b) = a \div b
      BY <2>1, <3>1, CommonFactor
    <3> QED
      BY <3>3, <3>4 DEF a
  <2>4. \A n : normalize01(n, low, high) = v(n)
    BY <1>7 DEF normalize01
  <2> HIDE DEF v
  <2> QED
    BY <2>2, <2>3, <2>4 DEF x, y, low, high
<1> QED
  BY <1>6, <1>7
(* Nobody who may be drawn goes without a share of the draw, a node that is *)
(* no slower, no dearer and no worse than another has no smaller one, and   *)
(* prices in another unit change nothing: for any list, any figures and any *)
(* scale of the ratios (DrawSound of Selector; scoreNode, select).          *)
THEOREM WeightsAreFair ==
  ASSUME NEW I,
         NEW list \in Seq([id : I, latencyMsP95 : Nat, price : Nat,
                           qualityScore : 0 .. RatioScale])
  PROVE  LET ws == weights(list)
             dearer == [i \in DOMAIN list |-> [list[i] EXCEPT !.price = 3 * @]]
         IN  /\ \A i, j \in DOMAIN list :
                  /\ ws[i] > 0
                  /\ (/\ list[i].latencyMsP95 <= list[j].latencyMsP95
                      /\ list[i].price <= list[j].price
                      /\ list[i].qualityScore >= list[j].qualityScore) => ws[i] >= ws[j]
             /\ weights(dearer) = ws
<1> DEFINE ws == weights(list)
           dearer == [i \in DOMAIN list |-> [list[i] EXCEPT !.price = 3 * @]]
           lat == [i \in DOMAIN list |-> list[i].latencyMsP95]
           cost == [i \in DOMAIN list |-> list[i].price]
           Lat == {lat[i] : i \in DOMAIN lat}
           Cost == {cost[i] : i \in DOMAIN cost}
           slow(i) == normalize01(lat[i], Min(Lat), Max(Lat))
           dear(i) == normalize01(cost[i], Min(Cost), Max(Cost))
           worth(i) == list[i].qualityScore
           weight(i) == LATENCY * (RatioScale - slow(i)) + PRICE * (RatioScale - dear(i))
                          + QUALITY * worth(i) + WeightFloor
<1>1. RatioScale \in Nat /\ RatioScale > 0 /\ RatioScale % 2 = 0
  BY SelectorAssumption
<1>2. WeightFloor \in Nat /\ WeightFloor > 0
  BY <1>1 DEF WeightFloor
<1>3. /\ lat \in Seq(Nat) /\ DOMAIN lat = DOMAIN list
      /\ cost \in Seq(Nat) /\ DOMAIN cost = DOMAIN list
      /\ \A i \in DOMAIN list : worth(i) \in Nat
  <2>1. DOMAIN list = 1 .. Len(list) /\ Len(list) \in Nat
    OBVIOUS
  <2> DEFINE C == [id : I, latencyMsP95 : Nat, price : Nat, qualityScore : 0 .. RatioScale]
  <2>2. \A i \in DOMAIN list : list[i] \in C
    <3>1. list \in Seq(C)
      OBVIOUS
    <3> HIDE DEF C
    <3> QED
      BY <3>1
  <2>3. \A i \in DOMAIN list : /\ list[i].latencyMsP95 \in Nat /\ list[i].price \in Nat
                               /\ worth(i) \in 0 .. RatioScale
    BY <2>2
  <2>4. lat \in [1 .. Len(list) -> Nat] /\ cost \in [1 .. Len(list) -> Nat]
    BY <2>1, <2>3
  <2>5. lat \in Seq(Nat) /\ cost \in Seq(Nat)
    BY <2>1, <2>4
  <2> QED
    BY <1>1, <2>3, <2>5
<1>4. {d.latencyMsP95 : d \in Range(list)} = Lat /\ {d.price : d \in Range(list)} = Cost
  BY DEF Range
<1>5. \A i \in DOMAIN list : ws[i] = weight(i)
  BY <1>4 DEF weights, scoreNode
<1>6. ASSUME NEW i \in DOMAIN list, NEW j \in DOMAIN list
      PROVE  /\ slow(i) \in Nat /\ slow(i) <= RatioScale
             /\ dear(i) \in Nat /\ dear(i) <= RatioScale
             /\ lat[i] <= lat[j] => slow(i) <= slow(j)
             /\ cost[i] <= cost[j] => dear(i) <= dear(j)
             /\ normalize01(3 * cost[i], 3 * Min(Cost), 3 * Max(Cost)) = dear(i)
  <2> HIDE DEF lat, cost
  <2>1. /\ slow(i) \in Nat /\ slow(i) <= RatioScale
        /\ lat[i] <= lat[j] => slow(i) <= slow(j)
    BY <1>3, InTheSpan
  <2>2. /\ dear(i) \in Nat /\ dear(i) <= RatioScale
        /\ cost[i] <= cost[j] => dear(i) <= dear(j)
        /\ normalize01(3 * cost[i], 3 * Min(Cost), 3 * Max(Cost)) = dear(i)
    BY <1>3, InTheSpan
  <2> QED
    BY <2>1, <2>2
<1>7. ASSUME NEW i \in DOMAIN list, NEW j \in DOMAIN list
      PROVE  /\ ws[i] > 0
             /\ (/\ list[i].latencyMsP95 <= list[j].latencyMsP95
                 /\ list[i].price <= list[j].price
                 /\ list[i].qualityScore >= list[j].qualityScore) => ws[i] >= ws[j]
  <2>1. /\ slow(i) \in Nat /\ slow(i) <= RatioScale /\ slow(j) \in Nat /\ slow(j) <= RatioScale
        /\ dear(i) \in Nat /\ dear(i) <= RatioScale /\ dear(j) \in Nat /\ dear(j) <= RatioScale
        /\ list[i].latencyMsP95 <= list[j].latencyMsP95 => slow(i) <= slow(j)
        /\ list[i].price <= list[j].price => dear(i) <= dear(j)
    BY <1>6
  <2>2. worth(i) \in Nat /\ worth(j) \in Nat
    BY <1>3
  <2>3. ws[i] = weight(i) /\ ws[j] = weight(j)
    BY <1>5
  <2>4. ASSUME NEW R \in Nat, NEW F \in Nat, F > 0,
               NEW s \in Nat, NEW t \in Nat, s <= R, t <= R,
               NEW d \in Nat, NEW e \in Nat, d <= R, e <= R,
               NEW q \in Nat, NEW p \in Nat
        PROVE  LET heavy == 4 * (R - s) + 3 * (R - d) + 3 * q + F
                   light == 4 * (R - t) + 3 * (R - e) + 3 * p + F
               IN  heavy > 0 /\ (s <= t /\ d <= e /\ q >= p => heavy >= light)
    BY <2>4
  <2>5. weight(i) > 0 /\ (slow(i) <= slow(j) /\ dear(i) <= dear(j) /\ worth(i) >= worth(j)
                            => weight(i) >= weight(j))
    <3> HIDE DEF slow, dear, worth
    <3> QED
      BY <1>1, <1>2, <2>1, <2>2, <2>4 DEF LATENCY, PRICE, QUALITY
  <2> HIDE DEF ws, slow, dear, weight
  <2> QED
    BY <2>1, <2>3, <2>5
<1>8. weights(dearer) = ws
  <2> DEFINE Dearer == {3 * n : n \in Cost}
             weight3(i) == LATENCY * (RatioScale - slow(i))
                             + PRICE * (RatioScale
                                          - normalize01(3 * cost[i], Min(Dearer), Max(Dearer)))
                             + QUALITY * worth(i) + WeightFloor
  <2> DEFINE C == [id : I, latencyMsP95 : Nat, price : Nat, qualityScore : 0 .. RatioScale]
  <2>1. \A i \in DOMAIN list : list[i] \in C
    <3>1. list \in Seq(C)
      OBVIOUS
    <3> HIDE DEF C
    <3> QED
      BY <3>1
  <2>2. /\ DOMAIN dearer = DOMAIN list
        /\ \A i \in DOMAIN list : /\ dearer[i].latencyMsP95 = lat[i]
                                  /\ dearer[i].price = 3 * cost[i]
                                  /\ dearer[i].qualityScore = worth(i)
    BY <2>1
  <2>3. {d.latencyMsP95 : d \in Range(dearer)} = Lat /\ {d.price : d \in Range(dearer)} = Dearer
    <3> HIDE DEF dearer, lat, cost
    <3>1. {d.latencyMsP95 : d \in Range(dearer)} = {dearer[i].latencyMsP95 : i \in DOMAIN dearer}
      BY DEF Range
    <3>2. {d.price : d \in Range(dearer)} = {dearer[i].price : i \in DOMAIN dearer}
      BY DEF Range
    <3>3. {dearer[i].latencyMsP95 : i \in DOMAIN dearer} = Lat
      BY <1>3, <2>2
    <3>4. {dearer[i].price : i \in DOMAIN dearer} = {3 * cost[i] : i \in DOMAIN cost}
      BY <1>3, <2>2
    <3>5. {3 * cost[i] : i \in DOMAIN cost} = Dearer
      OBVIOUS
    <3> QED
      BY <3>1, <3>2, <3>3, <3>4, <3>5
  <2>4. weights(dearer) = [i \in DOMAIN list |-> weight3(i)]
    <3> HIDE DEF dearer, lat, cost, Lat, Cost, Dearer
    <3>1. \A i \in DOMAIN list : scoreNode(dearer[i], Range(dearer)) + WeightFloor = weight3(i)
      BY <2>2, <2>3 DEF scoreNode
    <3> QED
      BY <2>2, <3>1 DEF weights
  <2>5. ASSUME NEW i \in DOMAIN list
        PROVE  Min(Dearer) = 3 * Min(Cost) /\ Max(Dearer) = 3 * Max(Cost)
    <3>1. Cost \subseteq Nat /\ cost[i] \in Cost /\ cost # <<>>
      <4> HIDE DEF cost
      <4>1. cost \in Seq(Nat) /\ i \in DOMAIN cost
        BY <1>3
      <4>2. \A k \in DOMAIN cost : cost[k] \in Nat
        BY <4>1
      <4>3. Cost \subseteq Nat /\ cost[i] \in Cost
        BY <4>1, <4>2
      <4>4. cost # <<>>
        BY <4>1
      <4> QED
        BY <4>3, <4>4
    <3> DEFINE low == Min(Cost)
               high == Max(Cost)
               least == Min(Dearer)
               most == Max(Dearer)
    <3>2. low \in Cost /\ \A n \in Cost : low <= n
      <4> HIDE DEF Cost
      <4> QED
        BY <3>1, LeastOf
    <3>3. high \in Cost /\ \A n \in Cost : n <= high
      <4> HIDE DEF cost
      <4> QED
        BY <1>3, <3>1, GreatestOf
    <3> HIDE DEF Cost, low, high
    <3>4. Dearer \subseteq Nat /\ 3 * low \in Dearer /\ 3 * high \in Dearer
      BY <3>1, <3>2, <3>3
    <3>5. \A n \in Dearer : 3 * low <= n /\ n <= 3 * high
      BY <3>1, <3>2, <3>3
    <3> HIDE DEF Dearer
    <3>6. least \in Dearer /\ \A n \in Dearer : least <= n
      BY <3>4, LeastOf
    <3>7. most \in Dearer /\ \A n \in Dearer : most >= n
      BY <3>4, <3>5 DEF Max
    <3> HIDE DEF least, most
    <3>8. low \in Nat /\ high \in Nat
      BY <3>1, <3>2, <3>3
    <3>9. least = 3 * low /\ most = 3 * high
      BY <3>4, <3>5, <3>6, <3>7, <3>8
    <3> QED
      BY <3>9 DEF low, high, least, most
  <2>6. \A i \in DOMAIN list : weight3(i) = weight(i)
    <3> HIDE DEF Dearer, Cost, cost
    <3> QED
      BY <1>6, <2>5
  <2>7. weights(list) = [i \in DOMAIN list |-> weight(i)]
    BY <1>4 DEF weights, scoreNode
  <2> HIDE DEF weight, weight3, dearer
  <2> QED
    BY <2>4, <2>6, <2>7
<1> QED
  BY <1>7, <1>8
=============================================================================
