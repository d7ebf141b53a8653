-------------------------------- MODULE Sse --------------------------------
(***************************************************************************)
(* Server-sent events as the daemon reads them from its backend             *)
(* (packages/node-daemon/src/sse.ts: SseParser, iterateSseJson).  The text  *)
(* of a body is a sequence of atoms, pieces no rule looks into; the network *)
(* cuts it into chunks anywhere between two of them.  A cut inside an atom  *)
(* needs no case of its own: the parser looks at whole frames only.         *)
(***************************************************************************)
EXTENDS Naturals, Sequences, FiniteSets, SequencesExt

CONSTANT MaxLines       \* lines of one body

ASSUME SseAssumption == MaxLines \in Nat

CR == "CR"
LF == "LF"
DONE == <<"[DONE]">>

VARIABLES
    text,       \* the body, as the backend sends it
    read,       \* how much of it has arrived
    buffer,     \* SseParser.buffer
    pendingCr,  \* SseParser.pendingCr
    finished,   \* SseParser.finished: [DONE] has been seen
    yielded,    \* the payloads iterateSseJson has yielded
    end         \* how the iteration ended, "open" before it did
vars == <<text, read, buffer, pendingCr, finished, yielded, end>>

(* A backend's lines: a whole chunk, one cut into two data lines, the       *)
(* sentinel, a comment, a blank line.  CRLF is a CR before a blank line.    *)
Line == { <<"data:", "{", "}">>, <<"data:", "{">>, <<"data:", "}">>,
          <<"data:", "[DONE]">>, <<":">>, <<>> }

(* The last line of a body may lack its end.                                *)
Bodies ==
    LET Ended == {l \o <<e>> : l \in Line, e \in {CR, LF}} IN
    UNION {{FlattenSeq(s) \o t : s \in [1 .. n -> Ended], t \in Line} : n \in 0 .. MaxLines}

Init ==
    /\ text \in Bodies /\ read = 0
    /\ buffer = <<>> /\ pendingCr = FALSE /\ finished = FALSE
    /\ yielded = <<>> /\ end = "open"

-----------------------------------------------------------------------------
(* The parts of s between the positions in cuts.                            *)
Split(s, cuts) ==
    LET at == <<0>> \o SetToSortSeq(cuts, LAMBDA i, j : i < j) \o <<Len(s) + 1>> IN
    [k \in 1 .. Len(at) - 1 |-> SubSeq(s, at[k] + 1, at[k + 1] - 1)]

lines(s) == Split(s, {i \in DOMAIN s : s[i] = LF})

(* replace(/\r\n/g, "\n").replace(/\r/g, "\n")                              *)
normalize(s) ==
    LET kept == SelectSeq([i \in DOMAIN s |-> i],
                          LAMBDA i : ~(s[i] = LF /\ i > 1 /\ s[i - 1] = CR))
    IN [k \in DOMAIN kept |-> IF s[kept[k]] = CR THEN LF ELSE s[kept[k]]]

(* Mutant of append: a trailing CR is translated at once.                   *)
AppendEager(chunk) == [buffer |-> buffer \o normalize(chunk), pendingCr |-> FALSE]

(* A trailing CR is withheld: the next chunk may open with its LF.          *)
append(chunk) ==
    LET rest == IF pendingCr /\ Head(chunk) = LF THEN Tail(chunk) ELSE chunk
        held == rest # <<>> /\ Last(rest) = CR
    IN [buffer |-> buffer \o (IF pendingCr THEN <<LF>> ELSE <<>>)
                          \o normalize(IF held THEN Front(rest) ELSE rest),
        pendingCr |-> held]

(* The frames of s up to its last blank line, and what follows that.        *)
frames(s) ==
    FoldLeft(LAMBDA acc, a :
                IF a = LF /\ acc.rest # <<>> /\ Last(acc.rest) = LF
                THEN [whole |-> Append(acc.whole, Front(acc.rest)), rest |-> <<>>]
                ELSE [acc EXCEPT !.rest = Append(@, a)],
             [whole |-> <<>>, rest |-> <<>>], s)

(* The data of a frame, its data lines joined; NoData if it has none.       *)
NoData == <<"none">>
dataOf(ls) ==
    LET data == SelectSeq(ls, LAMBDA l : l # <<>> /\ l[1] = "data:")
        joined == FlattenSeq([k \in DOMAIN data |-> <<LF>> \o Tail(data[k])])
    IN IF data = <<>> THEN NoData ELSE Tail(joined)

(* emit, frame by frame until the sentinel: the events of a sequence of     *)
(* frames, and whether the sentinel was among them.                         *)
events(fs) ==
    LET all == SelectSeq([k \in DOMAIN fs |-> dataOf(lines(fs[k]))], LAMBDA d : d # NoData)
        done == SelectInSeq(all, LAMBDA d : d = DONE)
    IN [data |-> IF done = 0 THEN all ELSE SubSeq(all, 1, done - 1), finished |-> done # 0]

(* parseFrame: a line end inside JSON is white space.                       *)
isJson(d) == SelectSeq(d, LAMBDA a : a # LF) = <<"{", "}">>

(* The consumer takes the events in order; the first that is not JSON       *)
(* throws.                                                                  *)
Deliver(data, after) ==
    LET bad == SelectInSeq(data, LAMBDA d : ~isJson(d)) IN
    /\ yielded' = yielded \o (IF bad = 0 THEN data ELSE SubSeq(data, 1, bad - 1))
    /\ end' = IF bad = 0 THEN after ELSE "malformed"

(* One chunk arrives: push, and the iteration stops at the sentinel.        *)
Push(n) ==
    LET a == append(SubSeq(text, read + 1, read + n))
        f == frames(a.buffer)
        e == events(f.whole)
    IN /\ end = "open"
       /\ read' = read + n
       /\ buffer' = f.rest /\ pendingCr' = a.pendingCr /\ finished' = e.finished
       /\ Deliver(e.data, IF e.finished THEN "done" ELSE "open")
       /\ UNCHANGED text

(* The body ends: flush takes what is left for a last frame.                *)
Flush ==
    LET rest == buffer \o (IF pendingCr THEN <<LF>> ELSE <<>>)
        e == events(<<rest>>)
    IN /\ end = "open" /\ read = Len(text)
       /\ buffer' = <<>> /\ pendingCr' = FALSE /\ finished' = e.finished
       /\ Deliver(e.data, "done")
       /\ UNCHANGED <<text, read>>

Next == (\E n \in 1 .. Len(text) - read : Push(n)) \/ Flush

Spec == Init /\ [][Next]_vars

-----------------------------------------------------------------------------
(* What the text says, read as a whole: a line ends at a CR, a LF or a      *)
(* CRLF, and the lines between two blank ones are an event.                 *)

textLines(s) ==
    LET crlf == {i \in DOMAIN s : s[i] = LF /\ i > 1 /\ s[i - 1] = CR}
        cuts == {i \in DOMAIN s : s[i] \in {CR, LF}} \ crlf
        parts == Split(s, cuts)
    IN [k \in DOMAIN parts |-> SelectSeq(parts[k], LAMBDA a : a # LF)]

(* The data of the events in s; the last one needs its blank line only      *)
(* while the body is open.                                                  *)
meaning(s, open) ==
    LET ls == textLines(s)
        blank == {k \in DOMAIN ls : ls[k] = <<>> /\ (open => k < Len(ls))}
        groups == Split(ls, blank)
        complete == IF open THEN Front(groups) ELSE groups
        all == SelectSeq([k \in DOMAIN complete |-> dataOf(complete[k])],
                         LAMBDA d : d # NoData)
        stop == SelectInSeq(all, LAMBDA d : ~isJson(d))
    IN [data |-> IF stop = 0 THEN all ELSE SubSeq(all, 1, stop - 1),
        end |-> IF stop # 0 /\ all[stop] # DONE THEN "malformed"
                ELSE IF open /\ stop = 0 THEN "open" ELSE "done"]

(* Wherever the network cuts a body, between a CR and its LF too, the       *)
(* consumer gets the events the text has and no others: each as soon as the *)
(* blank line that ends it has arrived (a CR counts once what follows it is *)
(* known), none after the sentinel, the same error at the same place.       *)
ChunkingIrrelevant ==
    LET seen == IF pendingCr THEN read - 1 ELSE read
        m == meaning(SubSeq(text, 1, seen), TRUE)
        whole == meaning(text, FALSE)
    IN /\ end = "open" => yielded = m.data /\ m.end = "open"
       /\ end # "open" => yielded = whole.data /\ end = whole.end

=============================================================================
