------------------------------ MODULE LlmStream ------------------------------
(***************************************************************************)
(* executor/llm_stream.rs: the events of a model provider are forwarded    *)
(* frame by frame, unchanged, while an Observer puts together what a       *)
(* client would put together from them.  A frame stays back as long as one *)
(* of its characters might belong to the credential, and the last one      *)
(* until the execution has been settled.                                   *)
(*                                                                         *)
(* A frame is one event, whole: how chunks of the body are cut into frames *)
(* is left out, and so is the scan of the frames' own bytes, which only    *)
(* holds them back longer.  Text is a sequence of symbols; Escape and the  *)
(* symbol after it are another way to write that symbol, for the six bytes *)
(* of a JSON escape and the three of a percent escape.                     *)
(***************************************************************************)
EXTENDS Integers, FiniteSets, Sequences, FiniteSetsExt, SequencesExt

CONSTANTS
    Protocols,      \* of "anthropic", "chat" and "responses"
    Fragments,      \* texts of one event
    Needles, Hold,
    Index,          \* blocks, tool calls, output items: 0..n
    Part,           \* content parts of an item: 0..n
    Counts,         \* token counts a provider may report
    MaxFrames       \* bound: frames of one answer

LlmStreamAssumption ==
    /\ Protocols \subseteq {"anthropic", "chat", "responses"}
    /\ 0 \in Index /\ 0 \in Part /\ Index \subseteq Nat /\ Part \subseteq Nat
    /\ Counts \subseteq Nat /\ Hold \in Nat /\ MaxFrames \in Nat
    /\ \A n \in Needles : Len(n) > 0 /\ Hold >= 2 * Len(n) + 1

VARIABLES
    protocol,
    obs,            \* the Observer
    seen,           \* the events of the frames that arrived
    released,       \* how many frames the client was sent
    status          \* "head", "open", "complete", "failed" or "settled"

vars == <<protocol, obs, seen, released, status>>

None == "none"
Escape == "%"
Unreported == -1    \* a report without a count
Field == {"text", "other", "meta", "all-text"}
Key == Index \X Part \X Field
AllText == <<0, 0, "all-text">>

EmptyTail == [bytes |-> <<>>, total |-> 0, frames |-> <<>>, hit |-> FALSE]
NoItem == [added |-> FALSE, done |-> FALSE, parts |-> 0, text |-> [p \in Part |-> <<>>]]

NewObserver ==
    [channels |-> [k \in Key |-> EmptyTail], closed |-> {}, blocks |-> {}, stopped |-> {},
     texts |-> [i \in Index |-> <<>>], identity |-> FALSE,
     items |-> [o \in Index |-> NoItem], counts |-> <<>>, poisoned |-> FALSE,
     reason |-> None, terminal |-> 0, done |-> FALSE, error |-> "ok"]

Init ==
    /\ protocol \in Protocols
    /\ obs = NewObserver
    /\ seen = <<>> /\ released = 0 /\ status = "head"

\* decode_json_escapes, percent_decode: an incomplete escape stays as it is.
Decoded(s) ==
    LET kept == SelectSeq([i \in DOMAIN s |-> i],
                          LAMBDA i : ~(s[i] = Escape /\ i < Len(s) /\ s[Min({i + 1, Len(s)})] # Escape))
    IN  [j \in DOMAIN kept |-> s[kept[j]]]

Holds(s, n) == \E i \in 1..(Len(s) - Len(n) + 1) : SubSeq(s, i, i + Len(n) - 1) = n
ContainsSecret(s) == \E n \in Needles : Holds(s, n) \/ Holds(Decoded(s), n)
Minus(x, y) == IF x > y THEN x - y ELSE 0
Ending(s, n) == SubSeq(s, Minus(Len(s), n) + 1, Len(s))

(***************************************************************************)
(* Tail: the end of a channel's text, and the frames it came in.           *)
(***************************************************************************)
Dropped(frames, upto) == SelectSeq(frames, LAMBDA f : f.end > upto)

Push(tail, text, frame) ==
    LET all == tail.bytes \o text
        total == tail.total + Len(text)
    IN  IF text = <<>> THEN tail ELSE
        [bytes |-> Ending(all, Hold), total |-> total, hit |-> tail.hit \/ ContainsSecret(all),
         frames |-> Dropped(Append(tail.frames, [end |-> total, frame |-> frame]),
                            Minus(total, Hold))]

\* Mutant: one character less than the matched prefix is kept.
KeptPrefixShort(bytes) ==
    Minus(Max({0} \cup {k \in 1..Len(bytes) :
              \E n \in Needles : k < Len(n) /\ Ending(bytes, k) = SubSeq(n, 1, k)}), 1)

\* The longest end of the text with which a needle begins.  (The KMP scan.)
KeptPrefix(bytes) ==
    Max({0} \cup {k \in 1..Len(bytes) :
              \E n \in Needles : k < Len(n) /\ Ending(bytes, k) = SubSeq(n, 1, k)})

\* reclaim_metadata: an identifier's frame is let go as soon as it ends in no
\* beginning of a needle; one with an escape is held like any text.
ReclaimMetadata(tail) ==
    LET keep == KeptPrefix(tail.bytes)
    IN  IF Escape \in ToSet(tail.bytes) THEN tail ELSE
        [tail EXCEPT !.bytes = Ending(tail.bytes, keep),
                     !.frames = Dropped(tail.frames, tail.total - keep)]

(***************************************************************************)
(* The Observer.  The first error ends the stream.                         *)
(***************************************************************************)
Fail(o, error) == IF o.error = "ok" THEN [o EXCEPT !.error = error] ELSE o
Require(condition, o) == IF condition THEN o ELSE Fail(o, "invalid")

Appended(o, key, text, frame) ==
    LET pushed == Push(o.channels[key], text, frame)
        tail == IF key[3] = "meta" THEN ReclaimMetadata(pushed) ELSE pushed
        next == [o EXCEPT !.channels[key] = tail]
    IN  IF o.error # "ok" THEN o
        ELSE IF key \in o.closed THEN Fail(o, "invalid")
        ELSE IF tail.hit THEN Fail(next, "secret") ELSE next

Closed(o, keys) ==
    [o EXCEPT !.channels = [k \in Key |-> IF k \in keys THEN EmptyTail ELSE @[k]],
              !.closed = @ \cup keys]

\* The text a client joins from its parts, in their order.
Joined(texts) == FoldLeft(LAMBDA tail, text : Push(tail, text, 0), EmptyTail, texts)
InOrder(f) == LET n == Cardinality(DOMAIN f) IN [k \in 1..n |-> f[k - 1]]
Scanned(o, texts) == IF o.error = "ok" /\ Joined(texts).hit THEN Fail(o, "secret") ELSE o

\* usage: counts only grow; anything else makes the total unknown.
Reported(o, count) ==
    IF count # Unreported /\ (o.counts = <<>> \/ count >= o.counts[Len(o.counts)])
    THEN [o EXCEPT !.counts = Append(@, count)]
    ELSE [o EXCEPT !.poisoned = TRUE]

WithReason(o, reason) ==
    IF reason = None THEN o
    ELSE Require(o.reason \in {None, reason}, [o EXCEPT !.reason = reason])

AnthropicText(o, i, text, frame) ==
    LET a == Appended(Appended(o, <<i, 0, "text">>, text, frame), AllText, text, frame)
        b == [a EXCEPT !.texts[i] = @ \o text]
    IN  Scanned(b, InOrder(b.texts))

Anthropic(o, e, frame) ==
    CASE e.kind = "start" -> Require(~o.identity, [o EXCEPT !.identity = TRUE])
      [] e.kind = "block_start" ->
           IF ~o.identity \/ e.index # Cardinality(o.blocks \cup o.stopped)
           THEN Fail(o, "invalid")
           ELSE AnthropicText([o EXCEPT !.blocks = @ \cup {e.index}], e.index, e.text, frame)
      [] e.kind = "delta" ->
           IF e.index \notin o.blocks THEN Fail(o, "invalid")
           ELSE IF e.field = "text" THEN AnthropicText(o, e.index, e.text, frame)
           ELSE Appended(o, <<e.index, 0, e.field>>, e.text, frame)
      [] e.kind = "block_stop" ->
           Require(e.index \in o.blocks,
                   Closed([o EXCEPT !.blocks = @ \ {e.index}, !.stopped = @ \cup {e.index}],
                          {<<e.index, 0, "text">>, <<e.index, 0, "other">>}))
      [] e.kind = "report" ->
           Require(o.identity, WithReason(Reported(o, e.count), e.reason))
      [] e.kind = "stop" ->
           Require(o.blocks = {} /\ o.identity /\ o.reason # None,
                   [o EXCEPT !.terminal = frame])
      [] OTHER -> Fail(o, "invalid")

\* A chunk has at most one choice; a count that comes with one is not trusted.
Chat(o, e, frame) ==
    LET identified == [o EXCEPT !.identity = TRUE]
        counted == IF e.kind = "report" THEN Reported(identified, e.count) ELSE identified
    IN  CASE e.kind = "report" /\ e.reason = None -> counted
          [] e.kind = "report" ->
               Require(o.reason = None, [counted EXCEPT !.poisoned = TRUE, !.reason = e.reason])
          [] e.kind = "delta" ->
               IF o.reason # None THEN Fail(identified, "invalid")
               ELSE Appended(identified, <<e.index, 0, e.field>>, e.text, frame)
          [] e.kind = "finish" ->
               Require(o.reason = None, [identified EXCEPT !.reason = e.reason])
          [] OTHER -> Fail(o, "invalid")

ResponseText(o, item, part, text) ==
    [o EXCEPT !.items[item].text[part] = text]

ItemTexts(o) ==
    LET parts == Cardinality(Part)
    IN  [k \in 1..(Cardinality(Index) * parts) |->
           o.items[(k - 1) \div parts].text[(k - 1) % parts]]

\* seed_response_part
Seeded(o, item, part, field, text, frame) ==
    LET a == Appended(o, <<item, part, field>>, text, frame)
    IN  IF field = "text" THEN ResponseText(a, item, part, text) ELSE a

ResponseEvent(o, e, frame) ==
    CASE e.kind = "item_added" ->
           IF o.items[e.index].added \/ o.items[e.index].parts # 0 THEN Fail(o, "invalid")
           ELSE Seeded([o EXCEPT !.items[e.index].added = TRUE, !.items[e.index].parts = e.count],
                       e.index, 0, e.field, e.text, frame)
      [] e.kind = "part_added" ->
           IF e.part # o.items[e.index].parts THEN Fail(o, "invalid")
           ELSE Seeded([o EXCEPT !.items[e.index].parts = @ + 1],
                       e.index, e.part, e.field, e.text, frame)
      [] e.kind = "delta" ->
           LET a == Appended(o, <<e.index, e.part, e.field>>, e.text, frame)
           IN  IF e.field = "text"
               THEN ResponseText(a, e.index, e.part, a.items[e.index].text[e.part] \o e.text)
               ELSE a
      [] e.kind = "part_done" ->
           Closed(ResponseText(o, e.index, e.part, IF e.field = "text" THEN e.text ELSE <<>>),
                  {<<e.index, e.part, "text">>, <<e.index, e.part, "other">>})
      [] e.kind = "item_done" ->
           [o EXCEPT !.items[e.index].text = [p \in Part |-> IF p = 0 THEN e.text ELSE <<>>],
                     !.items[e.index].done = TRUE]

\* The final snapshot is scanned by itself; the rest of the view after each event.
Responses(o, e, frame) ==
    CASE e.kind = "start" -> Scanned([o EXCEPT !.identity = TRUE], ItemTexts(o))
      [] e.kind = "stop" ->
           IF ~o.identity THEN Fail(o, "invalid")
           ELSE Scanned(Scanned([Reported(o, e.count) EXCEPT !.terminal = frame,
                                                              !.reason = e.reason],
                                <<e.text>>), ItemTexts(o))
      [] e.kind \in {"item_added", "part_added", "delta", "part_done", "item_done"} ->
           IF ~o.identity \/ o.items[e.index].done THEN Fail(o, "invalid")
           ELSE LET next == ResponseEvent(o, e, frame) IN Scanned(next, ItemTexts(next))
      [] OTHER -> Fail(o, "invalid")

\* data: [DONE]
Done(o, frame) ==
    IF protocol = "responses" /\ o.terminal # 0 /\ ~o.done THEN [o EXCEPT !.done = TRUE]
    ELSE Require(protocol = "chat" /\ o.terminal = 0 /\ o.identity /\ o.reason # None,
                 [o EXCEPT !.terminal = frame])

Observed(o, e, frame) ==
    CASE e.kind = "done" -> Done(o, frame)
      [] e.kind # "done" /\ o.terminal # 0 -> Fail(o, "invalid")
      [] OTHER -> CASE protocol = "anthropic" -> Anthropic(o, e, frame)
                    [] protocol = "chat" -> Chat(o, e, frame)
                    [] protocol = "responses" -> Responses(o, e, frame)

(***************************************************************************)
(* run: observe, then release whole frames below every tail's first.       *)
(***************************************************************************)

Watermark(o, frames) ==
    Min({frames} \cup {o.channels[k].frames[1].frame - 1 :
                         k \in {k \in Key : o.channels[k].frames # <<>>}}
                 \cup (IF o.terminal = 0 THEN {} ELSE {o.terminal - 1}))

\* The head of the response: one content type, that of event streams, no other
\* encoding, and no secret.
HeadersFit(h) ==
    /\ h.types = <<"event-stream">> /\ h.encodings \subseteq {"identity"}
    /\ ~h.secret /\ h.ok
Heads == [types : {<<>>, <<"event-stream">>, <<"json">>, <<"event-stream", "event-stream">>},
          encodings : SUBSET {"identity", "gzip"}, secret : BOOLEAN, ok : BOOLEAN]

ReadHead(h) ==
    /\ status = "head" /\ status' = IF HeadersFit(h) THEN "open" ELSE "failed"
    /\ UNCHANGED <<protocol, obs, seen, released>>

Frame(e) ==
    /\ status = "open"
    /\ Len(seen) < MaxFrames
    /\ seen' = Append(seen, e)
    /\ obs' = Observed(obs, e, Len(seen) + 1)
    /\ IF obs'.error = "ok"
       THEN /\ released' = Max({released, Watermark(obs', Len(seen) + 1)})
            /\ UNCHANGED status
       ELSE status' = "failed" /\ UNCHANGED released
    /\ UNCHANGED protocol

Eof ==
    /\ status = "open"
    /\ status' = IF obs.terminal # 0 THEN "complete" ELSE "failed"
    /\ UNCHANGED <<protocol, obs, seen, released>>

\* The body cannot be read on, or more would have to be kept than the limit.
Breaks ==
    /\ status = "open" /\ status' = "failed"
    /\ UNCHANGED <<protocol, obs, seen, released>>

\* Settlement and the terminal audit are on disk; only then the rest is sent.
Settle ==
    /\ status = "complete"
    /\ status' = "settled"
    /\ released' = Len(seen)
    /\ UNCHANGED <<protocol, obs, seen>>

SettleFails ==
    /\ status = "complete"
    /\ status' = "failed"
    /\ UNCHANGED <<protocol, obs, seen, released>>

Reasons == {"completed", "incomplete"}
Event(kind, index, part, field, text, count, reason) ==
    [kind |-> kind, index |-> index, part |-> part, field |-> field, text |-> text,
     count |-> count, reason |-> reason]

Texts == Fragments \cup {<<>>}

\* What a provider may send; an event of another shape ("malformed") is refused.
ItemEvent(kind, i, text) == Event(kind, i, 0, "text", text, Unreported, None)
ReportEvent(kind, text, count, reason) == Event(kind, 0, 0, None, text, count, reason)
PartEvents(kinds, fields, texts) ==
    {Event(kind, i, p, f, x, Unreported, None) :
        kind \in kinds, i \in Index, p \in Part, f \in fields, x \in texts}
ItemEvents(kinds, texts) == {ItemEvent(kind, i, x) : kind \in kinds, i \in Index, x \in texts}
ReportEvents(kind, texts, counts, reasons) ==
    {ReportEvent(kind, x, n, r) : x \in texts, n \in counts, r \in reasons}

\* A message with or without a first part, or a tool call with its arguments.
ItemsAdded ==
    {Event("item_added", i, 0, "text", x, 1, None) : i \in Index, x \in Texts}
        \cup {Event("item_added", i, 0, "text", <<>>, 0, None) : i \in Index}
        \cup {Event("item_added", i, 0, "other", x, 0, None) : i \in Index, x \in Texts}

Sendable ==
    LET counts == Counts \cup {Unreported}
        maybe == Reasons \cup {None}
    IN  ReportEvents("start", {<<>>}, {Unreported}, {None})
        \cup ReportEvents("malformed", {<<>>}, {Unreported}, {None})
        \cup ReportEvents("done", {<<>>}, {Unreported}, {None})
        \cup CASE protocol = "anthropic" ->
                    ItemEvents({"block_start"}, Texts) \cup ItemEvents({"block_stop"}, {<<>>})
                    \cup {e \in PartEvents({"delta"}, {"text", "other"}, Fragments) : e.part = 0}
                    \cup ReportEvents("report", {<<>>}, counts, maybe)
                    \cup ReportEvents("stop", {<<>>}, counts, Reasons)
               [] protocol = "chat" ->
                    {e \in PartEvents({"delta"}, {"text", "meta"}, Fragments) : e.part = 0}
                    \cup ReportEvents("report", {<<>>}, counts, maybe)
                    \cup ReportEvents("finish", {<<>>}, {Unreported}, Reasons)
               [] protocol = "responses" ->
                    ItemEvents({"item_done"}, Texts) \cup ItemsAdded
                    \cup PartEvents({"delta"}, {"text", "other"}, Fragments)
                    \cup PartEvents({"part_added", "part_done"}, {"text", "other"}, Texts)
                    \cup ReportEvents("stop", Texts, counts, Reasons)

Next ==
    \/ \E h \in Heads : ReadHead(h)
    \/ \E e \in Sendable : Frame(e)
    \/ Eof \/ Breaks \/ Settle \/ SettleFails

Spec == Init /\ [][Next]_vars

(***************************************************************************)
(* Properties, over the events themselves.                                 *)
(***************************************************************************)
\* The characters an event adds to a channel, each with its frame.
Adds(e, key) ==
    \/ /\ e.kind \in {"delta", "block_start", "part_added", "item_added"}
       /\ key = <<e.index, e.part, e.field>>
    \/ /\ protocol = "anthropic" /\ e.field = "text" /\ e.kind \in {"delta", "block_start"}
       /\ key = AllText
Marked(key) ==
    FoldLeft(LAMBDA s, k : IF Adds(seen[k], key)
                           THEN s \o [j \in DOMAIN seen[k].text |-> <<seen[k].text[j], k>>]
                           ELSE s,
             <<>>, [k \in DOMAIN seen |-> k])
TextOf(marked) == [j \in DOMAIN marked |-> marked[j][1]]

\* The Observer's tails are the ends of the channels' texts, and frames are
\* released whole and once.
TypeOK ==
    /\ status \in {"head", "open", "complete", "failed", "settled"}
    /\ obs.error \in {"ok", "invalid", "secret"}
    /\ released \in 0..Len(seen)
    /\ obs.error = "ok" =>
         \A k \in Key \ obs.closed : obs.channels[k].total = Len(TextOf(Marked(k)))

\* As long as the stream goes on, no channel holds the credential, read from its
\* first character, nor does the text a client joins from the blocks or parts in
\* their order.  (Tail::push, scan_anthropic_text, scan_response_text)
FoundOnArrival ==
    obs.error = "ok" =>
        /\ \A k \in Key : ~ContainsSecret(TextOf(Marked(k)))
        /\ ~ContainsSecret(FlattenSeq(InOrder(obs.texts)))
        /\ ~ContainsSecret(FlattenSeq(ItemTexts(obs)))

\* When one channel holds it, written as it is or with escapes, no frame that
\* brought one of its characters has been released.  Of a credential that a
\* client only joins from several channels, parts that were done may have been:
\* it is found all the same (FoundOnArrival), and the stream is cut there.
\* (frames of a Tail, watermark, reclaim_metadata)
NoPartOfItLeft ==
    \A k \in Key : LET m == Marked(k) IN
        obs.error = "secret" =>
            \A i \in DOMAIN m : \A j \in i..Len(m) :
                LET written == SubSeq(TextOf(m), i, j)
                IN  written \in Needles \/ Decoded(written) \in Needles =>
                        \A x \in i..j : m[x][2] > released

\* The frame that ends the answer, and what follows it, waits for the settlement.
\* (watermark with the terminal, Complete::release)
EndWaitsForSettlement ==
    obs.terminal # 0 /\ released >= obs.terminal => status = "settled"

\* The output tokens that are charged were reported, last, by a provider whose
\* counts never fell, and by a chat provider apart from its choices.  (usage)
ChargedAsReported ==
    status \in {"complete", "settled"} /\ ~obs.poisoned /\ obs.counts # <<>> =>
        LET reports == SelectSeq(seen, LAMBDA e : e.kind = "report"
                                     \/ (protocol = "responses" /\ e.kind = "stop"))
        IN  /\ reports[Len(reports)].count = obs.counts[Len(obs.counts)]
            /\ \A i, j \in DOMAIN reports : i <= j =>
                 /\ reports[i].count # Unreported /\ reports[j].count # Unreported
                 /\ reports[i].count <= reports[j].count
            /\ protocol = "chat" => \A i \in DOMAIN reports : reports[i].reason = None
=============================================================================
