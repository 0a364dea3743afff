---------------------------- MODULE EmitterProofs ----------------------------
(***************************************************************************)
(* Proofs about StreamingEmitters, for every set of tool indices, either   *)
(* grammar and streams of any length.                                      *)
(*                                                                         *)
(* An emitter that is in step with its reader knows which block the reader *)
(* has open, and has made no mistake but in the index of a block.  Closing *)
(* a block, opening one when none is open, and sending a delta into the    *)
(* open one keep it in step; the handlers are made of these three.         *)
(***************************************************************************)
EXTENDS StreamingEmitters, TLAPS

(***************************************************************************)
(* What the frames do to the reader.                                       *)
(***************************************************************************)
LEMMA NotNone == \A i \in Nat : i # NoIndex
BY DEF NoIndex

LEMMA NotLate == ASSUME NEW r, ~r.stopped PROVE Late(r) = {}
BY DEF Late, Unless

LEMMA StopRead ==
    ASSUME NEW r \in AnthropicReader, NEW i \in Nat, r.open = i, ~r.stopped
    PROVE  content_block_stop(r, i) = [r EXCEPT !.open = NoIndex]
<1>1. /\ Late(r) = {}
      /\ Unless(r.open # NoIndex, "stop outside") = {}
      /\ Unless(r.open = i, "stop index") = {}
  BY NotNone, NotLate DEF Unless
<1>2. r.errors \cup Late(r) \cup Unless(r.open # NoIndex, "stop outside")
        \cup Unless(r.open = i, "stop index") = r.errors
  BY <1>1
<1>3. r.errors = [r EXCEPT !.open = NoIndex].errors
  BY DEF AnthropicReader
<1> QED
  BY <1>2, <1>3 DEF content_block_stop, AnthropicReader

LEMMA StartRead ==
    ASSUME NEW r \in AnthropicReader, NEW i \in Nat, r.open = NoIndex, ~r.stopped
    PROVE  content_block_start(r, i) =
             [r EXCEPT !.open = i, !.count = @ + 1,
                       !.errors = @ \cup Unless(i = r.count, "index")]
<1>1. Late(r) = {} /\ Unless(r.open = NoIndex, "block in block") = {}
  BY DEF Late, Unless
<1>2. r.errors \cup Late(r) \cup Unless(r.open = NoIndex, "block in block")
        \cup Unless(i = r.count, "index")
        = r.errors \cup Unless(i = r.count, "index")
  BY <1>1
<1> QED
  BY <1>2 DEF content_block_start, AnthropicReader

LEMMA DeltaRead ==
    ASSUME NEW r \in AnthropicReader, NEW i \in Nat, r.open = i, ~r.stopped
    PROVE  content_block_delta(r, i) = r
<1>1. /\ Late(r) = {}
      /\ Unless(r.open # NoIndex, "delta outside") = {}
      /\ Unless(r.open = i, "delta elsewhere") = {}
  BY NotNone, NotLate DEF Unless
<1>2. r.errors \cup Late(r) \cup Unless(r.open # NoIndex, "delta outside")
        \cup Unless(r.open = i, "delta elsewhere") = r.errors
  BY <1>1
<1> QED
  BY <1>2 DEF content_block_delta, AnthropicReader

(***************************************************************************)
(* An emitter in step with its reader.                                     *)
(***************************************************************************)
InStep(s) ==
    /\ s \in AnthropicStream
    /\ s.client.open = s.open_block_index
    /\ s.open_block = NoBlock <=> s.open_block_index = NoIndex
    /\ s.client.started = s.started
    /\ s.finished \/ ~s.client.stopped
    /\ s.finished => s.open_block = NoBlock
    /\ s.client.errors \subseteq {"index"}

LEMMA Updated ==
    ASSUME NEW s \in AnthropicStream, NEW r \in AnthropicReader, NEW b \in Nat,
           NEW t \in BlockTypes \cup {NoBlock}, NEW o \in Nat \cup {NoIndex},
           NEW c, c = [s EXCEPT !.client = r, !.block_index = b,
                                !.open_block = t, !.open_block_index = o]
    PROVE  c \in AnthropicStream
BY DEF AnthropicStream

\* Closing sends the stop of the open block, if there is one.
LEMMA CloseKeepsStep ==
    ASSUME NEW s, InStep(s), ~s.finished,
           NEW c, c = close_open_block(s)
    PROVE  /\ InStep(c) /\ ~c.finished /\ c.open_block = NoBlock
           /\ c.started = s.started
           /\ c.client.stopped = s.client.stopped
           /\ c.client.errors = s.client.errors
           /\ c.client.count = s.client.count
           /\ c.block_index = IF s.open_block = NoBlock THEN s.block_index
                              ELSE s.open_block_index + 1
<1>1. CASE s.open_block = NoBlock
  BY <1>1 DEF close_open_block
<1>2. CASE s.open_block # NoBlock
  <2> DEFINE i == s.open_block_index
             r == s.client
             d == [r EXCEPT !.open = NoIndex]
  <2>1. /\ r \in AnthropicReader /\ i \in Nat /\ r.open = i /\ ~r.stopped
        /\ i # NoIndex
    BY <1>2 DEF InStep, AnthropicStream
  <2>2. content_block_stop(r, i) = d
    BY <2>1, StopRead
  <2>3. c = [s EXCEPT !.client = d, !.block_index = i + 1,
                      !.open_block = NoBlock, !.open_block_index = NoIndex]
    BY <1>2, <2>1, <2>2 DEF close_open_block
  <2>4. /\ d \in AnthropicReader /\ d.open = NoIndex /\ d.count = r.count
        /\ d.started = r.started /\ d.stopped = r.stopped /\ d.errors = r.errors
    BY <2>1 DEF AnthropicReader
  <2>5. /\ c.client = d /\ c.block_index = i + 1 /\ c.open_block = NoBlock
        /\ c.open_block_index = NoIndex /\ c.started = s.started
        /\ c.finished = s.finished
    BY <2>3 DEF InStep, AnthropicStream
  <2>6. c \in AnthropicStream
    <3>1. s \in AnthropicStream /\ i + 1 \in Nat
      BY <2>1 DEF InStep
    <3>2. NoBlock \in BlockTypes \cup {NoBlock} /\ NoIndex \in Nat \cup {NoIndex}
      OBVIOUS
    <3>3. d \in AnthropicReader
      BY <2>4
    <3> HIDE DEF i, r, d
    <3> QED
      BY <2>3, <3>1, <3>2, <3>3, Updated
  <2>7. InStep(c)
    BY <2>4, <2>5, <2>6 DEF InStep
  <2> QED
    BY <1>2, <2>4, <2>5, <2>7
<1> QED
  BY <1>1, <1>2

\* Opening a block when none is open; only its index can be wrong.
LEMMA OpenKeepsStep ==
    ASSUME NEW s, InStep(s), ~s.finished, s.open_block = NoBlock,
           NEW type \in BlockTypes, NEW i \in Nat,
           NEW c, c = open_block(s, type, i)
    PROVE  /\ InStep(c) /\ ~c.finished
           /\ c.open_block = type /\ c.open_block_index = i
           /\ c.started = s.started /\ c.block_index = s.block_index
           /\ c.client.stopped = s.client.stopped
           /\ c.client.errors = s.client.errors \cup Unless(i = s.client.count, "index")
           /\ c.client.count = s.client.count + 1
<1> DEFINE r == s.client
           e == r.errors \cup Unless(i = r.count, "index")
           d == [r EXCEPT !.open = i, !.count = @ + 1, !.errors = e]
<1>1. /\ s \in AnthropicStream /\ r \in AnthropicReader /\ r.open = NoIndex
      /\ ~r.stopped /\ s.block_index \in Nat /\ r.count \in Nat
      /\ r.errors \subseteq {"index"}
  BY DEF InStep, AnthropicStream, AnthropicReader
<1>2. content_block_start(r, i) = d
  BY <1>1, StartRead
<1>3. e \subseteq {"index"}
  BY <1>1 DEF Unless
<1>4. e \in SUBSET AnthropicErrors
  BY <1>3 DEF AnthropicErrors
<1>5. d \in AnthropicReader
  <2>1. r.count + 1 \in Nat
    BY <1>1
  <2> HIDE DEF e, r
  <2> QED
    BY <1>1, <1>4, <2>1 DEF AnthropicReader
<1>6. /\ d.open = i /\ d.count = r.count + 1 /\ d.errors = e
      /\ d.started = r.started /\ d.stopped = r.stopped
  <2> HIDE DEF e
  <2> QED
    BY <1>1 DEF AnthropicReader
<1>7. c = [s EXCEPT !.client = d, !.open_block = type, !.open_block_index = i]
  BY <1>2 DEF open_block
<1>8. /\ c.client = d /\ c.open_block = type /\ c.open_block_index = i
      /\ c.started = s.started /\ c.finished = s.finished
      /\ c.block_index = s.block_index
  BY <1>1, <1>7 DEF AnthropicStream
<1>9. c \in AnthropicStream
  <2> HIDE DEF d
  <2> QED
    BY <1>1, <1>5, <1>7 DEF AnthropicStream
<1>10. type # NoBlock /\ i # NoIndex
  BY NotNone DEF BlockTypes, NoBlock
<1>11. InStep(c)
  <2> HIDE DEF d, e
  <2> QED
    BY <1>3, <1>6, <1>8, <1>9, <1>10 DEF InStep
<1> QED
  BY <1>6, <1>8, <1>11

\* A delta into the open block tells the reader nothing new about blocks.
LEMMA DeltaKeepsStep ==
    ASSUME NEW s, InStep(s), ~s.finished, s.open_block # NoBlock
    PROVE  send_delta(s, s.open_block_index) = s
<1>1. /\ s \in AnthropicStream /\ s.client \in AnthropicReader
      /\ s.open_block_index \in Nat /\ s.client.open = s.open_block_index
      /\ ~s.client.stopped
  BY DEF InStep, AnthropicStream
<1>2. content_block_delta(s.client, s.open_block_index) = s.client
  BY <1>1, DeltaRead
<1> QED
  BY <1>1, <1>2 DEF send_delta, AnthropicStream

(***************************************************************************)
(* The handlers.  Numbered says more than InStep: so far every block has   *)
(* carried the index the reader expected, and so will the next one.        *)
(***************************************************************************)
Numbered(s) ==
    /\ s.client.errors = {}
    /\ s.client.count = IF s.open_block = NoBlock THEN s.block_index
                        ELSE s.open_block_index + 1

LEMMA ClosedIsNumbered ==
    ASSUME NEW s, InStep(s), ~s.finished, Numbered(s),
           NEW c, c = close_open_block(s)
    PROVE  Numbered(c)
BY CloseKeepsStep DEF Numbered

\* A block opened at the next index is the one the reader expects.
LEMMA OpenedIsNumbered ==
    ASSUME NEW s, InStep(s), ~s.finished, s.open_block = NoBlock, Numbered(s),
           NEW type \in BlockTypes, NEW c, c = open_block(s, type, s.block_index)
    PROVE  Numbered(c)
<1>1. s.block_index \in Nat /\ s.client.count = s.block_index
  BY DEF InStep, AnthropicStream, Numbered
<1>2. /\ c.open_block = type /\ c.open_block_index = s.block_index
      /\ c.client.count = s.client.count + 1
      /\ c.client.errors = s.client.errors
                             \cup Unless(s.block_index = s.client.count, "index")
  BY <1>1, OpenKeepsStep
<1>3. c.client.errors = {}
  BY <1>1, <1>2 DEF Numbered, Unless
<1>4. type # NoBlock
  BY DEF BlockTypes, NoBlock
<1> QED
  BY <1>1, <1>2, <1>3, <1>4 DEF Numbered

LEMMA ProseKeepsStep ==
    ASSUME NEW s, InStep(s), ~s.finished, NEW type \in {"thinking", "text"},
           s.open_block \in {type, NoBlock}, NEW blank \in BOOLEAN,
           NEW c, c = emit_prose(s, type, blank)
    PROVE  /\ InStep(c) /\ ~c.finished /\ c.open_block = type
           /\ c.started = s.started /\ c.client.stopped = s.client.stopped
           /\ Numbered(s) => Numbered(c)
<1> DEFINE opened == IF s.open_block = type THEN s
                     ELSE open_block(s, type, s.block_index)
<1>1. type \in BlockTypes /\ type # NoBlock /\ s.block_index \in Nat
  BY DEF BlockTypes, NoBlock, InStep, AnthropicStream
<1>2. /\ InStep(opened) /\ ~opened.finished /\ opened.open_block = type
      /\ opened.started = s.started /\ opened.client.stopped = s.client.stopped
      /\ Numbered(s) => Numbered(opened)
  <2>1. CASE s.open_block = type
    BY <2>1
  <2>2. CASE s.open_block # type
    <3>1. s.open_block = NoBlock /\ opened = open_block(s, type, s.block_index)
      BY <2>2
    <3> HIDE DEF opened
    <3>2. /\ InStep(opened) /\ ~opened.finished /\ opened.open_block = type
          /\ opened.started = s.started
          /\ opened.client.stopped = s.client.stopped
      BY <1>1, <3>1, OpenKeepsStep
    <3>3. Numbered(s) => Numbered(opened)
      BY <1>1, <3>1, OpenedIsNumbered
    <3> QED
      BY <3>2, <3>3
  <2> QED
    BY <2>1, <2>2
<1>3. c = IF blank THEN opened ELSE send_delta(opened, opened.open_block_index)
  BY DEF emit_prose
<1> HIDE DEF opened
<1>4. c = opened
  BY <1>1, <1>2, <1>3, DeltaKeepsStep
<1> QED
  BY <1>2, <1>4

LEMMA DeltaStep ==
    ASSUME NEW s, InStep(s), ~s.finished, s.open_block # "tool_use",
           NEW kind \in {"ThinkingDelta", "TextDelta"}, NEW blank \in BOOLEAN,
           NEW c, c = EmitAnthropic(s, Delta(kind, blank))
    PROVE  /\ InStep(c) /\ ~c.finished /\ c.open_block \in {"thinking", "text"}
           /\ c.started = s.started /\ c.client.stopped = s.client.stopped
           /\ Numbered(s) => Numbered(c)
<1> DEFINE closed == close_open_block(s)
<1>1. /\ InStep(closed) /\ ~closed.finished /\ closed.open_block = NoBlock
      /\ closed.started = s.started /\ closed.client.stopped = s.client.stopped
      /\ Numbered(s) => Numbered(closed)
  BY CloseKeepsStep, ClosedIsNumbered
<1>2. s.open_block \in {"thinking", "text", NoBlock}
  BY DEF InStep, AnthropicStream, BlockTypes
<1>3. CASE kind = "ThinkingDelta"
  <2> DEFINE b == IF s.open_block = "thinking" THEN s ELSE closed
  <2>1. c = emit_prose(b, "thinking", blank)
    BY <1>3 DEF EmitAnthropic, Delta, emit_thinking_delta
  <2>2. /\ InStep(b) /\ ~b.finished /\ b.open_block \in {"thinking", NoBlock}
        /\ b.started = s.started /\ b.client.stopped = s.client.stopped
        /\ Numbered(s) => Numbered(b)
    BY <1>1
  <2> HIDE DEF b
  <2> QED
    BY <2>1, <2>2, ProseKeepsStep
<1>4. CASE kind = "TextDelta"
  <2> DEFINE b == IF s.open_block = "thinking" THEN closed ELSE s
  <2>1. c = emit_prose(b, "text", blank)
    BY <1>4 DEF EmitAnthropic, Delta, emit_text_delta
  <2>2. /\ InStep(b) /\ ~b.finished /\ b.open_block \in {"text", NoBlock}
        /\ b.started = s.started /\ b.client.stopped = s.client.stopped
        /\ Numbered(s) => Numbered(b)
    BY <1>1, <1>2
  <2> HIDE DEF b
  <2> QED
    BY <2>1, <2>2, ProseKeepsStep
<1> QED
  BY <1>3, <1>4

LEMMA CallStartStep ==
    ASSUME NEW s, InStep(s), ~s.finished, NEW i \in ToolIndices,
           NEW c, c = EmitAnthropic(s, ToolEvent("ToolCallStart", i))
    PROVE  /\ InStep(c) /\ ~c.finished
           /\ c.open_block = "tool_use" /\ c.open_block_index = i
           /\ c.started = s.started /\ c.client.stopped = s.client.stopped
           /\ (Numbered(s) /\ i = close_open_block(s).block_index) => Numbered(c)
<1> DEFINE closed == close_open_block(s)
           opened == open_block(closed, "tool_use", i)
           n == IF opened.block_index > i + 1 THEN opened.block_index ELSE i + 1
<1>1. i \in Nat /\ "tool_use" \in BlockTypes /\ "tool_use" # NoBlock
  BY ToolIndicesAssumption DEF BlockTypes, NoBlock
<1>2. /\ InStep(closed) /\ ~closed.finished /\ closed.open_block = NoBlock
      /\ closed.started = s.started /\ closed.client.stopped = s.client.stopped
      /\ Numbered(s) => Numbered(closed)
  BY CloseKeepsStep, ClosedIsNumbered
<1>3. c = [opened EXCEPT !.block_index = n]
  BY DEF EmitAnthropic, ToolEvent, emit_tool_call_start
<1> HIDE DEF closed
<1>4. /\ InStep(opened) /\ ~opened.finished /\ opened.open_block = "tool_use"
      /\ opened.open_block_index = i /\ opened.started = closed.started
      /\ opened.client.stopped = closed.client.stopped
  BY <1>1, <1>2, OpenKeepsStep
<1>5. Numbered(closed) /\ i = closed.block_index => Numbered(opened)
  BY <1>1, <1>2, OpenedIsNumbered
<1> HIDE DEF opened
<1>6. n \in Nat
  BY <1>1, <1>4 DEF InStep, AnthropicStream
<1> HIDE DEF n
<1>7. /\ c \in AnthropicStream /\ c.client = opened.client
      /\ c.open_block = opened.open_block
      /\ c.open_block_index = opened.open_block_index
      /\ c.started = opened.started /\ c.finished = opened.finished
  BY <1>3, <1>4, <1>6 DEF InStep, AnthropicStream
<1>8. InStep(c)
  BY <1>4, <1>7 DEF InStep
<1>9. Numbered(opened) => Numbered(c)
  BY <1>1, <1>4, <1>7 DEF Numbered
<1> QED
  BY <1>2, <1>4, <1>5, <1>7, <1>8, <1>9 DEF closed

LEMMA CallArgsStep ==
    ASSUME NEW s, InStep(s), ~s.finished, s.open_block = "tool_use",
           NEW i, i = s.open_block_index
    PROVE  EmitAnthropic(s, ToolEvent("ToolCallArgsDelta", i)) = s
<1>1. EmitAnthropic(s, ToolEvent("ToolCallArgsDelta", i)) = send_delta(s, i)
  BY DEF EmitAnthropic, ToolEvent, emit_tool_call_args
<1>2. s.open_block # NoBlock
  BY DEF NoBlock
<1> QED
  BY <1>1, <1>2, DeltaKeepsStep

LEMMA CallEndStep ==
    ASSUME NEW s, InStep(s), ~s.finished, s.open_block = "tool_use",
           NEW i, NEW c, c = EmitAnthropic(s, ToolEvent("ToolCallEnd", i))
    PROVE  /\ InStep(c) /\ ~c.finished /\ c.open_block = NoBlock
           /\ c.started = s.started /\ c.client.stopped = s.client.stopped
           /\ c.block_index = s.open_block_index + 1
           /\ Numbered(s) => Numbered(c)
<1>1. c = close_open_block(s)
  BY DEF EmitAnthropic, ToolEvent, emit_tool_call_end
<1>2. s.open_block # NoBlock
  BY DEF NoBlock
<1> QED
  BY <1>1, <1>2, CloseKeepsStep, ClosedIsNumbered

LEMMA StartStep ==
    ASSUME NEW s, InStep(s), ~s.finished, ~s.started,
           NEW c, c = EmitAnthropic(s, Event("MessageStart"))
    PROVE  /\ InStep(c) /\ ~c.finished /\ c.started
           /\ c.open_block = NoBlock /\ c.block_index = 0
           /\ c.client.stopped = s.client.stopped
           /\ Numbered(s) => Numbered(c)
<1> DEFINE r == s.client
           d == [r EXCEPT !.started = TRUE, !.count = 0, !.open = NoIndex]
<1>1. /\ s \in AnthropicStream /\ r \in AnthropicReader /\ ~r.stopped /\ ~r.started
      /\ r.errors \subseteq {"index"}
  BY DEF InStep, AnthropicStream
<1>2. Late(r) = {} /\ Unless(~r.started, "start twice") = {}
  BY <1>1, NotLate DEF Unless
<1>3. r.errors \cup Late(r) \cup Unless(~r.started, "start twice") = r.errors
  BY <1>2
<1>4. message_start(r) = d
  BY <1>1, <1>3 DEF message_start, AnthropicReader
<1>5. c = [s EXCEPT !.started = TRUE, !.block_index = 0, !.open_block = NoBlock,
                    !.open_block_index = NoIndex, !.client = d]
  BY <1>4 DEF EmitAnthropic, Event, emit_message_start
<1>6. /\ d \in AnthropicReader /\ d.open = NoIndex /\ d.count = 0 /\ d.started
      /\ d.started = TRUE /\ d.stopped = r.stopped /\ d.errors = r.errors
  BY <1>1 DEF AnthropicReader
<1> HIDE DEF d
<1>7. /\ c \in AnthropicStream /\ c.client = d /\ c.started = TRUE
      /\ c.block_index = 0 /\ c.open_block = NoBlock
      /\ c.open_block_index = NoIndex /\ c.finished = s.finished
  <2>1. /\ c.client = d /\ c.started = TRUE
        /\ c.block_index = 0 /\ c.open_block = NoBlock
        /\ c.open_block_index = NoIndex /\ c.finished = s.finished
    BY <1>1, <1>5 DEF AnthropicStream
  <2>2. NoBlock \in BlockTypes \cup {NoBlock} /\ NoIndex \in Nat \cup {NoIndex}
        /\ 0 \in Nat
    OBVIOUS
  <2>3. [s EXCEPT !.client = d, !.block_index = 0, !.open_block = NoBlock,
                  !.open_block_index = NoIndex] \in AnthropicStream
    BY <1>1, <1>6, <2>2, Updated
  <2>4. c = [[s EXCEPT !.client = d, !.block_index = 0, !.open_block = NoBlock,
                       !.open_block_index = NoIndex] EXCEPT !.started = TRUE]
    BY <1>1, <1>5 DEF AnthropicStream
  <2>5. c \in AnthropicStream
    BY <2>3, <2>4 DEF AnthropicStream
  <2> QED
    BY <2>1, <2>5
<1>8. InStep(c)
  BY <1>1, <1>6, <1>7 DEF InStep
<1>9. Numbered(s) => Numbered(c)
  BY <1>6, <1>7 DEF Numbered
<1> QED
  BY <1>1, <1>6, <1>7, <1>8, <1>9

\* The three ways a stream is over.  Only MessageEnd tells the reader.
LEMMA EndStep ==
    ASSUME NEW s, InStep(s), ~s.finished, s.started,
           NEW c, c = EmitAnthropic(s, Event("MessageEnd"))
    PROVE  /\ InStep(c) /\ c.finished /\ c.started /\ c.client.stopped
           /\ Numbered(s) => Numbered(c)
<1> DEFINE b == close_open_block(s)
           r == b.client
           d == [r EXCEPT !.stopped = TRUE]
<1>1. /\ InStep(b) /\ b.open_block = NoBlock /\ b.started = s.started
      /\ r.stopped = s.client.stopped
      /\ Numbered(s) => Numbered(b)
  BY CloseKeepsStep, ClosedIsNumbered
<1>2. c = [b EXCEPT !.client = message_stop(@), !.finished = TRUE]
  BY DEF EmitAnthropic, Event, emit_message_end
<1> HIDE DEF b
<1>3. /\ b \in AnthropicStream /\ r \in AnthropicReader /\ ~r.stopped
      /\ r.started = b.started /\ r.started /\ r.open = b.open_block_index
      /\ b.open_block_index = NoIndex /\ r.errors \subseteq {"index"}
  <2>1. ~r.stopped
    BY <1>1 DEF InStep
  <2>2. r.started = b.started /\ r.open = b.open_block_index
        /\ r.errors \subseteq {"index"} /\ b \in AnthropicStream
    BY <1>1 DEF InStep
  <2>3. r.started
    BY <1>1, <2>2
  <2>4. b.open_block_index = NoIndex
    BY <1>1 DEF InStep
  <2>5. r \in AnthropicReader
    BY <2>2 DEF AnthropicStream
  <2> QED
    BY <2>1, <2>2, <2>3, <2>4, <2>5
<1>4. Late(r) = {} /\ Unless(r.started, "stop without start") = {}
  BY <1>3, NotLate DEF Unless
<1>5. r.errors \cup Late(r) \cup Unless(r.started, "stop without start") = r.errors
  BY <1>4
<1>6. message_stop(r) = d
  BY <1>3, <1>5 DEF message_stop, AnthropicReader
<1>7. /\ d \in AnthropicReader /\ d.stopped = TRUE /\ d.started = r.started
      /\ d.open = r.open /\ d.count = r.count /\ d.errors = r.errors
  BY <1>3 DEF AnthropicReader
<1>8. c = [b EXCEPT !.client = d, !.finished = TRUE]
  BY <1>2, <1>6
<1> HIDE DEF d
<1>9. /\ c.client = d /\ c.finished = TRUE /\ c.started = b.started
      /\ c.open_block = b.open_block /\ c.block_index = b.block_index
      /\ c.open_block_index = b.open_block_index
  BY <1>3, <1>8 DEF AnthropicStream
<1>10. c \in AnthropicStream
  BY <1>3, <1>7, <1>8 DEF AnthropicStream
<1>11. InStep(c)
  <2>1. c.client.started = c.started /\ c.client.open = c.open_block_index
    BY <1>3, <1>7, <1>9
  <2>2. c.finished /\ c.client.errors \subseteq {"index"}
    BY <1>3, <1>7, <1>9
  <2> QED
    BY <1>1, <1>3, <1>9, <1>10, <2>1, <2>2 DEF InStep
<1>12. Numbered(b) => Numbered(c)
  BY <1>7, <1>9 DEF Numbered
<1>13. c.finished /\ c.started /\ c.client.stopped
  <2>1. c.finished
    BY <1>9
  <2>2. c.started
    BY <1>3, <1>9
  <2>3. c.client.stopped
    BY <1>7, <1>9
  <2> QED
    BY <2>1, <2>2, <2>3
<1>14. Numbered(s) => Numbered(c)
  BY <1>1, <1>12
<1> QED
  BY <1>11, <1>13, <1>14

LEMMA CloseStep ==
    ASSUME NEW s, InStep(s), ~s.finished, NEW c, c = CloseAnthropic(s)
    PROVE  /\ InStep(c) /\ c.finished /\ c.started = s.started
           /\ c.client.stopped = s.client.stopped
           /\ Numbered(s) => Numbered(c)
<1> DEFINE b == close_open_block(s)
<1>1. /\ InStep(b) /\ b.open_block = NoBlock /\ b.started = s.started
      /\ b.client.stopped = s.client.stopped
      /\ Numbered(s) => Numbered(b)
  BY CloseKeepsStep, ClosedIsNumbered
<1>2. c = [b EXCEPT !.finished = TRUE]
  BY DEF CloseAnthropic
<1> HIDE DEF b
<1>3. b \in AnthropicStream
  BY <1>1 DEF InStep
<1>4. /\ c.client = b.client /\ c.finished = TRUE /\ c.started = b.started
      /\ c.open_block = b.open_block /\ c.block_index = b.block_index
      /\ c.open_block_index = b.open_block_index
  BY <1>2, <1>3 DEF AnthropicStream
<1>5. c \in AnthropicStream
  BY <1>2, <1>3 DEF AnthropicStream
<1>6. InStep(c)
  BY <1>1, <1>4, <1>5 DEF InStep
<1>7. Numbered(b) => Numbered(c)
  BY <1>4 DEF Numbered
<1>8. c.finished
  BY <1>4
<1>9. c.started = s.started /\ c.client.stopped = s.client.stopped
  BY <1>1, <1>4
<1>10. Numbered(s) => Numbered(c)
  BY <1>1, <1>7
<1> QED
  BY <1>6, <1>8, <1>9, <1>10

LEMMA ErrorStep ==
    ASSUME NEW s, InStep(s), ~s.finished,
           NEW c, c = EmitAnthropic(s, Event("SinkError"))
    PROVE  c = CloseAnthropic(s)
<1> DEFINE b == close_open_block(s)
<1>1. InStep(b) /\ b.client.stopped = s.client.stopped
  BY CloseKeepsStep
<1>2. c = [b EXCEPT !.client = error_frame(@), !.finished = TRUE]
  BY DEF EmitAnthropic, Event, emit_error
<1>3. CloseAnthropic(s) = [b EXCEPT !.finished = TRUE]
  BY DEF CloseAnthropic
<1> HIDE DEF b
<1>4. b \in AnthropicStream /\ b.client \in AnthropicReader
  BY <1>1 DEF InStep, AnthropicStream
<1>5. Late(b.client) = {}
  BY <1>1, NotLate DEF InStep
<1>6. error_frame(b.client) = b.client
  <2>1. b.client.errors \cup Late(b.client) = b.client.errors
    BY <1>5
  <2> QED
    BY <1>4, <2>1 DEF error_frame, AnthropicReader
<1> QED
  BY <1>2, <1>3, <1>4, <1>6 DEF AnthropicStream

(***************************************************************************)
(* The OpenAI emitter and its reader.                                      *)
(***************************************************************************)
OpenAIInStep(o) ==
    /\ o \in OpenAIStream
    /\ o.client.role = o.role_emitted
    /\ o.finished \/ ~o.client.finish
    /\ o.finished \/ ~o.client.done
    /\ o.client.errors \subseteq {"empty choices", "call index"}

Orderly(o) == o.client.errors \subseteq {"empty choices"}

LEMMA ChunkRead ==
    ASSUME NEW r \in OpenAIReader, r.role, ~r.finish
    PROVE  delta_chunk(r) = r
<1>1. Unless(r.role, "role late") = {} /\ Unless(~r.finish, "after finish") = {}
  BY DEF Unless
<1>2. r.errors \cup Unless(r.role, "role late") \cup Unless(~r.finish, "after finish")
        = r.errors
  BY <1>1
<1> QED
  BY <1>2 DEF delta_chunk, OpenAIReader

LEMMA RoleChunkStep ==
    ASSUME NEW o, OpenAIInStep(o), ~o.finished, ~o.role_emitted,
           NEW c, c = EmitOpenAI(o, Event("MessageStart"))
    PROVE  /\ OpenAIInStep(c) /\ ~c.finished /\ c.role_emitted
           /\ c.client.calls = o.client.calls
           /\ c.client.finish = o.client.finish /\ c.client.done = o.client.done
           /\ Orderly(o) => Orderly(c)
<1> DEFINE r == o.client
           d == [r EXCEPT !.role = TRUE]
<1>1. /\ o \in OpenAIStream /\ r \in OpenAIReader /\ ~r.role /\ ~r.finish
      /\ ~r.done
  BY DEF OpenAIInStep, OpenAIStream
<1>2. Unless(~r.role, "role twice") = {} /\ Unless(~r.finish, "after finish") = {}
  BY <1>1 DEF Unless
<1>3. r.errors \cup Unless(~r.role, "role twice")
        \cup Unless(~r.finish, "after finish") = r.errors
  BY <1>2
<1>4. role_chunk(r) = d
  BY <1>1, <1>3 DEF role_chunk, OpenAIReader
<1>5. /\ d \in OpenAIReader /\ d.role = TRUE /\ d.finish = r.finish
      /\ d.done = r.done /\ d.calls = r.calls /\ d.errors = r.errors
  BY <1>1 DEF OpenAIReader
<1>6. c = [o EXCEPT !.role_emitted = TRUE, !.client = d]
  BY <1>4 DEF EmitOpenAI, Event, emit_role
<1> HIDE DEF d
<1>7. c.client = d /\ c.role_emitted = TRUE /\ c.finished = o.finished
  BY <1>1, <1>6 DEF OpenAIStream
<1>8. c \in OpenAIStream
  BY <1>1, <1>5, <1>6 DEF OpenAIStream
<1>9. OpenAIInStep(c)
  <2>1. c.client.role = c.role_emitted
    BY <1>5, <1>7
  <2>2. ~c.client.finish /\ ~c.client.done
    BY <1>1, <1>5, <1>7
  <2>3. c.client.errors \subseteq {"empty choices", "call index"}
    BY <1>5, <1>7 DEF OpenAIInStep
  <2> QED
    BY <1>8, <2>1, <2>2, <2>3 DEF OpenAIInStep
<1>10. ~c.finished
  BY <1>7
<1>11. c.role_emitted
  BY <1>7
<1>12. Orderly(o) => Orderly(c)
  BY <1>5, <1>7 DEF Orderly
<1> QED
  BY <1>5, <1>7, <1>9, <1>10, <1>11, <1>12

LEMMA DeltaChunkStep ==
    ASSUME NEW o, OpenAIInStep(o), ~o.finished, o.role_emitted,
           NEW kind \in {"ThinkingDelta", "TextDelta"}, NEW blank \in BOOLEAN,
           NEW c, c = EmitOpenAI(o, Delta(kind, blank))
    PROVE  /\ OpenAIInStep(c) /\ ~c.finished
           /\ c.client = o.client /\ c.role_emitted = o.role_emitted
           /\ Orderly(o) => Orderly(c)
<1> DEFINE b == IF kind = "ThinkingDelta" THEN "reasoning" ELSE "text"
<1>1. o \in OpenAIStream /\ o.client \in OpenAIReader
  BY DEF OpenAIInStep, OpenAIStream
<1>2. o.client.role /\ ~o.client.finish
  BY DEF OpenAIInStep
<1>3. delta_chunk(o.client) = o.client
  BY <1>1, <1>2, ChunkRead
<1>4. c = emit_content(o, b, blank)
  BY DEF EmitOpenAI, Delta
<1>5. c = [o EXCEPT !.open_block = b, !.client = o.client]
  BY <1>3, <1>4 DEF emit_content
<1>6. /\ c.client = o.client /\ c.role_emitted = o.role_emitted
      /\ c.finished = o.finished
  BY <1>1, <1>5 DEF OpenAIStream
<1>7. b \in ContentStreams
  BY DEF ContentStreams
<1> HIDE DEF b
<1>8. c \in OpenAIStream
  BY <1>1, <1>5, <1>7 DEF OpenAIStream
<1>9. OpenAIInStep(c)
  BY <1>6, <1>8 DEF OpenAIInStep
<1> QED
  BY <1>6, <1>9 DEF Orderly

LEMMA CallChunkStep ==
    ASSUME NEW o, OpenAIInStep(o), ~o.finished, o.role_emitted,
           NEW i \in ToolIndices,
           NEW c, c = EmitOpenAI(o, ToolEvent("ToolCallStart", i))
    PROVE  /\ OpenAIInStep(c) /\ ~c.finished /\ c.role_emitted = o.role_emitted
           /\ c.client.calls = o.client.calls \cup {i}
           /\ c.client.finish = o.client.finish /\ c.client.done = o.client.done
           /\ (Orderly(o) /\ \A j \in o.client.calls : j < i) => Orderly(c)
<1> DEFINE r == o.client
           e == r.errors \cup Unless(\A j \in r.calls : j < i, "call index")
           d == [r EXCEPT !.calls = @ \cup {i}, !.errors = e]
<1>1. /\ o \in OpenAIStream /\ r \in OpenAIReader /\ r.role /\ ~r.finish
      /\ ~r.done
  BY DEF OpenAIInStep, OpenAIStream
<1>2. delta_chunk(r) = r
  BY <1>1, ChunkRead
<1>3. tool_call_chunk(r, i) = d
  BY <1>1, <1>2 DEF tool_call_chunk, OpenAIReader
<1>4. e \in SUBSET OpenAIErrors
  BY <1>1 DEF Unless, OpenAIErrors, OpenAIReader
<1>5. r.calls \cup {i} \in SUBSET ToolIndices
  BY <1>1 DEF OpenAIReader
<1>6. (\A j \in r.calls : j < i) => e = r.errors
  BY DEF Unless
<1>14. e \subseteq {"empty choices", "call index"}
  BY DEF OpenAIInStep, Unless
<1> HIDE DEF e
<1>7. /\ d \in OpenAIReader /\ d.role = r.role /\ d.finish = r.finish
      /\ d.done = r.done /\ d.calls = r.calls \cup {i} /\ d.errors = e
  BY <1>1, <1>4, <1>5 DEF OpenAIReader
<1>8. c = [o EXCEPT !.open_block = "tool_call", !.client = d]
  BY <1>3 DEF EmitOpenAI, ToolEvent, emit_call_start
<1> HIDE DEF d
<1>9. /\ c.client = d /\ c.role_emitted = o.role_emitted /\ c.finished = o.finished
  BY <1>1, <1>8 DEF OpenAIStream
<1>10. c \in OpenAIStream
  BY <1>1, <1>7, <1>8 DEF OpenAIStream, ContentStreams
<1>11. OpenAIInStep(c)
  <2>1. c.client.role = c.role_emitted
    BY <1>7, <1>9 DEF OpenAIInStep
  <2>2. ~c.client.finish /\ ~c.client.done
    BY <1>1, <1>7, <1>9
  <2>3. c.client.errors \subseteq {"empty choices", "call index"}
    BY <1>7, <1>9, <1>14 DEF OpenAIInStep
  <2> QED
    BY <1>10, <2>1, <2>2, <2>3 DEF OpenAIInStep
<1>12. (Orderly(o) /\ \A j \in o.client.calls : j < i) => Orderly(c)
  BY <1>6, <1>7, <1>9 DEF Orderly
<1>13. ~c.finished
  BY <1>9
<1> QED
  BY <1>7, <1>9, <1>11, <1>12, <1>13

LEMMA ArgsChunkStep ==
    ASSUME NEW o, OpenAIInStep(o), ~o.finished, o.role_emitted,
           NEW i \in ToolIndices,
           NEW c, c = EmitOpenAI(o, ToolEvent("ToolCallArgsDelta", i))
    PROVE  /\ OpenAIInStep(c) /\ ~c.finished /\ c.role_emitted = o.role_emitted
           /\ c.client.calls = o.client.calls \cup {i}
           /\ c.client.finish = o.client.finish /\ c.client.done = o.client.done
           /\ Orderly(o) => Orderly(c)
<1> DEFINE r == o.client
           d == [r EXCEPT !.calls = @ \cup {i}]
<1>1. /\ o \in OpenAIStream /\ r \in OpenAIReader /\ r.role /\ ~r.finish
      /\ ~r.done
  BY DEF OpenAIInStep, OpenAIStream
<1>2. delta_chunk(r) = r
  BY <1>1, ChunkRead
<1>3. arguments_chunk(r, i) = d
  BY <1>2 DEF arguments_chunk
<1>4. /\ d \in OpenAIReader /\ d.role = r.role /\ d.finish = r.finish
      /\ d.done = r.done /\ d.calls = r.calls \cup {i} /\ d.errors = r.errors
  BY <1>1 DEF OpenAIReader
<1>5. c = [o EXCEPT !.open_block = "tool_call", !.client = d]
  BY <1>3 DEF EmitOpenAI, ToolEvent, emit_call_args
<1> HIDE DEF d
<1>6. /\ c.client = d /\ c.role_emitted = o.role_emitted /\ c.finished = o.finished
  BY <1>1, <1>5 DEF OpenAIStream
<1>7. c \in OpenAIStream
  BY <1>1, <1>4, <1>5 DEF OpenAIStream, ContentStreams
<1>8. OpenAIInStep(c)
  <2>1. c.client.role = c.role_emitted
    BY <1>4, <1>6 DEF OpenAIInStep
  <2>2. ~c.client.finish /\ ~c.client.done
    BY <1>1, <1>4, <1>6
  <2>3. c.client.errors \subseteq {"empty choices", "call index"}
    BY <1>4, <1>6 DEF OpenAIInStep
  <2> QED
    BY <1>7, <2>1, <2>2, <2>3 DEF OpenAIInStep
<1>9. Orderly(o) => Orderly(c)
  BY <1>4, <1>6 DEF Orderly
<1>10. ~c.finished
  BY <1>6
<1> QED
  BY <1>4, <1>6, <1>8, <1>9, <1>10

LEMMA FinishChunkStep ==
    ASSUME NEW o, OpenAIInStep(o), ~o.finished,
           NEW c, c = EmitOpenAI(o, Event("MessageEnd"))
    PROVE  /\ OpenAIInStep(c) /\ c.finished /\ c.role_emitted = o.role_emitted
           /\ c.client.calls = o.client.calls
           /\ c.client.finish /\ c.client.done
           /\ Orderly(o) => Orderly(c)
<1> DEFINE r == o.client
           d == [r EXCEPT !.finish = TRUE, !.done = TRUE]
<1>1. /\ o \in OpenAIStream /\ r \in OpenAIReader /\ ~r.finish /\ ~r.done
  BY DEF OpenAIInStep, OpenAIStream
<1>2. Unless(~r.finish, "finish twice") = {} /\ Unless(~r.done, "done twice") = {}
  BY <1>1 DEF Unless
<1>3. finish_chunk(r) = [r EXCEPT !.finish = TRUE]
  <2>1. r.errors \cup Unless(~r.finish, "finish twice") = r.errors
    BY <1>2
  <2> QED
    BY <1>1, <2>1 DEF finish_chunk, OpenAIReader
<1>4. done_chunk(finish_chunk(r)) = d
  <2> DEFINE f == [r EXCEPT !.finish = TRUE]
  <2>1. f.done = r.done /\ f.errors = r.errors /\ f \in OpenAIReader
    BY <1>1 DEF OpenAIReader
  <2>2. f.errors \cup Unless(~f.done, "done twice") = f.errors
    BY <1>2, <2>1
  <2>3. d = [f EXCEPT !.done = TRUE]
    BY <1>1 DEF OpenAIReader
  <2> HIDE DEF d
  <2> QED
    BY <1>3, <2>1, <2>2, <2>3 DEF done_chunk, OpenAIReader
<1>5. /\ d \in OpenAIReader /\ d.role = r.role /\ d.finish = TRUE
      /\ d.done = TRUE /\ d.calls = r.calls /\ d.errors = r.errors
  BY <1>1 DEF OpenAIReader
<1>6. c = [o EXCEPT !.open_block = "none", !.finished = TRUE, !.client = d]
  BY <1>4 DEF EmitOpenAI, Event, emit_finish
<1> HIDE DEF d
<1>7. /\ c.client = d /\ c.role_emitted = o.role_emitted /\ c.finished = TRUE
  BY <1>1, <1>6 DEF OpenAIStream
<1>8. c \in OpenAIStream
  BY <1>1, <1>5, <1>6 DEF OpenAIStream, ContentStreams
<1>9. c.finished
  BY <1>7
<1>10. OpenAIInStep(c)
  <2>1. c.client.role = c.role_emitted
    BY <1>5, <1>7 DEF OpenAIInStep
  <2>3. c.client.errors \subseteq {"empty choices", "call index"}
    BY <1>5, <1>7 DEF OpenAIInStep
  <2> QED
    BY <1>8, <1>9, <2>1, <2>3 DEF OpenAIInStep
<1>11. c.client.finish /\ c.client.done
  BY <1>5, <1>7
<1>12. Orderly(o) => Orderly(c)
  BY <1>5, <1>7 DEF Orderly
<1> QED
  BY <1>5, <1>7, <1>9, <1>10, <1>11, <1>12

\* An error or a cancellation leaves the reader without [DONE].
LEMMA DropChunkStep ==
    ASSUME NEW o, OpenAIInStep(o), ~o.finished,
           NEW c, \/ c = EmitOpenAI(o, Event("SinkError"))
                  \/ c = CloseOpenAI(o)
    PROVE  /\ OpenAIInStep(c) /\ c.finished /\ c.role_emitted = o.role_emitted
           /\ c.client.calls = o.client.calls
           /\ c.client.finish = o.client.finish /\ c.client.done = o.client.done
           /\ Orderly(o) => Orderly(c)
<1> DEFINE r == o.client
<1>1. o \in OpenAIStream /\ r \in OpenAIReader
  BY DEF OpenAIInStep, OpenAIStream
<1>2. PICK d \in {r, error_chunk(r)} :
          c = [o EXCEPT !.open_block = "none", !.finished = TRUE, !.client = d]
  <2>1. CASE c = EmitOpenAI(o, Event("SinkError"))
    BY <2>1 DEF EmitOpenAI, Event, emit_error_object
  <2>2. CASE c = CloseOpenAI(o)
    <3>1. c = [o EXCEPT !.open_block = "none", !.finished = TRUE]
      BY <2>2 DEF CloseOpenAI
    <3> QED
      BY <1>1, <3>1 DEF OpenAIStream
  <2> QED
    BY <2>1, <2>2
<1>3. /\ d \in OpenAIReader /\ d.role = r.role /\ d.finish = r.finish
      /\ d.done = r.done /\ d.calls = r.calls
      /\ d.errors \subseteq r.errors \cup {"empty choices"}
  <2>1. CASE d = r
    BY <1>1, <2>1
  <2>2. CASE d = error_chunk(r)
    <3>1. r.errors \cup {"empty choices"} \in SUBSET OpenAIErrors
      BY <1>1 DEF OpenAIReader, OpenAIErrors
    <3> QED
      BY <1>1, <2>2, <3>1 DEF error_chunk, OpenAIReader
  <2> QED
    BY <2>1, <2>2
<1>4. /\ c.client = d /\ c.role_emitted = o.role_emitted /\ c.finished = TRUE
  BY <1>1, <1>2 DEF OpenAIStream
<1>5. c \in OpenAIStream
  BY <1>1, <1>2, <1>3 DEF OpenAIStream, ContentStreams
<1>6. c.finished
  BY <1>4
<1>7. OpenAIInStep(c)
  <2>1. c.client.role = c.role_emitted
    BY <1>3, <1>4 DEF OpenAIInStep
  <2>3. c.client.errors \subseteq {"empty choices", "call index"}
    BY <1>3, <1>4 DEF OpenAIInStep
  <2> QED
    BY <1>5, <1>6, <2>1, <2>3 DEF OpenAIInStep
<1>8. Orderly(o) => Orderly(c)
  BY <1>3, <1>4 DEF Orderly
<1> QED
  BY <1>3, <1>4, <1>6, <1>7, <1>8

(***************************************************************************)
(* The invariant.                                                          *)
(***************************************************************************)

\* The emitters, their readers and the source agree on where the stream is.
InTouch ==
    /\ anthropic.started = source.begun
    /\ openai.role_emitted = source.begun
    /\ openai.finished = anthropic.finished
    /\ anthropic.client.stopped = source.ended
    /\ openai.client.finish = source.ended
    /\ openai.client.done = source.ended

\* While the stream runs, a tool block is open exactly when a call is being
\* sent, and carries its index.
CallIsOpen ==
    ~anthropic.finished =>
        /\ source.call = NoIndex => anthropic.open_block # "tool_use"
        /\ source.call # NoIndex => /\ anthropic.open_block = "tool_use"
                                    /\ anthropic.open_block_index = source.call

\* No call was announced past the last one; the call being sent was.
CallsCounted ==
    /\ source.grammar = "dsml" =>
           /\ \A j \in openai.client.calls : j <= source.last
           /\ Orderly(openai)
    /\ source.call # NoIndex => source.call \in openai.client.calls
    /\ ~source.begun => source.call = NoIndex /\ source.last = NoIndex
                        /\ source.prose = FALSE

IInv ==
    /\ source \in Source
    /\ InStep(anthropic)
    /\ OpenAIInStep(openai)
    /\ InTouch
    /\ CallIsOpen
    /\ CallsCounted

\* What an event does to the source.
LEMMA SentParts ==
    ASSUME source \in Source, NEW event \in SinkEvent, source' = Sent(event),
           event.kind = "ToolCallStart" => event.index \in ToolIndices
    PROVE  /\ source' \in Source /\ source'.grammar = source.grammar
           /\ source'.begun = (source.begun \/ event.kind = "MessageStart")
           /\ source'.ended = (source.ended \/ event.kind = "MessageEnd")
           /\ source'.call = CASE event.kind = "ToolCallStart" -> event.index
                               [] event.kind = "ToolCallEnd" -> NoIndex
                               [] OTHER -> source.call
           /\ source'.last = IF event.kind = "ToolCallStart" THEN event.index
                             ELSE source.last
           /\ source'.prose = (source.prose
                                 \/ event.kind \in {"ThinkingDelta", "TextDelta"})
           /\ source'.calls_first =
                (source.calls_first
                   /\ (event.kind = "ToolCallStart" =>
                          ~source.prose /\ event.index = source.last + 1))
<1> DEFINE begun == source.begun \/ event.kind = "MessageStart"
           ended == source.ended \/ event.kind = "MessageEnd"
           call == CASE event.kind = "ToolCallStart" -> event.index
                     [] event.kind = "ToolCallEnd" -> NoIndex
                     [] OTHER -> source.call
           last == IF event.kind = "ToolCallStart" THEN event.index ELSE source.last
           prose == source.prose \/ event.kind \in {"ThinkingDelta", "TextDelta"}
           first == source.calls_first
                      /\ (event.kind = "ToolCallStart" =>
                             ~source.prose /\ event.index = source.last + 1)
           fed == source.fed + 1
<1>1. source' = [source EXCEPT !.begun = begun, !.ended = ended, !.call = call,
                               !.last = last, !.prose = prose,
                               !.calls_first = first, !.fed = fed]
  BY DEF Sent, Source
<1>2. /\ begun \in BOOLEAN /\ ended \in BOOLEAN /\ prose \in BOOLEAN
      /\ first \in BOOLEAN
  OBVIOUS
<1>3. call \in ToolIndices \cup {NoIndex} /\ last \in ToolIndices \cup {NoIndex}
  BY DEF Source
<1>4. fed \in Nat
  BY DEF Source
<1> HIDE DEF begun, ended, call, last, prose, first, fed
<1>5. source' \in Source
  BY <1>1, <1>2, <1>3, <1>4 DEF Source
<1>6. /\ source'.begun = begun /\ source'.ended = ended /\ source'.call = call
      /\ source'.last = last /\ source'.prose = prose
      /\ source'.calls_first = first /\ source'.grammar = source.grammar
  BY <1>1 DEF Source
<1> QED
  BY <1>5, <1>6 DEF begun, ended, call, last, prose, first

LEMMA EventTypes ==
    /\ \A k \in Kinds : Event(k) \in SinkEvent /\ Event(k).kind = k
    /\ \A k \in Kinds, b \in BOOLEAN :
           Delta(k, b) \in SinkEvent /\ Delta(k, b).kind = k
    /\ \A k \in Kinds, i \in ToolIndices :
           /\ ToolEvent(k, i) \in SinkEvent /\ ToolEvent(k, i).kind = k
           /\ ToolEvent(k, i).index = i
BY DEF Event, Delta, ToolEvent, SinkEvent

\* The booleans of InTouch have the type that makes = and <=> the same.
LEMMA Switches ==
    ASSUME NEW a, InStep(a), NEW o, OpenAIInStep(o), NEW s \in Source
    PROVE  /\ a.started \in BOOLEAN /\ a.finished \in BOOLEAN
           /\ a.client.stopped \in BOOLEAN
           /\ o.role_emitted \in BOOLEAN /\ o.finished \in BOOLEAN
           /\ o.client.finish \in BOOLEAN /\ o.client.done \in BOOLEAN
           /\ s.begun \in BOOLEAN /\ s.ended \in BOOLEAN /\ s.prose \in BOOLEAN
<1>1. a \in AnthropicStream /\ o \in OpenAIStream
  BY DEF InStep, OpenAIInStep
<1>2. a.client \in AnthropicReader /\ o.client \in OpenAIReader
  BY <1>1 DEF AnthropicStream, OpenAIStream
<1>3. a.started \in BOOLEAN /\ a.finished \in BOOLEAN
  BY <1>1 DEF AnthropicStream
<1>4. a.client.stopped \in BOOLEAN
  BY <1>2 DEF AnthropicReader
<1>5. o.role_emitted \in BOOLEAN /\ o.finished \in BOOLEAN
  BY <1>1 DEF OpenAIStream
<1>6. o.client.finish \in BOOLEAN /\ o.client.done \in BOOLEAN
  BY <1>2 DEF OpenAIReader
<1>7. s.begun \in BOOLEAN /\ s.ended \in BOOLEAN /\ s.prose \in BOOLEAN
  BY DEF Source
<1> QED
  BY <1>3, <1>4, <1>5, <1>6, <1>7

LEMMA InitEstablishes == Init => IInv
<1> SUFFICES ASSUME Init PROVE IInv
  OBVIOUS
<1> DEFINE a == [open |-> NoIndex, count |-> 0, started |-> FALSE,
                 stopped |-> FALSE, errors |-> {}]
           o == [role |-> FALSE, finish |-> FALSE, done |-> FALSE,
                 calls |-> {}, errors |-> {}]
<1>1. a \in AnthropicReader
  BY DEF AnthropicReader
<1>2. o \in OpenAIReader
  BY DEF OpenAIReader
<1>3. /\ anthropic = [block_index |-> 0, open_block |-> NoBlock,
                      open_block_index |-> NoIndex, started |-> FALSE,
                      finished |-> FALSE, client |-> a]
      /\ openai = [role_emitted |-> FALSE, open_block |-> "none",
                   finished |-> FALSE, client |-> o]
  BY DEF Init, NewAnthropicStream, NewAnthropicReader, NewOpenAIStream, NewOpenAIReader
<1>4. InStep(anthropic)
  BY <1>1, <1>3 DEF InStep, AnthropicStream
<1>5. OpenAIInStep(openai)
  BY <1>2, <1>3 DEF OpenAIInStep, OpenAIStream, ContentStreams
<1>6. source \in Source
  BY DEF Init, Source
<1>7. /\ source.begun = FALSE /\ source.ended = FALSE /\ source.prose = FALSE
      /\ source.call = NoIndex /\ source.last = NoIndex
  BY DEF Init
<1>8. /\ anthropic.client = a /\ anthropic.started = FALSE
      /\ anthropic.finished = FALSE /\ anthropic.open_block = NoBlock
      /\ openai.client = o /\ openai.role_emitted = FALSE /\ openai.finished = FALSE
  BY <1>3
<1>9. a.stopped = FALSE /\ o.finish = FALSE /\ o.done = FALSE
  OBVIOUS
<1>10. o.calls = {} /\ o.errors = {}
  OBVIOUS
<1> HIDE DEF a, o
<1>11. InTouch
  BY <1>7, <1>8, <1>9 DEF InTouch
<1>12. CallIsOpen
  BY <1>7, <1>8 DEF CallIsOpen, NoBlock
<1>13. CallsCounted
  BY <1>7, <1>8, <1>10 DEF CallsCounted, Orderly
<1> QED
  BY <1>4, <1>5, <1>6, <1>11, <1>12, <1>13 DEF IInv

LEMMA BeginPreserves == ASSUME IInv, Begin PROVE IInv'
<1> DEFINE e == Event("MessageStart")
<1>1. /\ e \in SinkEvent /\ e.kind = "MessageStart" /\ source \in Source
      /\ InStep(anthropic) /\ OpenAIInStep(openai)
      /\ anthropic' = EmitAnthropic(anthropic, e)
      /\ openai' = EmitOpenAI(openai, e) /\ source' = Sent(e)
      /\ ~source.begun /\ ~anthropic.finished
  BY EventTypes DEF Begin, Feed, IInv, Kinds
<1>2. ~anthropic.started /\ ~openai.role_emitted /\ ~openai.finished
  BY <1>1, Switches DEF IInv, InTouch
<1> HIDE DEF e
<1>3. /\ source' \in Source /\ source'.grammar = source.grammar
      /\ source'.begun = TRUE /\ source'.ended = source.ended
      /\ source'.call = source.call /\ source'.last = source.last
  BY <1>1, SentParts, Switches
<1>4. /\ InStep(anthropic') /\ ~anthropic'.finished /\ anthropic'.started
      /\ anthropic'.open_block = NoBlock
      /\ anthropic'.client.stopped = anthropic.client.stopped
  BY <1>1, <1>2, StartStep DEF e
<1>5. /\ OpenAIInStep(openai') /\ ~openai'.finished /\ openai'.role_emitted
      /\ openai'.client.calls = openai.client.calls
      /\ openai'.client.finish = openai.client.finish
      /\ openai'.client.done = openai.client.done
      /\ Orderly(openai) => Orderly(openai')
  BY <1>1, <1>2, RoleChunkStep DEF e
<1>6. InTouch'
  BY <1>1, <1>3, <1>4, <1>5, Switches DEF IInv, InTouch
<1>7. CallIsOpen'
  BY <1>1, <1>3, <1>4 DEF IInv, CallsCounted, CallIsOpen, NoBlock
<1>8. CallsCounted'
  BY <1>1, <1>3, <1>5 DEF IInv, CallsCounted
<1> QED
  BY <1>3, <1>4, <1>5, <1>6, <1>7, <1>8 DEF IInv

\* What a running stream knows of itself.
LEMMA RunningStream ==
    ASSUME IInv, Running
    PROVE  /\ source \in Source /\ InStep(anthropic) /\ OpenAIInStep(openai)
           /\ ~anthropic.finished /\ ~openai.finished
           /\ anthropic.started /\ openai.role_emitted /\ source.begun
           /\ ~source.ended
<1>1. /\ source \in Source /\ InStep(anthropic) /\ OpenAIInStep(openai)
      /\ ~anthropic.finished /\ source.begun
  BY DEF IInv, Running
<1>2. ~openai.finished /\ anthropic.started /\ openai.role_emitted
  BY <1>1, Switches DEF IInv, InTouch
<1>3. ~source.ended
  BY <1>1, Switches DEF IInv, InTouch, InStep
<1> QED
  BY <1>1, <1>2, <1>3

LEMMA ProsePreserves == ASSUME IInv, Prose PROVE IInv'
<1>1. PICK kind \in {"ThinkingDelta", "TextDelta"}, blank \in BOOLEAN :
          Feed(Delta(kind, blank))
  BY DEF Prose
<1> DEFINE e == Delta(kind, blank)
<1>2. /\ e \in SinkEvent /\ e.kind = kind
      /\ anthropic' = EmitAnthropic(anthropic, e)
      /\ openai' = EmitOpenAI(openai, e) /\ source' = Sent(e)
      /\ Running /\ source.call = NoIndex
  BY <1>1, EventTypes DEF Prose, BetweenCalls, Feed, Kinds
<1> HIDE DEF e
<1>3. anthropic.open_block # "tool_use"
  BY <1>2, RunningStream DEF IInv, CallIsOpen
<1>4. /\ source' \in Source /\ source'.grammar = source.grammar
      /\ source'.begun = source.begun
      /\ source'.ended = source.ended
      /\ source'.call = source.call /\ source'.last = source.last
  BY <1>2, RunningStream, SentParts, Switches
<1>5. /\ InStep(anthropic') /\ ~anthropic'.finished
      /\ anthropic'.open_block \in {"thinking", "text"}
      /\ anthropic'.started = anthropic.started
      /\ anthropic'.client.stopped = anthropic.client.stopped
  BY <1>2, <1>3, RunningStream, DeltaStep DEF e
<1>6. /\ OpenAIInStep(openai') /\ ~openai'.finished
      /\ openai'.client = openai.client
      /\ openai'.role_emitted = openai.role_emitted
      /\ Orderly(openai) => Orderly(openai')
  BY <1>2, RunningStream, DeltaChunkStep DEF e
<1>7. InTouch'
  BY <1>4, <1>5, <1>6, RunningStream, Switches, <1>2 DEF IInv, InTouch
<1>8. CallIsOpen'
  BY <1>2, <1>4, <1>5 DEF CallIsOpen
<1>9. CallsCounted'
  BY <1>2, <1>4, <1>6, RunningStream DEF IInv, CallsCounted
<1> QED
  BY <1>4, <1>5, <1>6, <1>7, <1>8, <1>9 DEF IInv

LEMMA CallStartPreserves == ASSUME IInv, CallStart PROVE IInv'
<1>1. PICK i \in ToolIndices : CallIndex(i) /\ Feed(ToolEvent("ToolCallStart", i))
  BY DEF CallStart
<1> DEFINE e == ToolEvent("ToolCallStart", i)
<1>2. /\ e \in SinkEvent /\ e.kind = "ToolCallStart" /\ e.index = i
      /\ anthropic' = EmitAnthropic(anthropic, e)
      /\ openai' = EmitOpenAI(openai, e) /\ source' = Sent(e)
      /\ Running
  BY <1>1, EventTypes DEF CallStart, BetweenCalls, Feed, Kinds
<1> HIDE DEF e
<1>3. i \in Nat /\ i # NoIndex
  BY ToolIndicesAssumption DEF NoIndex
<1>4. /\ source' \in Source /\ source'.grammar = source.grammar
      /\ source'.begun = source.begun
      /\ source'.ended = source.ended
      /\ source'.call = i /\ source'.last = i
  BY <1>2, RunningStream, SentParts, Switches
<1>5. /\ InStep(anthropic') /\ ~anthropic'.finished
      /\ anthropic'.open_block = "tool_use" /\ anthropic'.open_block_index = i
      /\ anthropic'.started = anthropic.started
      /\ anthropic'.client.stopped = anthropic.client.stopped
  BY <1>2, RunningStream, CallStartStep DEF e
<1>6. /\ OpenAIInStep(openai') /\ ~openai'.finished
      /\ openai'.role_emitted = openai.role_emitted
      /\ openai'.client.calls = openai.client.calls \cup {i}
      /\ openai'.client.finish = openai.client.finish
      /\ openai'.client.done = openai.client.done
      /\ (Orderly(openai) /\ \A j \in openai.client.calls : j < i) => Orderly(openai')
  BY <1>2, RunningStream, CallChunkStep DEF e
<1>7. InTouch'
  BY <1>2, <1>4, <1>5, <1>6, RunningStream, Switches DEF IInv, InTouch
<1>8. CallIsOpen'
  BY <1>3, <1>4, <1>5 DEF CallIsOpen
<1>9. source.grammar = "dsml" => \A j \in openai.client.calls : j < i
  <2> SUFFICES ASSUME source.grammar = "dsml", NEW j \in openai.client.calls PROVE j < i
    OBVIOUS
  <2>1. i > source.last /\ j <= source.last
    BY <1>1 DEF IInv, CallsCounted, CallIndex
  <2>2. j \in Int /\ source.last \in Int
    <3>1. openai.client.calls \subseteq ToolIndices
      BY DEF IInv, OpenAIInStep, OpenAIStream, OpenAIReader
    <3>2. source.last \in ToolIndices \cup {NoIndex}
      BY DEF IInv, Source
    <3>3. ToolIndices \cup {NoIndex} \subseteq Int
      BY ToolIndicesAssumption DEF NoIndex
    <3>4. j \in Int
      BY <3>1, <3>3
    <3>5. source.last \in Int
      BY <3>2, <3>3
    <3> QED
      BY <3>4, <3>5
  <2> QED
    BY <1>3, <2>1, <2>2
<1>10. source.grammar = "dsml" =>
          (\A j \in openai'.client.calls : j <= source'.last) /\ Orderly(openai')
  <2> SUFFICES ASSUME source.grammar = "dsml"
               PROVE (\A j \in openai'.client.calls : j <= source'.last)
                       /\ Orderly(openai')
    OBVIOUS
  <2>1. \A j \in openai.client.calls : j < i /\ j \in Int
    <3>1. openai.client.calls \subseteq ToolIndices
      BY DEF IInv, OpenAIInStep, OpenAIStream, OpenAIReader
    <3>2. \A j \in openai.client.calls : j < i
      BY <1>9
    <3>3. ASSUME NEW j \in openai.client.calls PROVE j \in Int
      <4>1. j \in ToolIndices
        BY <3>1
      <4>2. j \in Nat
        BY <4>1, ToolIndicesAssumption
      <4> QED
        BY <4>2
    <3> QED
      BY <3>2, <3>3
  <2>2. \A j \in openai'.client.calls : j <= source'.last
    BY <1>3, <1>4, <1>6, <2>1
  <2>3. Orderly(openai')
    BY <1>6, <1>9 DEF IInv, CallsCounted
  <2> QED
    BY <2>2, <2>3
<1>11. CallsCounted'
  BY <1>4, <1>6, <1>10, RunningStream, <1>2 DEF CallsCounted
<1> QED
  BY <1>4, <1>5, <1>6, <1>7, <1>8, <1>11 DEF IInv

LEMMA CallArgsPreserves == ASSUME IInv, CallArgs PROVE IInv'
<1> DEFINE i == source.call
           e == ToolEvent("ToolCallArgsDelta", i)
<1>1. i \in ToolIndices /\ i # NoIndex /\ Running
  BY DEF CallArgs, IInv, Source
<1>2. /\ e \in SinkEvent /\ e.kind = "ToolCallArgsDelta"
      /\ anthropic' = EmitAnthropic(anthropic, e)
      /\ openai' = EmitOpenAI(openai, e) /\ source' = Sent(e)
  BY <1>1, EventTypes DEF CallArgs, Feed, Kinds
<1>3. /\ source' \in Source /\ source'.grammar = source.grammar
      /\ source'.begun = source.begun
      /\ source'.ended = source.ended
      /\ source'.call = source.call /\ source'.last = source.last
  <2> HIDE DEF e
  <2> QED
    BY <1>1, <1>2, RunningStream, SentParts, Switches
<1>4. anthropic' = anthropic
  <2>1. anthropic.open_block = "tool_use" /\ i = anthropic.open_block_index
    BY <1>1, RunningStream DEF IInv, CallIsOpen
  <2> HIDE DEF i
  <2> QED
    BY <1>1, <1>2, <2>1, RunningStream, CallArgsStep
<1>5. /\ OpenAIInStep(openai') /\ ~openai'.finished
      /\ openai'.role_emitted = openai.role_emitted
      /\ openai'.client.calls = openai.client.calls \cup {i}
      /\ openai'.client.finish = openai.client.finish
      /\ openai'.client.done = openai.client.done
      /\ Orderly(openai) => Orderly(openai')
  <2> HIDE DEF i
  <2> QED
    BY <1>1, <1>2, RunningStream, ArgsChunkStep
<1>6. openai'.client.calls = openai.client.calls
  BY <1>1, <1>5 DEF IInv, CallsCounted
<1> HIDE DEF i, e
<1>7. InTouch'
  BY <1>1, <1>3, <1>4, <1>5, RunningStream, Switches DEF IInv, InTouch
<1>8. CallIsOpen'
  BY <1>3, <1>4 DEF IInv, CallIsOpen
<1>9. CallsCounted'
  BY <1>1, <1>3, <1>5, <1>6, RunningStream DEF IInv, CallsCounted
<1> QED
  BY <1>3, <1>4, <1>5, <1>7, <1>8, <1>9 DEF IInv

LEMMA CallEndPreserves == ASSUME IInv, CallEnd PROVE IInv'
<1> DEFINE i == source.call
           e == ToolEvent("ToolCallEnd", i)
<1>1. i \in ToolIndices /\ i # NoIndex /\ Running
  BY DEF CallEnd, IInv, Source
<1>2. /\ e \in SinkEvent /\ e.kind = "ToolCallEnd"
      /\ anthropic' = EmitAnthropic(anthropic, e)
      /\ openai' = EmitOpenAI(openai, e) /\ source' = Sent(e)
  BY <1>1, EventTypes DEF CallEnd, Feed, Kinds
<1>3. /\ source' \in Source /\ source'.grammar = source.grammar
      /\ source'.begun = source.begun
      /\ source'.ended = source.ended
      /\ source'.call = NoIndex /\ source'.last = source.last
  <2> HIDE DEF e
  <2> QED
    BY <1>1, <1>2, RunningStream, SentParts, Switches
<1>4. /\ InStep(anthropic') /\ ~anthropic'.finished
      /\ anthropic'.open_block = NoBlock
      /\ anthropic'.started = anthropic.started
      /\ anthropic'.client.stopped = anthropic.client.stopped
  <2>1. anthropic.open_block = "tool_use"
    BY <1>1, RunningStream DEF IInv, CallIsOpen
  <2> HIDE DEF i
  <2> QED
    BY <1>1, <1>2, <2>1, RunningStream, CallEndStep
<1>5. openai' = openai
  BY <1>1, <1>2, RunningStream DEF EmitOpenAI, ToolEvent
<1> HIDE DEF i, e
<1>6. InTouch'
  BY <1>1, <1>3, <1>4, <1>5, RunningStream, Switches DEF IInv, InTouch
<1>7. CallIsOpen'
  BY <1>3, <1>4 DEF CallIsOpen, NoBlock
<1>8. CallsCounted'
  BY <1>1, <1>3, <1>5, RunningStream DEF IInv, CallsCounted
<1> QED
  BY <1>3, <1>4, <1>5, <1>6, <1>7, <1>8 DEF IInv

LEMMA FinishPreserves == ASSUME IInv, Finish PROVE IInv'
<1> DEFINE e == Event("MessageEnd")
<1>1. /\ e \in SinkEvent /\ e.kind = "MessageEnd"
      /\ anthropic' = EmitAnthropic(anthropic, e)
      /\ openai' = EmitOpenAI(openai, e) /\ source' = Sent(e)
      /\ Running /\ source.call = NoIndex
  BY EventTypes DEF Finish, BetweenCalls, Feed, Kinds
<1> HIDE DEF e
<1>2. /\ source' \in Source /\ source'.grammar = source.grammar
      /\ source'.begun = source.begun
      /\ source'.ended = TRUE
      /\ source'.call = source.call /\ source'.last = source.last
  BY <1>1, RunningStream, SentParts, Switches
<1>3. /\ InStep(anthropic') /\ anthropic'.finished /\ anthropic'.started
      /\ anthropic'.client.stopped
  BY <1>1, RunningStream, EndStep DEF e
<1>4. /\ OpenAIInStep(openai') /\ openai'.finished
      /\ openai'.role_emitted = openai.role_emitted
      /\ openai'.client.calls = openai.client.calls
      /\ openai'.client.finish /\ openai'.client.done
      /\ Orderly(openai) => Orderly(openai')
  BY <1>1, RunningStream, FinishChunkStep DEF e
<1>5. InTouch'
  BY <1>1, <1>2, <1>3, <1>4, RunningStream, Switches DEF IInv, InTouch
<1>6. CallIsOpen'
  BY <1>3 DEF CallIsOpen
<1>7. CallsCounted'
  BY <1>1, <1>2, <1>4, RunningStream DEF IInv, CallsCounted
<1> QED
  BY <1>2, <1>3, <1>4, <1>5, <1>6, <1>7 DEF IInv

LEMMA FailPreserves == ASSUME IInv, Fail PROVE IInv'
<1> DEFINE e == Event("SinkError")
<1>1. /\ e \in SinkEvent /\ e.kind = "SinkError"
      /\ anthropic' = EmitAnthropic(anthropic, e)
      /\ openai' = EmitOpenAI(openai, e) /\ source' = Sent(e)
      /\ Running /\ source.call = NoIndex
  BY EventTypes DEF Fail, BetweenCalls, Feed, Kinds
<1> HIDE DEF e
<1>2. /\ source' \in Source /\ source'.grammar = source.grammar
      /\ source'.begun = source.begun
      /\ source'.ended = source.ended
      /\ source'.call = source.call /\ source'.last = source.last
  BY <1>1, RunningStream, SentParts, Switches
<1>3. /\ InStep(anthropic') /\ anthropic'.finished
      /\ anthropic'.started = anthropic.started
      /\ anthropic'.client.stopped = anthropic.client.stopped
  BY <1>1, RunningStream, ErrorStep, CloseStep DEF e
<1>4. /\ OpenAIInStep(openai') /\ openai'.finished
      /\ openai'.role_emitted = openai.role_emitted
      /\ openai'.client.calls = openai.client.calls
      /\ openai'.client.finish = openai.client.finish
      /\ openai'.client.done = openai.client.done
      /\ Orderly(openai) => Orderly(openai')
  BY <1>1, RunningStream, DropChunkStep DEF e
<1>5. InTouch'
  BY <1>1, <1>2, <1>3, <1>4, RunningStream, Switches DEF IInv, InTouch
<1>6. CallIsOpen'
  BY <1>3 DEF CallIsOpen
<1>7. CallsCounted'
  BY <1>1, <1>2, <1>4, RunningStream DEF IInv, CallsCounted
<1> QED
  BY <1>2, <1>3, <1>4, <1>5, <1>6, <1>7 DEF IInv

LEMMA CancelPreserves == ASSUME IInv, Cancel PROVE IInv'
<1>1. /\ InStep(anthropic) /\ OpenAIInStep(openai) /\ source \in Source
      /\ anthropic' = CloseAnthropic(anthropic)
      /\ openai' = CloseOpenAI(openai) /\ source' = source
  BY DEF IInv, Cancel
<1>2. openai.finished <=> anthropic.finished
  BY <1>1, Switches DEF IInv, InTouch
<1>3. CASE anthropic.finished
  <2>1. anthropic' = anthropic /\ openai' = openai
    BY <1>1, <1>2, <1>3 DEF CloseAnthropic, CloseOpenAI
  <2> QED
    BY <1>1, <2>1 DEF IInv, InTouch, CallIsOpen, CallsCounted
<1>4. CASE ~anthropic.finished
  <2>1. /\ InStep(anthropic') /\ anthropic'.finished
        /\ anthropic'.started = anthropic.started
        /\ anthropic'.client.stopped = anthropic.client.stopped
    BY <1>1, <1>4, CloseStep
  <2>2. /\ OpenAIInStep(openai') /\ openai'.finished
        /\ openai'.role_emitted = openai.role_emitted
        /\ openai'.client.calls = openai.client.calls
        /\ openai'.client.finish = openai.client.finish
        /\ openai'.client.done = openai.client.done
        /\ Orderly(openai) => Orderly(openai')
    BY <1>1, <1>2, <1>4, DropChunkStep
  <2>3. InTouch'
    BY <1>1, <2>1, <2>2, Switches DEF IInv, InTouch
  <2>4. CallIsOpen'
    BY <2>1 DEF CallIsOpen
  <2>5. CallsCounted'
    BY <1>1, <2>2 DEF IInv, CallsCounted
  <2> QED
    BY <1>1, <2>1, <2>2, <2>3, <2>4, <2>5 DEF IInv
<1> QED
  BY <1>3, <1>4

LEMMA NextPreserves == ASSUME IInv, [Next]_vars PROVE IInv'
<1>1. CASE UNCHANGED vars
  BY <1>1 DEF vars, IInv, InTouch, CallIsOpen, CallsCounted
<1>2. CASE Next
  BY <1>2, BeginPreserves, ProsePreserves, CallStartPreserves, CallArgsPreserves,
     CallEndPreserves, FinishPreserves, FailPreserves, CancelPreserves DEF Next
<1> QED
  BY <1>1, <1>2

(***************************************************************************)
(* The theorems about every source the grammars are.                       *)
(***************************************************************************)

\* In every reachable state each emitter is in step with its reader and with
\* the source, whatever events the grammar sends and whenever the client goes.
THEOREM Invariance == Spec => []IInv
<1>1. Init => IInv
  BY InitEstablishes
<1>2. IInv /\ [Next]_vars => IInv'
  BY NextPreserves
<1> QED
  BY <1>1, <1>2, PTL DEF Spec

\* Emitters, readers and source keep the shape the code gives them.
THEOREM TypeCorrect == Spec => []TypeOK
<1>1. IInv => TypeOK
  BY DEF IInv, InStep, OpenAIInStep, TypeOK
<1> QED
  BY <1>1, Invariance, PTL

\* An Anthropic client never sees a block in a block or a frame out of place,
\* for any interleaving of prose, calls, errors and cancellation.
THEOREM OneBlockAtATime == Spec => []OneBlockOpen
<1>1. IInv => OneBlockOpen
  BY DEF IInv, InStep, OneBlockOpen
<1> QED
  BY <1>1, Invariance, PTL

\* However a stream is over, no block of it is left open.
THEOREM NothingLeftOpen == Spec => []FinishedIsClosed
<1>1. IInv => FinishedIsClosed
  BY DEF IInv, InStep, FinishedIsClosed
<1> QED
  BY <1>1, Invariance, PTL

\* Both kinds of client see the end of a stream, or neither does.
THEOREM SameEnding == Spec => []FrontEndsAgree
<1>1. IInv => FrontEndsAgree
  BY DEF IInv, InTouch, FrontEndsAgree
<1> QED
  BY <1>1, Invariance, PTL

\* An OpenAI client can find fault with nothing but the error object and, when
\* the grammar does not count its calls, their indices.
THEOREM ChunksStayInOrder == Spec => []ChunksInOrder
<1>1. IInv => ChunksInOrder
  <2> SUFFICES ASSUME IInv PROVE ChunksInOrder
    OBVIOUS
  <2>1. CASE source.grammar = "dsml"
    BY <2>1 DEF IInv, CallsCounted, Orderly, ChunksInOrder
  <2>2. CASE source.grammar # "dsml"
    BY <2>2 DEF IInv, OpenAIInStep, ChunksInOrder
  <2> QED
    BY <2>1, <2>2
<1> QED
  BY <1>1, Invariance, PTL

(***************************************************************************)
(* Streams whose calls came first so far.                                  *)
(***************************************************************************)

\* Every block carried the index its reader expected.  Until the first prose
\* the index of the next block is the index of the next call.
FirstInv ==
    /\ IInv
    /\ Numbered(anthropic)
    /\ source.call # NoIndex => source.call = source.last
    /\ ~anthropic.finished /\ source.begun /\ ~source.prose
         /\ source.call = NoIndex =>
           /\ anthropic.open_block = NoBlock
           /\ anthropic.block_index = source.last + 1

LEMMA FirstInitEstablishes == Init => FirstInv
<1> SUFFICES ASSUME Init PROVE FirstInv
  OBVIOUS
<1>1. IInv
  BY InitEstablishes
<1>2. /\ anthropic.open_block = NoBlock /\ anthropic.block_index = 0
      /\ anthropic.client.errors = {} /\ anthropic.client.count = 0
  BY DEF Init, NewAnthropicStream, NewAnthropicReader
<1>3. Numbered(anthropic)
  BY <1>2 DEF Numbered
<1>4. ~source.begun /\ source.call = NoIndex
  BY DEF Init
<1> QED
  BY <1>1, <1>3, <1>4 DEF FirstInv

LEMMA FirstCallStart ==
    ASSUME FirstInv, CallStart, source'.calls_first PROVE FirstInv'
<1>1. PICK i \in ToolIndices : Feed(ToolEvent("ToolCallStart", i))
  BY DEF CallStart
<1> DEFINE e == ToolEvent("ToolCallStart", i)
<1>2. /\ e \in SinkEvent /\ e.kind = "ToolCallStart" /\ e.index = i
      /\ anthropic' = EmitAnthropic(anthropic, e) /\ source' = Sent(e)
      /\ Running /\ source.call = NoIndex /\ IInv
  BY <1>1, EventTypes DEF CallStart, BetweenCalls, Feed, Kinds, FirstInv
<1>3. IInv'
  BY <1>2, CallStartPreserves
<1> HIDE DEF e
<1>4. i # NoIndex
  BY ToolIndicesAssumption DEF NoIndex
<1>5. source'.call = i /\ source'.last = i
  BY <1>2, RunningStream, SentParts
<1>6. ~source.prose /\ i = source.last + 1
  BY <1>2, RunningStream, SentParts
<1>7. anthropic.open_block = NoBlock /\ anthropic.block_index = i
  BY <1>2, <1>6, RunningStream DEF FirstInv
<1>8. close_open_block(anthropic) = anthropic
  BY <1>7 DEF close_open_block
<1>9. Numbered(anthropic')
  BY <1>2, <1>7, <1>8, RunningStream, CallStartStep DEF e, FirstInv
<1> QED
  BY <1>3, <1>4, <1>5, <1>9 DEF FirstInv

LEMMA FirstCallEnd == ASSUME FirstInv, CallEnd PROVE FirstInv'
<1> DEFINE i == source.call
           e == ToolEvent("ToolCallEnd", i)
<1>1. i \in ToolIndices /\ i # NoIndex /\ Running /\ IInv /\ i = source.last
  BY DEF CallEnd, FirstInv, IInv, Source
<1>2. /\ e \in SinkEvent /\ e.kind = "ToolCallEnd"
      /\ anthropic' = EmitAnthropic(anthropic, e) /\ source' = Sent(e)
  BY <1>1, EventTypes DEF CallEnd, Feed, Kinds
<1>3. IInv'
  BY <1>1, CallEndPreserves
<1>4. source'.call = NoIndex /\ source'.last = source.last
  <2> HIDE DEF e
  <2> QED
    BY <1>1, <1>2, RunningStream, SentParts
<1>5. anthropic.open_block = "tool_use" /\ anthropic.open_block_index = i
  BY <1>1, RunningStream DEF IInv, CallIsOpen
<1>6. /\ anthropic'.open_block = NoBlock /\ anthropic'.block_index = i + 1
      /\ Numbered(anthropic')
  <2> HIDE DEF i
  <2> QED
    BY <1>1, <1>2, <1>5, RunningStream, CallEndStep DEF FirstInv
<1> QED
  BY <1>1, <1>3, <1>4, <1>6 DEF FirstInv

LEMMA FirstPreserves ==
    ASSUME FirstInv, [Next]_vars, source'.calls_first PROVE FirstInv'
<1>1. CASE UNCHANGED vars
  BY <1>1, NextPreserves DEF vars, FirstInv
<1>2. CASE Begin
  <2> DEFINE e == Event("MessageStart")
  <2>1. /\ e \in SinkEvent /\ e.kind = "MessageStart" /\ source \in Source
        /\ anthropic' = EmitAnthropic(anthropic, e) /\ source' = Sent(e)
        /\ ~source.begun /\ ~anthropic.finished /\ IInv /\ InStep(anthropic)
        /\ OpenAIInStep(openai)
    BY <1>2, EventTypes DEF Begin, Feed, FirstInv, IInv, Kinds
  <2>2. ~anthropic.started
    BY <2>1, Switches DEF IInv, InTouch
  <2>3. /\ anthropic'.open_block = NoBlock /\ anthropic'.block_index = 0
        /\ Numbered(anthropic')
    BY <2>1, <2>2, StartStep DEF FirstInv
  <2> HIDE DEF e
  <2>4. source'.call = NoIndex /\ source'.last = NoIndex
    BY <2>1, SentParts DEF IInv, CallsCounted
  <2>5. IInv'
    BY <1>2, <2>1, BeginPreserves
  <2> QED
    BY <2>3, <2>4, <2>5 DEF FirstInv, NoIndex
<1>3. CASE Prose
  <2>1. PICK kind \in {"ThinkingDelta", "TextDelta"}, blank \in BOOLEAN :
            Feed(Delta(kind, blank))
    BY <1>3 DEF Prose
  <2> DEFINE e == Delta(kind, blank)
  <2>2. /\ e \in SinkEvent /\ e.kind = kind
        /\ anthropic' = EmitAnthropic(anthropic, e) /\ source' = Sent(e)
        /\ Running /\ source.call = NoIndex /\ IInv
    BY <1>3, <2>1, EventTypes DEF Prose, BetweenCalls, Feed, Kinds, FirstInv
  <2> HIDE DEF e
  <2>3. source'.prose = TRUE /\ source'.call = NoIndex
    BY <2>2, RunningStream, SentParts, Switches
  <2>4. anthropic.open_block # "tool_use"
    BY <2>2, RunningStream DEF IInv, CallIsOpen
  <2>5. Numbered(anthropic')
    BY <2>2, <2>4, RunningStream, DeltaStep DEF e, FirstInv
  <2>6. IInv'
    BY <1>3, <2>2, ProsePreserves
  <2> QED
    BY <2>3, <2>5, <2>6 DEF FirstInv
<1>4. CASE CallStart
  BY <1>4, FirstCallStart
<1>5. CASE CallArgs
  <2> DEFINE i == source.call
             e == ToolEvent("ToolCallArgsDelta", i)
  <2>1. i \in ToolIndices /\ i # NoIndex /\ Running /\ IInv
    BY <1>5 DEF CallArgs, FirstInv, IInv, Source
  <2>2. /\ e \in SinkEvent /\ e.kind = "ToolCallArgsDelta"
        /\ anthropic' = EmitAnthropic(anthropic, e) /\ source' = Sent(e)
    BY <1>5, <2>1, EventTypes DEF CallArgs, Feed, Kinds
  <2>3. source'.call = source.call /\ source'.last = source.last
    <3> HIDE DEF e
    <3> QED
      BY <2>1, <2>2, RunningStream, SentParts
  <2>4. anthropic' = anthropic
    <3>1. anthropic.open_block = "tool_use" /\ i = anthropic.open_block_index
      BY <2>1, RunningStream DEF IInv, CallIsOpen
    <3> HIDE DEF i
    <3> QED
      BY <2>1, <2>2, <3>1, RunningStream, CallArgsStep
  <2>5. IInv'
    BY <1>5, <2>1, CallArgsPreserves
  <2> QED
    BY <2>1, <2>3, <2>4, <2>5 DEF FirstInv
<1>6. CASE CallEnd
  BY <1>6, FirstCallEnd
<1>7. CASE Finish
  <2> DEFINE e == Event("MessageEnd")
  <2>1. /\ e \in SinkEvent /\ e.kind = "MessageEnd"
        /\ anthropic' = EmitAnthropic(anthropic, e) /\ source' = Sent(e)
        /\ Running /\ source.call = NoIndex /\ IInv
    BY <1>7, EventTypes DEF Finish, BetweenCalls, Feed, Kinds, FirstInv
  <2>2. anthropic'.finished /\ Numbered(anthropic')
    BY <2>1, RunningStream, EndStep DEF FirstInv
  <2> HIDE DEF e
  <2>3. source'.call = NoIndex
    BY <2>1, RunningStream, SentParts
  <2>4. IInv'
    BY <1>7, <2>1, FinishPreserves
  <2> QED
    BY <2>2, <2>3, <2>4 DEF FirstInv
<1>8. CASE Fail
  <2> DEFINE e == Event("SinkError")
  <2>1. /\ e \in SinkEvent /\ e.kind = "SinkError"
        /\ anthropic' = EmitAnthropic(anthropic, e) /\ source' = Sent(e)
        /\ Running /\ source.call = NoIndex /\ IInv
    BY <1>8, EventTypes DEF Fail, BetweenCalls, Feed, Kinds, FirstInv
  <2>2. anthropic'.finished /\ Numbered(anthropic')
    BY <2>1, RunningStream, ErrorStep, CloseStep DEF FirstInv
  <2> HIDE DEF e
  <2>3. source'.call = NoIndex
    BY <2>1, RunningStream, SentParts
  <2>4. IInv'
    BY <1>8, <2>1, FailPreserves
  <2> QED
    BY <2>2, <2>3, <2>4 DEF FirstInv
<1>9. CASE Cancel
  <2>1. /\ InStep(anthropic) /\ anthropic' = CloseAnthropic(anthropic)
        /\ source' = source /\ IInv
    BY <1>9 DEF FirstInv, IInv, Cancel
  <2>2. IInv'
    BY <1>9, <2>1, CancelPreserves
  <2>3. CASE anthropic.finished
    <3>1. anthropic' = anthropic
      BY <2>1, <2>3 DEF CloseAnthropic
    <3> QED
      BY <2>1, <2>2, <3>1 DEF FirstInv
  <2>4. CASE ~anthropic.finished
    <3>1. anthropic'.finished /\ Numbered(anthropic')
      BY <2>1, <2>4, CloseStep DEF FirstInv
    <3> QED
      BY <2>1, <2>2, <3>1 DEF FirstInv
  <2> QED
    BY <2>3, <2>4
<1> QED
  BY <1>1, <1>2, <1>3, <1>4, <1>5, <1>6, <1>7, <1>8, <1>9
     DEF Next

\* A stream in which a call came late stays one.
LEMMA OnceLateAlwaysLate ==
    ASSUME source \in Source, [Next]_vars, source'.calls_first
    PROVE  source.calls_first
<1>1. ASSUME NEW event, Feed(event) PROVE source.calls_first
  BY <1>1 DEF Feed, Sent, Source
<1>2. CASE Cancel \/ UNCHANGED vars
  BY <1>2 DEF Cancel, vars
<1> QED
  BY <1>1, <1>2
     DEF Next, Begin, Prose, CallStart, CallArgs, CallEnd, Finish, Fail

\* A stream whose calls come first, numbered from 0, is a valid Anthropic
\* stream to its last frame, for any number of calls and deltas.
THEOREM CallsFirstAreValid == Spec => []ValidWhenCallsComeFirst
<1>1. Init => IInv /\ (source.calls_first => FirstInv)
  BY FirstInitEstablishes DEF FirstInv
<1>2. IInv /\ (source.calls_first => FirstInv) /\ [Next]_vars
         => (IInv /\ (source.calls_first => FirstInv))'
  BY NextPreserves, FirstPreserves, OnceLateAlwaysLate DEF IInv
<1>3. IInv /\ (source.calls_first => FirstInv) => ValidWhenCallsComeFirst
  <2> SUFFICES ASSUME FirstInv, source.calls_first PROVE ValidWhenCallsComeFirst
    BY DEF ValidWhenCallsComeFirst
  <2> DEFINE r == anthropic.client
  <2>1. r.errors = {} /\ InStep(anthropic) /\ IInv
    BY DEF FirstInv, Numbered, IInv
  <2>2. ASSUME source.ended PROVE AnthropicVerdict(r) = {}
    <3>1. r.stopped
      BY <2>1, <2>2 DEF IInv, InTouch
    <3>2. anthropic.finished
      BY <2>1, <3>1 DEF InStep
    <3>3. r.open = NoIndex
      BY <2>1, <3>2 DEF InStep
    <3>4. /\ Unless(r.open = NoIndex, "unclosed block") = {}
          /\ Unless(r.started => r.stopped, "no message_stop") = {}
      BY <3>1, <3>3 DEF Unless
    <3> QED
      BY <2>1, <3>4 DEF AnthropicVerdict
  <2> QED
    BY <2>1, <2>2 DEF ValidWhenCallsComeFirst
<1> QED
  BY <1>1, <1>2, <1>3, PTL DEF Spec
=============================================================================
