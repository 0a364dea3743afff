---------------------------- MODULE PipelineProofs ----------------------------
(***************************************************************************)
(* The grammars in front of the emitters implement the abstract source the *)
(* emitters were proved against: whatever the provider says, and wherever  *)
(* its text is cut, what is handed over is a legal stream of SinkEvents.   *)
(* Everything EmitterProofs shows then holds behind the real scanners.     *)
(*                                                                         *)
(* What has been yielded and not handed over is always the rest of one     *)
(* legal group of events: prose, the end, an error, or a call of which the *)
(* start, the arguments or the end comes next.  A grammar that counts has  *)
(* counted past every call it yielded.                                     *)
(*                                                                         *)
(* The second half is about the text.  What was shown, what is yielded,    *)
(* what is held of a fence and what was not looked at are always, one      *)
(* behind the other, what was heard with pieces left out; and while no     *)
(* chunk ends in a fence, with no word and no call left out.               *)
(***************************************************************************)
EXTENDS GrammarPipeline, EmitterProofs, SequenceLemmas, FiniteSetTheorems

NothingDue == pending = <<>> /\ source.call = NoIndex

ProseDue ==
    /\ source.call = NoIndex
    /\ \E blank \in BOOLEAN : pending[1].event = Delta("TextDelta", blank)
    /\ \/ pending = <<pending[1]>>
       \/ /\ pending = <<pending[1], pending[2]>>
          /\ pending[2].event = Event("MessageEnd")

EndDue ==
    /\ source.call = NoIndex
    /\ pending = <<pending[1]>>
    /\ pending[1].event \in {Event("MessageEnd"), Event("SinkError")}

CallDue ==
    /\ source.call = NoIndex
    /\ \E i \in ToolIndices :
           /\ pending = CallEvents(i)
           /\ CallIndex(i)
           /\ source.grammar = "dsml" => i < scanner.index

ArgsDue == source.call # NoIndex /\ pending = Tail(CallEvents(source.call))

CallEndDue ==
    source.call # NoIndex /\ pending = Tail(Tail(CallEvents(source.call)))

Due == NothingDue \/ ProseDue \/ EndDue \/ CallDue \/ ArgsDue \/ CallEndDue

ScannerCounts ==
    /\ "index" \in DOMAIN scanner
    /\ scanner.index \in Nat
    /\ source.grammar = "dsml" => source.last < scanner.index

PipelineInv ==
    /\ IInv
    /\ ScannerCounts
    /\ ~anthropic.finished => Due

(***************************************************************************)
(* What the scanners do.                                                   *)
(***************************************************************************)

\* The three events of a call, and what is left of them.
LEMMA CallParts ==
    ASSUME NEW i
    PROVE  /\ CallEvents(i) # <<>>
           /\ Head(CallEvents(i)).event = ToolEvent("ToolCallStart", i)
           /\ Tail(CallEvents(i)) # <<>>
           /\ Head(Tail(CallEvents(i))).event = ToolEvent("ToolCallArgsDelta", i)
           /\ Tail(Tail(CallEvents(i))) # <<>>
           /\ Head(Tail(Tail(CallEvents(i)))).event = ToolEvent("ToolCallEnd", i)
           /\ Tail(Tail(Tail(CallEvents(i)))) = <<>>
BY DEF CallEvents, Yielded

\* A turn of either loop yields nothing, one piece of text, or one call.
IsTurn(turn, i) ==
    \/ turn.out = <<>>
    \/ \E text : turn.out = <<TextEvent(text)>>
    \/ turn.out = CallEvents(i)

\* What a candidate becomes is one of the three.
LEMMA ContentParsed ==
    ASSUME NEW g, NEW content, NEW i
    PROVE  IsTurn(Turn(g, ParseContent(content, i)), i)
<1>1. Turn(g, ParseContent(content, i)).out = ParseContent(content, i)
  BY DEF Turn
<1> QED
  BY <1>1 DEF ParseContent, IsTurn

\* So is what a text between braces becomes.
LEMMA BracesParsed ==
    ASSUME NEW g, NEW content
    PROVE  IsTurn(Turn(g, TryParse(content)), 0)
<1>1. Turn(g, TryParse(content)).out = TryParse(content)
  BY DEF Turn
<1> QED
  BY <1>1 DEF TryParse, IsTurn

\* The two parts of a turn: the scanner behind it, and what it yields.
LEMMA TurnIs ==
    ASSUME NEW h, NEW out
    PROVE  Turn(h, out).scanner = h /\ Turn(h, out).out = out
BY DEF Turn

\* DSMLGrammar yields a call only where it closes a fence, and counts it.
LEMMA DSMLTurn ==
    ASSUME NEW g, "index" \in DOMAIN g, g.index \in Nat, NEW turn, turn = ScanDSML(g)
    PROVE  /\ "index" \in DOMAIN turn.scanner
           /\ \/ turn.scanner.index = g.index /\ ~\E i : turn.out = CallEvents(i)
              \/ turn.scanner.index = g.index + 1
           /\ IsTurn(turn, g.index)
<1>0. \A text, i : <<TextEvent(text)>> # CallEvents(i) /\ <<>> # CallEvents(i)
  BY DEF CallEvents
<1>1. CASE g.in_fence
  <2> DEFINE ends == FenceEnds(g.buffer)
  <2>1. CASE ends = {}
    <3> DEFINE h == [g EXCEPT !.accumulated = @ \o g.buffer, !.buffer = <<>>,
                              !.scanning = FALSE]
    <3>1. turn = Turn(h, <<>>)
      BY <1>1, <2>1 DEF ScanDSML, InsideFence
    <3>2. "index" \in DOMAIN h /\ h.index = g.index
      OBVIOUS
    <3> HIDE DEF h
    <3> QED
      BY <1>0, <3>1, <3>2, TurnIs DEF IsTurn
  <2>2. CASE ends # {}
    <3>1. PICK k, more :
             turn = Turn([g EXCEPT !.buffer = Suffix(@, k), !.in_fence = FALSE,
                                   !.index = @ + 1, !.current_tool = FALSE,
                                   !.accumulated = <<>>, !.scanning = more],
                         ParseContent(Prefix(g.buffer, k - 1), g.index))
      BY <1>1, <2>2 DEF ScanDSML, InsideFence
    <3> DEFINE h == [g EXCEPT !.buffer = Suffix(@, k), !.in_fence = FALSE,
                              !.index = @ + 1, !.current_tool = FALSE,
                              !.accumulated = <<>>, !.scanning = more]
    <3>2. "index" \in DOMAIN h /\ h.index = g.index + 1
      OBVIOUS
    <3>3. turn = Turn(h, ParseContent(Prefix(g.buffer, k - 1), g.index))
      BY <3>1
    <3> HIDE DEF h
    <3>4. IsTurn(turn, g.index)
      BY <3>3, ContentParsed
    <3> QED
      BY <3>2, <3>3, <3>4, TurnIs
  <2> QED
    BY <2>1, <2>2
<1>2. CASE ~g.in_fence
  <2> DEFINE starts == FenceStarts(g.buffer)
  <2>1. CASE starts = {}
    <3> DEFINE h == [g EXCEPT !.buffer = <<>>, !.scanning = FALSE]
    <3>1. turn = Turn(h, <<TextEvent(g.buffer)>>)
      BY <1>2, <2>1 DEF ScanDSML, OutsideFence
    <3>2. "index" \in DOMAIN h /\ h.index = g.index
      OBVIOUS
    <3> HIDE DEF h
    <3> QED
      BY <1>0, <3>1, <3>2, TurnIs DEF IsTurn
  <2>2. CASE starts # {}
    <3>1. PICK k, more :
             turn = Turn([g EXCEPT !.buffer = Suffix(@, k + 1), !.in_fence = TRUE,
                                   !.current_tool = TRUE, !.accumulated = <<>>,
                                   !.scanning = more],
                  IF k = 1 THEN <<>> ELSE <<TextEvent(Prefix(g.buffer, k - 1))>>)
      BY <1>2, <2>2 DEF ScanDSML, OutsideFence
    <3> DEFINE h == [g EXCEPT !.buffer = Suffix(@, k + 1), !.in_fence = TRUE,
                              !.current_tool = TRUE, !.accumulated = <<>>,
                              !.scanning = more]
    <3>2. "index" \in DOMAIN h /\ h.index = g.index
      OBVIOUS
    <3>3. \/ turn = Turn(h, <<>>)
          \/ turn = Turn(h, <<TextEvent(Prefix(g.buffer, k - 1))>>)
      BY <3>1
    <3> HIDE DEF h
    <3> QED
      BY <1>0, <3>2, <3>3, TurnIs DEF IsTurn
  <2> QED
    BY <2>1, <2>2
<1> QED
  BY <1>1, <1>2

\* FreeTextGrammar numbers every call 0, and leaves the count alone.
LEMMA FreeTextTurn ==
    ASSUME NEW g, "index" \in DOMAIN g, g.index \in Nat,
           NEW turn, turn = ScanFreeText(g)
    PROVE  /\ "index" \in DOMAIN turn.scanner
           /\ turn.scanner.index = g.index
           /\ IsTurn(turn, 0)
<1> DEFINE Closed(k, more) == [g EXCEPT !.buffer = Suffix(@, k), !.depth = 0,
                                        !.scanning = more]
           Emptied == [g EXCEPT !.buffer = <<>>, !.scanning = FALSE]
           Kept(d, from) == [g EXCEPT !.depth = d, !.start = from, !.scanning = FALSE]
<1>1. \/ \E k, from, more :
            turn = Turn(Closed(k, more), TryParse(SubSeq(g.buffer, from, k)))
      \/ turn = Turn(Emptied, <<TextEvent(g.buffer)>>)
      \/ \E d, from : turn = Turn(Kept(d, from), <<>>)
  BY DEF ScanFreeText
<1>2. /\ \A k, more : "index" \in DOMAIN Closed(k, more)
                         /\ Closed(k, more).index = g.index
      /\ "index" \in DOMAIN Emptied /\ Emptied.index = g.index
      /\ \A d, from : "index" \in DOMAIN Kept(d, from) /\ Kept(d, from).index = g.index
  OBVIOUS
<1> HIDE DEF Closed, Emptied, Kept
<1> QED
  BY <1>1, <1>2, BracesParsed, TurnIs DEF IsTurn

(***************************************************************************)
(* Each step of the pipeline is a step of the abstract source, or none.    *)
(***************************************************************************)

\* A client that went away is told nothing more.
LEMMA CancelEnds == ASSUME IInv, Cancel PROVE anthropic'.finished
<1>1. anthropic \in AnthropicStream /\ anthropic' = CloseAnthropic(anthropic)
  BY DEF IInv, InStep, Cancel
<1>2. CASE anthropic.finished
  BY <1>1, <1>2 DEF CloseAnthropic
<1>3. CASE ~anthropic.finished
  <2>1. "finished" \in DOMAIN close_open_block(anthropic)
    BY <1>1 DEF close_open_block, AnthropicStream
  <2> QED
    BY <1>1, <1>3, <2>1 DEF CloseAnthropic
<1> QED
  BY <1>2, <1>3

\* While nothing waits to be handed over, no call is half sent.
LEMMA NothingHalfSent ==
    ASSUME Due, pending = <<>>
    PROVE  source.call = NoIndex
BY CallParts DEF Due, NothingDue, ProseDue, EndDue, CallDue, ArgsDue, CallEndDue

\* Nothing was heard, and nothing is due.
LEMMA PipelineInitEstablishes == PipelineInit => PipelineInv
<1> SUFFICES ASSUME PipelineInit PROVE PipelineInv
  OBVIOUS
<1>1. Init /\ IInv
  BY InitEstablishes DEF PipelineInit
<1>2. ScannerCounts
  BY <1>1 DEF PipelineInit, ScannerCounts, NewScanner, Init, NoIndex
<1>3. Due
  BY <1>1 DEF PipelineInit, Due, NothingDue, Init
<1> QED
  BY <1>1, <1>2, <1>3 DEF PipelineInv

\* Where the source and the scanner are once an event was fed that starts no
\* call.
LEMMA FedOther ==
    ASSUME IInv, ScannerCounts, scanner' = scanner,
           NEW event \in SinkEvent, event.kind # "ToolCallStart", Feed(event)
    PROVE  /\ ScannerCounts' /\ source'.grammar = source.grammar
           /\ source'.call = IF event.kind = "ToolCallEnd" THEN NoIndex
                             ELSE source.call
<1>1. source \in Source /\ source' = Sent(event)
  BY DEF IInv, Feed
<1>2. source'.grammar = source.grammar /\ source'.last = source.last
  BY <1>1, SentParts
<1>3. source'.call = IF event.kind = "ToolCallEnd" THEN NoIndex ELSE source.call
  BY <1>1, SentParts
<1> QED
  BY <1>2, <1>3 DEF ScannerCounts

\* The rest of a group of events is a group of its own.
LEMMA HandOverSteps ==
    ASSUME ToolIndices = Nat, PipelineInv, HandOver
    PROVE  Next /\ ScannerCounts' /\ (~anthropic'.finished => Due')
<1>1. /\ IInv /\ ScannerCounts /\ Running /\ Due /\ pending # <<>>
      /\ Feed(Head(pending).event) /\ pending' = Tail(pending) /\ scanner' = scanner
  BY DEF HandOver, PipelineInv, Running
<1>2. source \in Source
  BY <1>1 DEF IInv
<1>3. CASE ProseDue
  <2>1. Head(pending) = pending[1]
    BY <1>3 DEF ProseDue
  <2>0. PICK blank \in BOOLEAN : pending[1].event = Delta("TextDelta", blank)
    BY <1>3 DEF ProseDue
  <2>2. Feed(Delta("TextDelta", blank)) /\ Prose
    BY <1>1, <1>3, <2>0, <2>1 DEF ProseDue, Prose, BetweenCalls
  <2>3. Delta("TextDelta", blank) \in SinkEvent
        /\ Delta("TextDelta", blank).kind = "TextDelta"
    BY EventTypes DEF Kinds
  <2>4. ScannerCounts' /\ source'.call = NoIndex
    BY <1>1, <1>3, <2>2, <2>3, FedOther DEF ProseDue
  <2>5. CASE pending = <<pending[1]>>
    <3>1. pending' = <<>>
      BY <1>1, <2>5
    <3> QED
      BY <2>2, <2>4, <3>1 DEF Due, NothingDue, Next
  <2>6. CASE pending = <<pending[1], pending[2]>>
             /\ pending[2].event = Event("MessageEnd")
    <3>0. PICK a, b : pending = <<a, b>> /\ b = pending[2]
      BY <2>6
    <3>1. pending' = <<pending[2]>>
      BY <1>1, <3>0
    <3>2. pending' = <<pending[1]>>' /\ pending[1]' = pending[2]
      BY <3>1
    <3>3. EndDue'
      BY <2>4, <2>6, <3>2 DEF EndDue
    <3> QED
      BY <2>2, <2>4, <3>3 DEF Due, Next
  <2> QED
    BY <1>3, <2>5, <2>6 DEF ProseDue
<1>4. CASE EndDue
  <2>0. PICK last : pending = <<last>> /\ last = pending[1]
    BY <1>4 DEF EndDue
  <2>1. Head(pending) = pending[1] /\ pending' = <<>>
    BY <1>1, <2>0
  <2>6. \/ Head(pending).event = Event("MessageEnd")
        \/ Head(pending).event = Event("SinkError")
    BY <1>4, <2>1 DEF EndDue
  <2>2. PICK kind \in {"MessageEnd", "SinkError"} : Feed(Event(kind))
    BY <1>1, <2>6
  <2>3. Finish \/ Fail
    BY <1>1, <1>4, <2>2 DEF EndDue, Finish, Fail, BetweenCalls
  <2>4. Event(kind) \in SinkEvent /\ Event(kind).kind = kind
    BY EventTypes DEF Kinds
  <2>5. ScannerCounts' /\ source'.call = NoIndex
    BY <1>1, <1>4, <2>2, <2>4, FedOther DEF EndDue
  <2> QED
    BY <2>1, <2>3, <2>5 DEF Due, NothingDue, Next
<1>5. CASE CallDue
  <2>1. PICK i \in ToolIndices :
            /\ pending = CallEvents(i) /\ CallIndex(i)
            /\ source.grammar = "dsml" => i < scanner.index
    BY <1>5 DEF CallDue
  <2>2. Feed(ToolEvent("ToolCallStart", i))
    BY <1>1, <2>1, CallParts
  <2>3. CallStart
    BY <1>1, <1>5, <2>1, <2>2 DEF CallDue, CallStart, BetweenCalls
  <2>4. /\ ToolEvent("ToolCallStart", i) \in SinkEvent
        /\ ToolEvent("ToolCallStart", i).kind = "ToolCallStart"
        /\ ToolEvent("ToolCallStart", i).index = i
    BY EventTypes DEF Kinds
  <2>5. source' = Sent(ToolEvent("ToolCallStart", i))
    BY <2>2 DEF Feed
  <2>6. /\ source'.grammar = source.grammar
        /\ source'.call = i /\ source'.last = i
    BY <1>2, <2>4, <2>5, SentParts
  <2>7. ScannerCounts'
    BY <1>1, <2>1, <2>6 DEF ScannerCounts
  <2>8. i \in Nat /\ i # NoIndex
    BY NotNone
  <2>9. ArgsDue'
    BY <1>1, <2>1, <2>6, <2>8 DEF ArgsDue
  <2> QED
    BY <2>3, <2>7, <2>9 DEF Due, Next
<1>6. CASE ArgsDue
  <2> DEFINE i == source.call
  <2>1. Feed(ToolEvent("ToolCallArgsDelta", i)) /\ CallArgs
    BY <1>1, <1>6, CallParts DEF ArgsDue, CallArgs
  <2>2. i \in ToolIndices
    BY <1>2, <1>6 DEF ArgsDue, Source
  <2>3. /\ ToolEvent("ToolCallArgsDelta", i) \in SinkEvent
        /\ ToolEvent("ToolCallArgsDelta", i).kind = "ToolCallArgsDelta"
    BY <2>2, EventTypes DEF Kinds
  <2>4. ScannerCounts' /\ source'.call = i
    BY <1>1, <2>1, <2>3, FedOther
  <2>5. CallEndDue'
    BY <1>1, <1>6, <2>4 DEF ArgsDue, CallEndDue
  <2> QED
    BY <2>1, <2>4, <2>5 DEF Due, Next
<1>7. CASE CallEndDue
  <2> DEFINE i == source.call
  <2>1. Feed(ToolEvent("ToolCallEnd", i)) /\ CallEnd
    BY <1>1, <1>7, CallParts DEF CallEndDue, CallEnd
  <2>2. i \in ToolIndices
    BY <1>2, <1>7 DEF CallEndDue, Source
  <2>3. /\ ToolEvent("ToolCallEnd", i) \in SinkEvent
        /\ ToolEvent("ToolCallEnd", i).kind = "ToolCallEnd"
    BY <2>2, EventTypes DEF Kinds
  <2>4. ScannerCounts' /\ source'.call = NoIndex
    BY <1>1, <2>1, <2>3, FedOther
  <2>5. pending' = <<>>
    BY <1>1, <1>7, CallParts DEF CallEndDue
  <2> QED
    BY <2>1, <2>4, <2>5 DEF Due, NothingDue, Next
<1> QED
  BY <1>1, <1>3, <1>4, <1>5, <1>6, <1>7 DEF Due, NothingDue

\* A turn of the scanner, the end of the text and an error feed nothing, and
\* leave a legal group of events to hand over.
LEMMA ScanSteps ==
    ASSUME ToolIndices = Nat, PipelineInv, Scan
    PROVE  UNCHANGED vars /\ ScannerCounts' /\ Due'
<1> DEFINE turn == IF source.grammar = "dsml" THEN ScanDSML(scanner)
                   ELSE ScanFreeText(scanner)
<1>1. /\ UNCHANGED vars /\ scanner' = turn.scanner /\ pending' = turn.out
      /\ Due /\ pending = <<>> /\ ScannerCounts /\ source \in Source
  BY DEF Scan, PipelineInv, Running, IInv
<1>2. /\ source.call = NoIndex /\ source' = source
      /\ source.grammar \in {"dsml", "free_text"}
  BY <1>1, NothingHalfSent DEF vars, Source, Grammars
<1>3. PICK i \in Nat :
          /\ IsTurn(turn, i)
          /\ turn.out = CallEvents(i) => CallIndex(i)
          /\ turn.out = CallEvents(i) /\ source.grammar = "dsml" =>
                 i < turn.scanner.index
  <2>1. CASE source.grammar = "dsml"
    <3>1. turn = ScanDSML(scanner)
      BY <2>1
    <3> HIDE DEF turn
    <3>2. IsTurn(turn, scanner.index)
      BY <1>1, <3>1, DSMLTurn DEF ScannerCounts
    <3>3. turn.out = CallEvents(scanner.index) =>
              turn.scanner.index = scanner.index + 1
      BY <1>1, <3>1, DSMLTurn DEF ScannerCounts
    <3>4. CallIndex(scanner.index)
      BY <1>1, <2>1 DEF CallIndex, ScannerCounts, Source
    <3>5. scanner.index \in Nat
      BY <1>1 DEF ScannerCounts
    <3> QED
      BY <3>2, <3>3, <3>4, <3>5
  <2>2. CASE source.grammar = "free_text"
    <3>1. turn = ScanFreeText(scanner)
      BY <2>2
    <3> HIDE DEF turn
    <3>2. IsTurn(turn, 0)
      BY <1>1, <3>1, FreeTextTurn DEF ScannerCounts
    <3>3. CallIndex(0)
      BY <2>2 DEF CallIndex
    <3> QED
      BY <2>2, <3>2, <3>3
  <2> QED
    BY <1>2, <2>1, <2>2
<1>4. ScannerCounts'
  <2>1. CASE source.grammar = "dsml"
    <3>1. turn = ScanDSML(scanner)
      BY <2>1
    <3> HIDE DEF turn
    <3>2. /\ "index" \in DOMAIN turn.scanner
          /\ turn.scanner.index \in {scanner.index, scanner.index + 1}
      BY <1>1, <3>1, DSMLTurn DEF ScannerCounts
    <3> QED
      BY <1>1, <1>2, <3>2 DEF ScannerCounts, Source, NoIndex
  <2>2. CASE source.grammar = "free_text"
    <3>1. turn = ScanFreeText(scanner)
      BY <2>2
    <3> HIDE DEF turn
    <3>2. "index" \in DOMAIN turn.scanner /\ turn.scanner.index = scanner.index
      BY <1>1, <3>1, FreeTextTurn DEF ScannerCounts
    <3> QED
      BY <1>1, <1>2, <2>2, <3>2 DEF ScannerCounts
  <2> QED
    BY <1>2, <2>1, <2>2
<1> HIDE DEF turn
<1>5. CASE turn.out = <<>>
  BY <1>1, <1>2, <1>4, <1>5 DEF Due, NothingDue
<1>6. CASE \E text : turn.out = <<TextEvent(text)>>
  <2>1. PICK text : pending' = <<TextEvent(text)>>
    BY <1>1, <1>6
  <2>2. pending[1]' = TextEvent(text)
    BY <2>1
  <2>3. TextEvent(text).event = Delta("TextDelta", text = <<>>)
        /\ (text = <<>>) \in BOOLEAN
    BY DEF TextEvent, Yielded
  <2>4. ProseDue'
    BY <1>2, <2>1, <2>2, <2>3 DEF ProseDue
  <2> QED
    BY <1>1, <1>4, <2>4 DEF Due
<1>7. CASE turn.out = CallEvents(i)
  <2>1. CallIndex(i)'
    BY <1>2, <1>3, <1>7 DEF CallIndex
  <2>2. CallDue'
    BY <1>1, <1>2, <1>3, <1>7, <2>1 DEF CallDue
  <2> QED
    BY <1>1, <1>4, <2>2 DEF Due
<1> QED
  BY <1>3, <1>5, <1>6, <1>7 DEF IsTurn

\* Behind one event comes another.
LEMMA OneMore == ASSUME NEW a, NEW b PROVE Append(<<a>>, b) = <<a, b>>
<1> DEFINE s == Append(<<a>>, b)
           t == <<a, b>>
<1>1. <<a>> \in Seq({a, b}) /\ t \in Seq({a, b}) /\ b \in {a, b}
  OBVIOUS
<1>2. s \in Seq({a, b}) /\ Len(s) = 2 /\ s[1] = a /\ s[2] = b
  BY <1>1, AppendProperties
<1>3. Len(t) = 2 /\ t[1] = a /\ t[2] = b
  OBVIOUS
<1> HIDE DEF s, t
<1>4. \A i \in 1 .. Len(s) : s[i] = t[i]
  BY <1>2, <1>3
<1>5. s = t
  BY <1>1, <1>2, <1>3, <1>4, SeqEqual
<1> QED
  BY <1>5 DEF s, t

\* The flush, and MessageEnd behind it.
LEMMA HearEndSteps ==
    ASSUME PipelineInv, HearEnd
    PROVE  UNCHANGED vars /\ ScannerCounts' /\ Due'
<1> DEFINE flush == IF source.grammar = "dsml" THEN FlushDSML(scanner)
                    ELSE Turn(scanner, <<>>)
           end == Yielded(Event("MessageEnd"), <<>>)
<1>1. /\ UNCHANGED vars /\ scanner' = flush.scanner /\ pending' = Append(flush.out, end)
      /\ Due /\ pending = <<>> /\ ScannerCounts
  BY DEF HearEnd, PipelineInv, Waiting, Running
<1>2. source.call = NoIndex /\ source' = source
  BY <1>1, NothingHalfSent DEF vars
<1>3. /\ "index" \in DOMAIN flush.scanner /\ flush.scanner.index = scanner.index
      /\ flush.out = <<>> \/ \E text : flush.out = <<TextEvent(text)>>
  <2> DEFINE h == [scanner EXCEPT !.in_fence = FALSE, !.current_tool = FALSE,
                                  !.accumulated = <<>>]
  <2>1. "index" \in DOMAIN h /\ h.index = scanner.index
    BY <1>1 DEF ScannerCounts
  <2>2. \/ flush = Turn(scanner, <<>>)
        \/ flush = Turn(h, <<>>)
        \/ \E text : flush = Turn(h, <<TextEvent(text)>>)
    BY DEF FlushDSML
  <2>3. "index" \in DOMAIN scanner
    BY <1>1 DEF ScannerCounts
  <2> HIDE DEF h, flush
  <2>4. CASE flush = Turn(scanner, <<>>)
    BY <2>3, <2>4, TurnIs
  <2>5. CASE flush = Turn(h, <<>>)
    BY <2>1, <2>5, TurnIs
  <2>6. CASE \E text : flush = Turn(h, <<TextEvent(text)>>)
    BY <2>1, <2>6, TurnIs
  <2> QED
    BY <2>2, <2>4, <2>5, <2>6
<1>4. ScannerCounts'
  BY <1>1, <1>2, <1>3 DEF ScannerCounts
<1>5. end.event = Event("MessageEnd")
  BY DEF Yielded
<1> HIDE DEF flush, end
<1>6. CASE flush.out = <<>>
  <2>1. pending' = <<end>>
    BY <1>1, <1>6
  <2>2. pending[1]' = end
    BY <2>1
  <2>3. EndDue'
    BY <1>2, <1>5, <2>1, <2>2 DEF EndDue
  <2> QED
    BY <1>1, <1>4, <2>3 DEF Due
<1>7. CASE \E text : flush.out = <<TextEvent(text)>>
  <2>1. PICK text : flush.out = <<TextEvent(text)>>
    BY <1>7
  <2>2. pending' = <<TextEvent(text), end>>
    BY <1>1, <2>1, OneMore
  <2>3. pending[1]' = TextEvent(text) /\ pending[2]' = end
    BY <2>2
  <2>4. TextEvent(text).event = Delta("TextDelta", text = <<>>)
        /\ (text = <<>>) \in BOOLEAN
    BY DEF TextEvent, Yielded
  <2>5. ProseDue'
    BY <1>2, <1>5, <2>2, <2>3, <2>4 DEF ProseDue
  <2> QED
    BY <1>1, <1>4, <2>5 DEF Due
<1> QED
  BY <1>3, <1>6, <1>7

\* An error is due alone.
LEMMA HearErrorSteps ==
    ASSUME PipelineInv, HearError
    PROVE  UNCHANGED vars /\ ScannerCounts' /\ Due'
<1> DEFINE failure == Yielded(Event("SinkError"), <<>>)
<1>1. /\ UNCHANGED vars /\ scanner' = scanner /\ pending' = <<failure>>
      /\ Due /\ pending = <<>> /\ ScannerCounts
  BY DEF HearError, PipelineInv, Waiting, Running
<1>2. source.call = NoIndex /\ source' = source
  BY <1>1, NothingHalfSent DEF vars
<1>3. failure.event = Event("SinkError")
  BY DEF Yielded
<1> HIDE DEF failure
<1>4. pending[1]' = failure
  BY <1>1
<1>5. EndDue'
  BY <1>1, <1>2, <1>3, <1>4 DEF EndDue
<1>6. ScannerCounts'
  BY <1>1, <1>2 DEF ScannerCounts
<1> QED
  BY <1>1, <1>5, <1>6 DEF Due

\* Text that was heard waits in the buffer; thinking goes straight through.
LEMMA HearTextSteps ==
    ASSUME PipelineInv, HearText
    PROVE  UNCHANGED vars /\ ScannerCounts' /\ Due'
<1>1. PICK chunk \in Chunks : scanner' = Heard(scanner, chunk)
  BY DEF HearText
<1>2. UNCHANGED vars /\ pending' = pending /\ source' = source /\ pending = <<>>
  BY DEF HearText, vars, Waiting
<1>3. ScannerCounts /\ Due
  BY DEF PipelineInv, HearText, Waiting, Running
<1>4. "index" \in DOMAIN scanner' /\ scanner'.index = scanner.index
  BY <1>1, <1>3 DEF Heard, ScannerCounts
<1>5. ScannerCounts'
  BY <1>2, <1>3, <1>4 DEF ScannerCounts
<1>6. NothingDue'
  BY <1>2, <1>3, NothingHalfSent DEF NothingDue
<1> QED
  BY <1>2, <1>5, <1>6 DEF Due

LEMMA HearThinkingSteps ==
    ASSUME PipelineInv, HearThinking
    PROVE  Next /\ ScannerCounts' /\ Due'
<1> DEFINE event == Delta("ThinkingDelta", FALSE)
<1>1. /\ IInv /\ ScannerCounts /\ Due /\ Running /\ pending = <<>>
      /\ Feed(event) /\ pending' = pending /\ scanner' = scanner
  BY DEF HearThinking, PipelineInv, Waiting, Running
<1>2. source.call = NoIndex
  BY <1>1, NothingHalfSent
<1>3. Prose
  BY <1>1, <1>2 DEF Prose, BetweenCalls
<1>4. event \in SinkEvent /\ event.kind = "ThinkingDelta"
  BY EventTypes DEF Kinds
<1> HIDE DEF event
<1>5. ScannerCounts' /\ source'.call = NoIndex
  BY <1>1, <1>2, <1>4, FedOther
<1>6. NothingDue'
  BY <1>1, <1>5 DEF NothingDue
<1> QED
  BY <1>3, <1>5, <1>6 DEF Due, Next

\* MessageStart goes ahead of everything the grammar yields.
LEMMA PipelineBeginSteps ==
    ASSUME PipelineInv, PipelineBegin
    PROVE  Next /\ ScannerCounts' /\ Due'
<1> DEFINE event == Event("MessageStart")
<1>1. /\ IInv /\ ScannerCounts /\ Due /\ Begin /\ Feed(event)
      /\ pending' = pending /\ scanner' = scanner /\ ~source.begun
  BY DEF PipelineBegin, PipelineInv, Begin, pipeline
<1>2. source.call = NoIndex
  BY <1>1 DEF IInv, CallsCounted
<1>3. event \in SinkEvent /\ event.kind = "MessageStart"
  BY EventTypes DEF Kinds
<1>4. source \in Source /\ source' = Sent(event)
  BY <1>1 DEF IInv, Feed
<1> HIDE DEF event
<1>5. ScannerCounts' /\ source'.call = NoIndex /\ source'.grammar = source.grammar
  BY <1>1, <1>2, <1>3, FedOther
<1>6. source'.last = source.last
  BY <1>3, <1>4, SentParts
<1>7. Due'
  BY <1>1, <1>2, <1>5, <1>6 DEF Due, NothingDue, ProseDue, EndDue, CallDue, ArgsDue,
     CallEndDue, CallIndex
<1> QED
  BY <1>1, <1>5, <1>7 DEF Next

\* A pipeline that is over stays in order too: nothing is handed over any more.
LEMMA PipelineCancelSteps ==
    ASSUME PipelineInv, PipelineCancel
    PROVE  Next /\ ScannerCounts' /\ anthropic'.finished
<1>1. Cancel /\ IInv /\ ScannerCounts /\ scanner' = scanner /\ source' = source
  BY DEF PipelineCancel, PipelineInv, Cancel
<1>2. anthropic'.finished
  BY <1>1, CancelEnds
<1> QED
  BY <1>1, <1>2 DEF Next, ScannerCounts

\* The step that refines: from a state of the invariant, what the pipeline does
\* is what the abstract source may do, and the invariant holds again.
LEMMA PipelineStep ==
    ASSUME ToolIndices = Nat, PipelineInv, [PipelineNext]_allVars
    PROVE  [Next]_vars /\ PipelineInv'
<1>1. [Next]_vars /\ ScannerCounts' /\ (~anthropic'.finished => Due')
  <2>1. CASE UNCHANGED allVars
    BY <2>1 DEF allVars, vars, pipeline, PipelineInv, ScannerCounts, Due, NothingDue,
       ProseDue, EndDue, CallDue, ArgsDue, CallEndDue, CallIndex
  <2>2. CASE PipelineNext
    BY <2>2, PipelineBeginSteps, HearTextSteps, HearThinkingSteps, ScanSteps,
       HandOverSteps, HearEndSteps, HearErrorSteps, PipelineCancelSteps
       DEF PipelineNext
  <2> QED
    BY <2>1, <2>2
<1>2. IInv'
  BY <1>1, NextPreserves DEF PipelineInv
<1> QED
  BY <1>1, <1>2 DEF PipelineInv

(***************************************************************************)
(* What becomes of the text.  First the text itself: where it is cut, what *)
(* it has of words, fences and calls.                                      *)
(***************************************************************************)

\* Both parts of a text are texts, and it is one behind the other.
LEMMA SplitAt ==
    ASSUME NEW t \in Text, NEW k \in 0 .. Len(t)
    PROVE  /\ Prefix(t, k) \in Text /\ Suffix(t, k) \in Text
           /\ Len(Prefix(t, k)) = k /\ Len(Suffix(t, k)) = Len(t) - k
           /\ \A i \in 1 .. k : Prefix(t, k)[i] = t[i]
           /\ \A i \in 1 .. Len(t) - k : Suffix(t, k)[i] = t[k + i]
           /\ Prefix(t, k) \o Suffix(t, k) = t
<1> DEFINE n == Len(t)
           p == SubSeq(t, 1, k)
           s == SubSeq(t, k + 1, n)
<1>1. n \in Nat /\ k \in Nat /\ \A i \in 1 .. n : t[i] \in Tokens
  BY DEF Text
<1>2. /\ p \in Seq(Tokens) /\ Len(p) = k
      /\ \A i \in 1 .. k : p[i] = t[i]
  <2>1. \A i \in 1 .. k : t[i] \in Tokens
    BY <1>1
  <2>2. /\ p \in Seq(Tokens) /\ Len(p) = IF 1 <= k THEN k - 1 + 1 ELSE 0
        /\ \A i \in 1 .. k - 1 + 1 : p[i] = t[1 + i - 1]
    BY <1>1, <2>1, SubSeqProperties
  <2>3. k - 1 + 1 = k /\ \A i \in 1 .. k : 1 + i - 1 = i
    BY <1>1
  <2>4. QED
    BY <1>1, <2>2, <2>3
<1>3. /\ s \in Seq(Tokens) /\ Len(s) = n - k
      /\ \A i \in 1 .. n - k : s[i] = t[k + i]
  <2>1. \A i \in k + 1 .. n : t[i] \in Tokens
    BY <1>1
  <2>2. /\ s \in Seq(Tokens) /\ Len(s) = IF k + 1 <= n THEN n - (k + 1) + 1 ELSE 0
        /\ \A i \in 1 .. n - (k + 1) + 1 : s[i] = t[(k + 1) + i - 1]
    BY <1>1, <2>1, SubSeqProperties
  <2>3. n - (k + 1) + 1 = n - k /\ \A i \in 1 .. n - k : (k + 1) + i - 1 = k + i
    BY <1>1
  <2> HIDE DEF s, n
  <2>4. Len(s) = n - k
    <3>1. k <= n /\ n \in Int /\ k \in Int
      BY <1>1 DEF n
    <3>2. QED
      BY <2>2, <2>3, <3>1
  <2>5. ASSUME NEW i \in 1 .. n - k
        PROVE  s[i] = t[k + i]
    <3>1. i \in 1 .. n - (k + 1) + 1 /\ (k + 1) + i - 1 = k + i
      BY <1>1
    <3>2. QED
      BY <2>2, <3>1
  <2>6. QED
    BY <2>2, <2>4, <2>5
<1> HIDE DEF p, s
<1>4. p \o s = t
  <2>1. /\ p \o s \in Seq(Tokens) /\ Len(p \o s) = n
        /\ \A i \in 1 .. n : (p \o s)[i] = IF i <= k THEN p[i] ELSE s[i - k]
    BY <1>1, <1>2, <1>3, ConcatProperties
  <2>2. ASSUME NEW i \in 1 .. n
        PROVE  (p \o s)[i] = t[i]
    <3>1. CASE i <= k
      <4>1. i \in 1 .. k
        BY <1>1, <3>1
      <4>2. QED
        BY <1>2, <2>1, <3>1, <4>1
    <3>2. CASE ~(i <= k)
      <4>1. i - k \in 1 .. n - k /\ k + (i - k) = i
        BY <1>1, <3>2
      <4>2. QED
        BY <1>3, <2>1, <3>2, <4>1
    <3>3. QED
      BY <3>1, <3>2
  <2>3. QED
    BY <2>1, <2>2, SeqEqual DEF Text
<1>5. QED
  BY <1>2, <1>3, <1>4 DEF Prefix, Suffix, Text, p, s

\* A text behind a text is one.
LEMMA Joined ==
    ASSUME NEW t \in Text, NEW w \in Text
    PROVE  /\ t \o w \in Text /\ <<>> \in Text
           /\ t \o <<>> = t /\ <<>> \o t = t
           /\ Len(t) \in Nat /\ Len(t \o w) = Len(t) + Len(w)
           /\ \A i \in 1 .. Len(t) + Len(w) :
                 (t \o w)[i] = IF i <= Len(t) THEN t[i] ELSE w[i - Len(t)]
           /\ \A i \in 1 .. Len(t) : (t \o w)[i] = t[i]
           /\ \A i \in 1 .. Len(w) : (t \o w)[Len(t) + i] = w[i]
<1>1. /\ t \o w \in Text /\ Len(t) \in Nat /\ Len(w) \in Nat
      /\ Len(t \o w) = Len(t) + Len(w)
      /\ \A i \in 1 .. Len(t) + Len(w) :
            (t \o w)[i] = IF i <= Len(t) THEN t[i] ELSE w[i - Len(t)]
  BY ConcatProperties DEF Text
<1>2. \A i \in 1 .. Len(t) : i \in 1 .. Len(t) + Len(w) /\ i <= Len(t)
  BY <1>1
<1>3. \A i \in 1 .. Len(w) : /\ Len(t) + i \in 1 .. Len(t) + Len(w)
                             /\ ~(Len(t) + i <= Len(t)) /\ (Len(t) + i) - Len(t) = i
  BY <1>1
<1>4. t \o <<>> = t /\ <<>> \o t = t /\ <<>> \in Text
  BY ConcatEmptySeq DEF Text
<1>5. QED
  BY <1>1, <1>2, <1>3, <1>4

\* What is behind the first k of a text stays there when more comes.
LEMMA SplitJoined ==
    ASSUME NEW t \in Text, NEW w \in Text, NEW k \in 0 .. Len(t)
    PROVE  /\ k \in 0 .. Len(t \o w)
           /\ Prefix(t \o w, k) = Prefix(t, k)
           /\ Suffix(t \o w, k) = Suffix(t, k) \o w
<1> DEFINE a == Prefix(t, k)
           b == Suffix(t, k)
           c == Prefix(t \o w, k)
           d == Suffix(t \o w, k)
<1>1. /\ k \in 0 .. Len(t \o w) /\ k \in Nat
      /\ t \o w \in Text /\ Len(t) \in Nat /\ Len(w) \in Nat
      /\ Len(t \o w) = Len(t) + Len(w)
      /\ \A i \in 1 .. Len(t) : (t \o w)[i] = t[i]
      /\ \A i \in 1 .. Len(w) : (t \o w)[Len(t) + i] = w[i]
  <2>1. /\ t \o w \in Text /\ Len(t) \in Nat /\ Len(w) \in Nat
        /\ Len(t \o w) = Len(t) + Len(w)
        /\ \A i \in 1 .. Len(t) : (t \o w)[i] = t[i]
        /\ \A i \in 1 .. Len(w) : (t \o w)[Len(t) + i] = w[i]
    BY Joined
  <2>2. k \in 0 .. Len(t) + Len(w) /\ k \in Nat
    BY <2>1
  <2>3. QED
    BY <2>1, <2>2
<1>2. /\ a \in Text /\ b \in Text /\ Len(a) = k /\ Len(b) = Len(t) - k
      /\ \A i \in 1 .. k : a[i] = t[i]
      /\ \A i \in 1 .. Len(t) - k : b[i] = t[k + i]
  BY SplitAt
<1>3. /\ c \in Text /\ d \in Text /\ Len(c) = k /\ Len(d) = Len(t) + Len(w) - k
      /\ \A i \in 1 .. k : c[i] = (t \o w)[i]
      /\ \A i \in 1 .. Len(t) + Len(w) - k : d[i] = (t \o w)[k + i]
  <2> DEFINE tw == t \o w
  <2>1. tw \in Text /\ k \in 0 .. Len(tw) /\ Len(tw) = Len(t) + Len(w)
    BY <1>1
  <2>2. c = Prefix(tw, k) /\ d = Suffix(tw, k)
    OBVIOUS
  <2> HIDE DEF tw, c, d
  <2>3. /\ c \in Text /\ d \in Text /\ Len(c) = k /\ Len(d) = Len(tw) - k
        /\ \A i \in 1 .. k : c[i] = tw[i]
        /\ \A i \in 1 .. Len(tw) - k : d[i] = tw[k + i]
    BY <2>1, <2>2, SplitAt
  <2>4. QED
    BY <2>1, <2>3 DEF tw
<1> HIDE DEF a, b, c, d
<1>4. c = a
  <2>1. \A i \in 1 .. k : i \in 1 .. Len(t)
    BY <1>1
  <2>2. \A i \in 1 .. k : c[i] = a[i]
    BY <1>1, <1>2, <1>3, <2>1
  <2>3. QED
    BY <1>2, <1>3, <2>2, SeqEqual DEF Text
<1>5. d = b \o w
  <2>1. /\ b \o w \in Text /\ Len(b \o w) = Len(b) + Len(w)
        /\ \A i \in 1 .. Len(b) + Len(w) :
              (b \o w)[i] = IF i <= Len(b) THEN b[i] ELSE w[i - Len(b)]
    BY <1>2, Joined
  <2>2. Len(b) + Len(w) = Len(d)
    BY <1>1, <1>2, <1>3
  <2>3. ASSUME NEW i \in 1 .. Len(d)
        PROVE  d[i] = (b \o w)[i]
    <3>1. CASE i <= Len(b)
      <4>1. i \in 1 .. Len(t) - k /\ k + i \in 1 .. Len(t)
        BY <1>1, <1>2, <3>1
      <4>2. QED
        BY <1>1, <1>2, <1>3, <2>1, <2>2, <3>1, <4>1
    <3>2. CASE ~(i <= Len(b))
      <4>1. /\ i - Len(b) \in 1 .. Len(w) /\ k + i = Len(t) + (i - Len(b))
            /\ i \in 1 .. Len(b) + Len(w) /\ i \in 1 .. Len(t) + Len(w) - k
        BY <1>1, <1>2, <1>3, <2>2, <3>2
      <4>2. d[i] = w[i - Len(b)]
        <5>1. d[i] = (t \o w)[k + i]
          BY <1>3, <4>1
        <5>2. /\ k + i \in 1 .. Len(t) + Len(w) /\ ~(k + i <= Len(t))
              /\ (k + i) - Len(t) = i - Len(b)
          BY <1>1, <4>1, <3>2, <1>2
        <5>3. (t \o w)[k + i] = w[(k + i) - Len(t)]
          BY <1>1, <5>2
        <5>4. QED
          BY <5>1, <5>2, <5>3
      <4>3. QED
        BY <2>1, <3>2, <4>1, <4>2
    <3>3. QED
      BY <3>1, <3>2
  <2>4. QED
    BY <1>3, <2>1, <2>2, <2>3, SeqEqual DEF Text
<1>6. QED
  BY <1>1, <1>4, <1>5 DEF a, b, c, d

\* A number no smaller than which is in a set is its least.
LEMMA LeastIs ==
    ASSUME NEW T \in SUBSET Nat, NEW m \in T, \A y \in T : m <= y
    PROVE  Min(T) = m
<1>1. Min(T) \in T /\ \A y \in T : Min(T) <= y
  BY LeastMember
<1> DEFINE x == Min(T)
<1>2. x \in Nat /\ m \in Nat /\ x <= m /\ m <= x
  BY <1>1
<1> HIDE DEF x
<1>3. x = m
  BY <1>2
<1>4. QED
  BY <1>3 DEF x

\* A fence that starts in a text starts there however the text goes on.
LEMMA StartsStay ==
    ASSUME NEW b \in Text, NEW w \in Text, FenceStarts(b) # {},
           NEW k, k = Min(FenceStarts(b))
    PROVE  /\ k \in FenceStarts(b) /\ k \in 1 .. Len(b) - 1
           /\ b[k] = "fence" /\ b[k + 1] = "json"
           /\ FenceStarts(b \o w) # {} /\ Min(FenceStarts(b \o w)) = k
<1>1. /\ Len(b) \in Nat /\ Len(w) \in Nat /\ Len(b \o w) = Len(b) + Len(w)
      /\ \A i \in 1 .. Len(b) : (b \o w)[i] = b[i]
  BY Joined
<1>2. FenceStarts(b) \in SUBSET Nat /\ FenceStarts(b \o w) \in SUBSET Nat
  BY <1>1 DEF FenceStarts
<1>3. k \in FenceStarts(b) /\ \A y \in FenceStarts(b) : k <= y
  BY <1>2, LeastMember
<1>4. k \in 1 .. Len(b) - 1 /\ b[k] = "fence" /\ b[k + 1] = "json"
  BY <1>3 DEF FenceStarts
<1>5. k \in FenceStarts(b \o w)
  <2>1. k \in 1 .. Len(b \o w) - 1 /\ k \in 1 .. Len(b) /\ k + 1 \in 1 .. Len(b)
    BY <1>1, <1>4
  <2>2. QED
    BY <1>1, <1>4, <2>1 DEF FenceStarts
<1>6. ASSUME NEW y \in FenceStarts(b \o w)
      PROVE  k <= y
  <2>1. CASE y <= Len(b) - 1
    <3>1. y \in 1 .. Len(b) - 1 /\ y \in 1 .. Len(b) /\ y + 1 \in 1 .. Len(b)
      BY <1>1, <1>2, <2>1 DEF FenceStarts
    <3>2. y \in FenceStarts(b)
      BY <1>1, <3>1 DEF FenceStarts
    <3>3. QED
      BY <1>3, <3>2
  <2>2. CASE ~(y <= Len(b) - 1)
    BY <1>1, <1>2, <1>4, <2>2
  <2>3. QED
    BY <2>1, <2>2
<1>7. Min(FenceStarts(b \o w)) = k
  BY <1>2, <1>5, <1>6, LeastIs
<1>8. QED
  BY <1>3, <1>4, <1>5, <1>7

\* So does one that ends.
LEMMA EndsStay ==
    ASSUME NEW b \in Text, NEW w \in Text, FenceEnds(b) # {},
           NEW k, k = Min(FenceEnds(b))
    PROVE  /\ k \in FenceEnds(b) /\ k \in 1 .. Len(b) /\ b[k] = "fence"
           /\ FenceEnds(b \o w) # {} /\ Min(FenceEnds(b \o w)) = k
<1>1. /\ Len(b) \in Nat /\ Len(w) \in Nat /\ Len(b \o w) = Len(b) + Len(w)
      /\ \A i \in 1 .. Len(b) : (b \o w)[i] = b[i]
  BY Joined
<1>2. FenceEnds(b) \in SUBSET Nat /\ FenceEnds(b \o w) \in SUBSET Nat
  BY <1>1 DEF FenceEnds
<1>3. k \in FenceEnds(b) /\ \A y \in FenceEnds(b) : k <= y
  BY <1>2, LeastMember
<1>4. k \in 1 .. Len(b) /\ b[k] = "fence"
  BY <1>3 DEF FenceEnds
<1>5. k \in FenceEnds(b \o w)
  <2>1. k \in 1 .. Len(b \o w)
    BY <1>1, <1>4
  <2>2. QED
    BY <1>1, <1>4, <2>1 DEF FenceEnds
<1>6. ASSUME NEW y \in FenceEnds(b \o w)
      PROVE  k <= y
  <2>1. CASE y <= Len(b)
    <3>1. y \in 1 .. Len(b)
      BY <1>1, <1>2, <2>1 DEF FenceEnds
    <3>2. y \in FenceEnds(b)
      BY <1>1, <3>1 DEF FenceEnds
    <3>3. QED
      BY <1>3, <3>2
  <2>2. CASE ~(y <= Len(b))
    BY <1>1, <1>2, <1>4, <2>2
  <2>3. QED
    BY <2>1, <2>2
<1>7. Min(FenceEnds(b \o w)) = k
  BY <1>2, <1>5, <1>6, LeastIs
<1>8. QED
  BY <1>3, <1>4, <1>5, <1>7

\* What is behind a suffix of a text is behind the text.
LEMMA SuffixOfSuffix ==
    ASSUME NEW t \in Text, NEW j \in 0 .. Len(t), NEW k \in 0 .. Len(t) - j
    PROVE  /\ j + k \in 0 .. Len(t)
           /\ Suffix(Suffix(t, j), k) = Suffix(t, j + k)
           /\ Suffix(t, 0) = t
<1> DEFINE s == Suffix(t, j)
           a == Suffix(s, k)
           b == Suffix(t, j + k)
<1>1. Len(t) \in Nat /\ j + k \in 0 .. Len(t) /\ 0 \in 0 .. Len(t)
  BY Joined
<1>2. /\ s \in Text /\ Len(s) = Len(t) - j
      /\ \A i \in 1 .. Len(t) - j : s[i] = t[j + i]
  BY SplitAt
<1>3. /\ b \in Text /\ Len(b) = Len(t) - (j + k)
      /\ \A i \in 1 .. Len(t) - (j + k) : b[i] = t[(j + k) + i]
  BY <1>1, SplitAt
<1>4. Suffix(t, 0) = t
  <2>1. Prefix(t, 0) \in Text /\ Len(Prefix(t, 0)) = 0 /\ Suffix(t, 0) \in Text
        /\ Prefix(t, 0) \o Suffix(t, 0) = t
    BY <1>1, SplitAt
  <2>2. Prefix(t, 0) = <<>>
    BY <2>1 DEF Text
  <2>3. QED
    BY <2>1, <2>2, Joined
<1> HIDE DEF s, b
<1>5. /\ a \in Text /\ Len(a) = Len(s) - k
      /\ \A i \in 1 .. Len(s) - k : a[i] = s[k + i]
  <2>1. k \in 0 .. Len(s)
    BY <1>2
  <2>2. QED
    BY <1>2, <2>1, SplitAt
<1> HIDE DEF a
<1>6. Len(a) = Len(b)
  BY <1>1, <1>2, <1>3, <1>5
<1>7. ASSUME NEW i \in 1 .. Len(a)
      PROVE  a[i] = b[i]
  <2>1. /\ i \in 1 .. Len(s) - k /\ k + i \in 1 .. Len(t) - j
        /\ i \in 1 .. Len(t) - (j + k) /\ j + (k + i) = (j + k) + i
    BY <1>1, <1>2, <1>5
  <2>2. QED
    BY <1>2, <1>3, <1>5, <2>1
<1>8. a = b
  BY <1>3, <1>5, <1>6, <1>7, SeqEqual DEF Text
<1>9. QED
  BY <1>1, <1>4, <1>8 DEF a, b, s

\* Behind the first fence of a text; whether that fence is closed, whether it
\* holds a call, and what is behind it.
Body(text) == Suffix(text, Min(FenceStarts(text)) + 1)
Closes(text) == FenceStarts(text) # {} /\ FenceEnds(Body(text)) # {}
Call(body) == IF Prefix(body, Min(FenceEnds(body)) - 1) \in Named THEN 1 ELSE 0
Behind(body) == Suffix(body, Min(FenceEnds(body)))

\* The calls a scanner finds in a text that is not cut inside a fence: under
\* whichever key they are named.
CallsInStream(text) == CallsOf(text, Named)

\* The calls of a text, when its beginning is inside a fence.
CallsFromInside(body) ==
    IF FenceEnds(body) = {} THEN 0 ELSE Call(body) + CallsInStream(Behind(body))

\* The body of a fence is shorter than the text by its mark at least.
LEMMA BodyIs ==
    ASSUME NEW t \in Text, FenceStarts(t) # {}
    PROVE  /\ Body(t) \in Text
           /\ Len(t) \in Nat /\ Len(Body(t)) \in 0 .. Len(t) - 2
           /\ Body(t) = Suffix(t, Len(t) - Len(Body(t)))
<1> DEFINE k == Min(FenceStarts(t))
<1>1. Len(t) \in Nat /\ <<>> \in Text
  BY Joined
<1>2. k \in 1 .. Len(t) - 1
  BY <1>1, StartsStay
<1> HIDE DEF k
<1>3. k + 1 \in 0 .. Len(t) /\ Len(t) - (Len(t) - (k + 1)) = k + 1
  BY <1>1, <1>2
<1>4. Suffix(t, k + 1) \in Text /\ Len(Suffix(t, k + 1)) = Len(t) - (k + 1)
  BY <1>3, SplitAt
<1>5. QED
  BY <1>1, <1>2, <1>3, <1>4 DEF Body, k

\* What is behind the fence is shorter than the body.
LEMMA BehindIs ==
    ASSUME NEW b \in Text, FenceEnds(b) # {}
    PROVE  /\ Behind(b) \in Text /\ Call(b) \in Nat
           /\ Len(b) \in Nat /\ Len(Behind(b)) \in 0 .. Len(b) - 1
           /\ Len(Behind(b)) = Len(b) - Min(FenceEnds(b))
           /\ Behind(b) = Suffix(b, Len(b) - Len(Behind(b)))
<1> DEFINE k == Min(FenceEnds(b))
<1>1. Len(b) \in Nat /\ <<>> \in Text
  BY Joined
<1>2. k \in 1 .. Len(b)
  BY <1>1, EndsStay
<1>3. Call(b) \in Nat
  BY DEF Call
<1> HIDE DEF k
<1>4. k \in 0 .. Len(b) /\ Len(b) - (Len(b) - k) = k
  BY <1>1, <1>2
<1>5. Suffix(b, k) \in Text /\ Len(Suffix(b, k)) = Len(b) - k
  BY <1>4, SplitAt
<1>6. QED
  BY <1>1, <1>2, <1>3, <1>4, <1>5 DEF Behind, k

\* The recursion of CallsInStream, over the last n tokens of a text.
Rest(text, n) == Suffix(text, Len(text) - n)
Stops(text) == {n \in 0 .. Len(text) : ~Closes(Rest(text, n))}
CallAt(text) ==
    [n \in 0 .. Len(text) |-> IF Closes(Rest(text, n)) THEN Call(Body(Rest(text, n))) ELSE 0]
NextCount(text) ==
    [n \in 0 .. Len(text) |->
        IF Closes(Rest(text, n)) THEN Len(Behind(Body(Rest(text, n)))) ELSE 0]
CountsCalls(f, n, text) == Counts(f, n, Stops(text), CallAt(text), NextCount(text))

\* It goes down.
LEMMA RestIs ==
    ASSUME NEW t \in Text, NEW n \in 0 .. Len(t)
    PROVE  /\ Rest(t, n) \in Text /\ Len(Rest(t, n)) = n
           /\ CallAt(t)[n] \in Nat /\ NextCount(t)[n] \in Nat
           /\ n \notin Stops(t) => NextCount(t)[n] < n
<1> DEFINE r == Rest(t, n)
<1>1. Len(t) \in Nat
  BY Joined
<1>2. Len(t) - n \in 0 .. Len(t) /\ n \in Nat
  BY <1>1
<1>3. r \in Text /\ Len(r) = n
  <2>1. /\ Suffix(t, Len(t) - n) \in Text
        /\ Len(Suffix(t, Len(t) - n)) = Len(t) - (Len(t) - n)
    BY <1>2, SplitAt
  <2>2. QED
    BY <1>1, <1>2, <2>1 DEF Rest
<1>4. /\ CallAt(t)[n] = IF Closes(r) THEN Call(Body(r)) ELSE 0
      /\ NextCount(t)[n] = IF Closes(r) THEN Len(Behind(Body(r))) ELSE 0
      /\ n \notin Stops(t) => Closes(r)
  BY DEF CallAt, NextCount, Stops
<1> HIDE DEF r
<1>5. CASE Closes(r)
  <2>1. Body(r) \in Text /\ Len(Body(r)) \in 0 .. n - 2 /\ FenceEnds(Body(r)) # {}
    BY <1>3, <1>5, BodyIs DEF Closes
  <2>2. Len(Behind(Body(r))) \in 0 .. Len(Body(r)) - 1 /\ Call(Body(r)) \in Nat
    BY <2>1, BehindIs
  <2>3. Len(Behind(Body(r))) \in Nat /\ Len(Behind(Body(r))) < n
    BY <1>2, <2>1, <2>2
  <2>4. QED
    BY <1>3, <1>4, <1>5, <2>2, <2>3 DEF r
<1>6. CASE ~Closes(r)
  BY <1>3, <1>4, <1>6 DEF r
<1>7. QED
  BY <1>5, <1>6

\* What the fence holds.
Candidate(body) == Prefix(body, Min(FenceEnds(body)) - 1)

\* What CallsOf returns is what the recursion says, where the objects it looks
\* for are the named ones of the text.
LEMMA FullTextCounted ==
    ASSUME NEW t \in Text, NEW objects,
           \A n \in 0 .. Len(t) : Closes(Rest(t, n)) =>
               (Candidate(Body(Rest(t, n))) \in objects
                    <=> Candidate(Body(Rest(t, n))) \in Named)
    PROVE  \E f : CountsCalls(f, Len(t), t) /\ CallsOf(t, objects) = f[Len(t)]
                     /\ CallsOf(t, objects) \in Nat
<1> DEFINE L == Len(t)
           Value(g, n) ==
              LET rest == Suffix(t, Len(t) - n)
                  starts == FenceStarts(rest)
                  body == Suffix(rest, Min(starts) + 1)
                  ends == FenceEnds(body)
              IN  IF starts = {} \/ ends = {} THEN 0
                  ELSE (IF Prefix(body, Min(ends) - 1) \in objects THEN 1 ELSE 0)
                       + g[Len(body) - Min(ends)]
           Solves(g) == g = [n \in 0 .. Len(t) |-> Value(g, n)]
<1>1. L \in Nat
  BY Joined
<1>2. \A n \in 0 .. L : /\ CallAt(t)[n] \in Nat /\ NextCount(t)[n] \in Nat
                        /\ n \notin Stops(t) => NextCount(t)[n] < n
  BY RestIs
<1>3. CallAt(t) \in [0 .. L -> Nat] /\ NextCount(t) \in [0 .. L -> Nat]
  <2>1. /\ CallAt(t) = [n \in 0 .. L |-> CallAt(t)[n]]
        /\ NextCount(t) = [n \in 0 .. L |-> NextCount(t)[n]]
    BY DEF CallAt, NextCount
  <2>2. QED
    BY <1>2, <2>1
<1>4. PICK f \in [0 .. L -> Nat] : CountsCalls(f, L, t)
  BY <1>1, <1>2, <1>3, CountExists DEF CountsCalls
<1>5. ASSUME NEW g, NEW n \in 0 .. L
      PROVE  Value(g, n) = IF n \in Stops(t) THEN 0
                           ELSE CallAt(t)[n] + g[NextCount(t)[n]]
  <2> DEFINE r == Rest(t, n)
  <2>1. r \in Text
    BY RestIs
  <2>2. Value(g, n) = IF ~Closes(r) THEN 0
                      ELSE Call(Body(r)) + g[Len(Body(r)) - Min(FenceEnds(Body(r)))]
    <3>1. Value(g, n) = IF ~Closes(r) THEN 0
                        ELSE (IF Candidate(Body(r)) \in objects THEN 1 ELSE 0)
                             + g[Len(Body(r)) - Min(FenceEnds(Body(r)))]
      BY DEF Closes, Candidate, Body, Rest
    <3>2. Closes(r) => (Candidate(Body(r)) \in objects <=> Candidate(Body(r)) \in Named)
      OBVIOUS
    <3>3. Call(Body(r)) = IF Candidate(Body(r)) \in Named THEN 1 ELSE 0
      BY DEF Call, Candidate
    <3> HIDE DEF r, Value
    <3>4. QED
      BY <3>1, <3>2, <3>3
  <2>3. /\ n \in Stops(t) <=> ~Closes(r)
        /\ Closes(r) => /\ CallAt(t)[n] = Call(Body(r))
                        /\ NextCount(t)[n] = Len(Behind(Body(r)))
    BY DEF Stops, CallAt, NextCount
  <2> HIDE DEF r, Value
  <2>4. Closes(r) => Len(Behind(Body(r))) = Len(Body(r)) - Min(FenceEnds(Body(r)))
    BY <2>1, BodyIs, BehindIs DEF Closes
  <2>5. QED
    BY <2>2, <2>3, <2>4
<1>6. CallsOf(t, objects) = (CHOOSE g : Solves(g))[L]
  BY DEF CallsOf
<1> HIDE DEF Value
<1>7. Solves(f)
  <2>1. \A n \in 0 .. L : f[n] = Value(f, n)
    BY <1>4, <1>5 DEF CountsCalls, Counts
  <2>2. f = [n \in 0 .. L |-> f[n]]
    OBVIOUS
  <2>3. QED
    BY <2>1, <2>2
<1> DEFINE h == CHOOSE g : Solves(g)
<1>8. Solves(h)
  BY <1>7
<1> HIDE DEF h
<1>9. CountsCalls(h, L, t)
  <2>1. \A n \in 0 .. L : h[n] = Value(h, n)
    BY <1>8
  <2>2. QED
    BY <1>5, <2>1 DEF CountsCalls, Counts
<1>10. h[L] = f[L]
  BY <1>1, <1>2, <1>4, <1>9, CountsAgree DEF CountsCalls
<1>11. f[L] \in Nat
  BY <1>1
<1>12. QED
  BY <1>6, <1>9, <1>10, <1>11 DEF h

\* So it is for what a scanner finds, which looks for them all.
LEMMA StreamCounted ==
    ASSUME NEW t \in Text
    PROVE  \E f : CountsCalls(f, Len(t), t) /\ CallsInStream(t) = f[Len(t)]
                     /\ CallsInStream(t) \in Nat
BY FullTextCounted DEF CallsInStream

\* parse_final looks for one of them only, and finds as many where the other is
\* not in the text.
LEMMA SharedKeysAgree ==
    ASSUME NEW t \in Text, \A k \in DOMAIN t : t[k] # "open_tool"
    PROVE  CallsInFullText(t) = CallsInStream(t)
<1> DEFINE L == Len(t)
           Shared(u) == \A k \in 1 .. Len(u) : u[k] # "open_tool"
<1>1. L \in Nat /\ Shared(t)
  <2>1. DOMAIN t = 1 .. L
    BY DEF Text
  <2>2. QED
    BY <2>1, Joined
<1>2. ASSUME NEW u \in Text, NEW j \in 0 .. Len(u), Shared(u)
      PROVE  Suffix(u, j) \in Text /\ Shared(Suffix(u, j))
  <2>1. Len(u) \in Nat
    BY Joined
  <2>2. /\ Suffix(u, j) \in Text /\ Len(Suffix(u, j)) = Len(u) - j
        /\ \A i \in 1 .. Len(u) - j : Suffix(u, j)[i] = u[j + i]
    BY SplitAt
  <2>3. \A i \in 1 .. Len(u) - j : j + i \in 1 .. Len(u)
    BY <2>1
  <2>4. QED
    BY <1>2, <2>2, <2>3
<1> HIDE DEF L
<1>3. ASSUME NEW n \in 0 .. L, Closes(Rest(t, n))
      PROVE  Candidate(Body(Rest(t, n))) # ToolObject
  <2> DEFINE r == Rest(t, n)
             b == Body(r)
             k == Min(FenceEnds(b))
  <2>1. r \in Text /\ Shared(r)
    <3>1. L - n \in 0 .. L
      BY <1>1
    <3>2. QED
      BY <1>1, <1>2, <3>1 DEF Rest, L
  <2> HIDE DEF r
  <2>2. b \in Text /\ FenceEnds(b) # {} /\ Shared(b)
    <3>1. /\ b \in Text /\ FenceEnds(b) # {} /\ Len(r) \in Nat
          /\ Len(b) \in 0 .. Len(r) - 2 /\ b = Suffix(r, Len(r) - Len(b))
      BY <1>3, <2>1, BodyIs DEF Closes, r
    <3>2. Len(r) - Len(b) \in 0 .. Len(r)
      BY <3>1
    <3>3. QED
      BY <1>2, <2>1, <3>1, <3>2
  <2> HIDE DEF b
  <2>3. k \in 1 .. Len(b) /\ Len(b) \in Nat
    BY <2>2, EndsStay, Joined
  <2> HIDE DEF k
  <2>4. k - 1 \in 0 .. Len(b)
    BY <2>3
  <2>5. /\ Len(Prefix(b, k - 1)) = k - 1
        /\ \A i \in 1 .. k - 1 : Prefix(b, k - 1)[i] = b[i]
    BY <2>2, <2>4, SplitAt
  <2>6. Prefix(b, k - 1) # ToolObject
    <3>1. SUFFICES ASSUME Prefix(b, k - 1) = ToolObject PROVE FALSE
      OBVIOUS
    <3>2. Len(ToolObject) = 2 /\ ToolObject[1] = "open_tool"
      BY DEF ToolObject
    <3>3. 1 \in 1 .. k - 1 /\ 1 \in 1 .. Len(b)
      BY <2>3, <2>5, <3>1, <3>2
    <3>4. QED
      BY <2>2, <2>5, <3>1, <3>2, <3>3
  <2>7. QED
    BY <2>6 DEF Candidate, k, b, r
<1>4. PICK f : CountsCalls(f, L, t) /\ CallsInFullText(t) = f[L]
  <2>1. \A n \in 0 .. L : Closes(Rest(t, n)) =>
            (Candidate(Body(Rest(t, n))) \in {CallObject}
                 <=> Candidate(Body(Rest(t, n))) \in Named)
    BY <1>3 DEF Named
  <2>2. QED
    BY <2>1, FullTextCounted DEF CallsInFullText, L
<1>5. PICK g : CountsCalls(g, L, t) /\ CallsInStream(t) = g[L]
  BY StreamCounted DEF L
<1>6. \A n \in 0 .. L : n \notin Stops(t) => NextCount(t)[n] \in Nat /\ NextCount(t)[n] < n
  BY RestIs DEF L
<1>7. f[L] = g[L]
  BY <1>1, <1>4, <1>5, <1>6, CountsAgree DEF CountsCalls
<1>8. QED
  BY <1>4, <1>5, <1>7

\* The calls of a text without a fence are none; those of a text with one are
\* those behind its mark.
LEMMA CallsUnfold ==
    ASSUME NEW t \in Text
    PROVE  /\ CallsInStream(t) \in Nat
           /\ CallsInStream(t) = IF FenceStarts(t) = {} THEN 0
                                   ELSE CallsFromInside(Body(t))
<1> DEFINE L == Len(t)
           b == Body(t)
           u == Behind(b)
           m == Len(u)
<1>0. L \in Nat /\ 0 \in 0 .. L /\ L \in 0 .. L
  BY Joined
<1>1. PICK f : CountsCalls(f, L, t) /\ CallsInStream(t) = f[L]
                  /\ CallsInStream(t) \in Nat
  BY StreamCounted
<1>2. Rest(t, L) = t
  BY <1>0, SuffixOfSuffix DEF Rest
<1>3. f[L] = IF L \in Stops(t) THEN 0 ELSE CallAt(t)[L] + f[NextCount(t)[L]]
  BY <1>0, <1>1 DEF CountsCalls, Counts
<1>4. CASE ~Closes(t)
  <2>1. f[L] = 0
    BY <1>0, <1>2, <1>3, <1>4 DEF Stops
  <2>2. QED
    BY <1>1, <1>4, <2>1 DEF Closes, CallsFromInside
<1>5. CASE Closes(t)
  <2>1. FenceStarts(t) # {} /\ FenceEnds(b) # {}
    BY <1>5 DEF Closes
  <2>2. b \in Text /\ Len(b) \in 0 .. L - 2 /\ b = Suffix(t, L - Len(b))
    BY <2>1, BodyIs
  <2>3. /\ u \in Text /\ m \in 0 .. Len(b) - 1 /\ u = Suffix(b, Len(b) - m)
    BY <2>1, <2>2, BehindIs
  <2>4. /\ L \notin Stops(t) /\ CallAt(t)[L] = Call(b) /\ NextCount(t)[L] = m
    BY <1>0, <1>2, <1>5 DEF Stops, CallAt, NextCount
  <2>5. f[L] = Call(b) + f[m]
    BY <1>3, <2>4
  <2>6. PICK g : CountsCalls(g, m, u) /\ CallsInStream(u) = g[m]
    BY <2>3, StreamCounted
  <2> HIDE DEF b, u, m, L
  <2>7. m \in Nat /\ m < L /\ L - m \in 0 .. L /\ u = Suffix(t, L - m)
    <3>1. /\ L - Len(b) \in 0 .. L /\ Len(b) - m \in 0 .. L - (L - Len(b))
          /\ (L - Len(b)) + (Len(b) - m) = L - m
      BY <1>0, <2>2, <2>3
    <3>2. Suffix(Suffix(t, L - Len(b)), Len(b) - m) = Suffix(t, L - m)
      BY <3>1, SuffixOfSuffix DEF L
    <3>3. QED
      BY <1>0, <2>2, <2>3, <3>1, <3>2
  <2>8. \A n \in 0 .. m : n \in 0 .. L /\ Rest(u, n) = Rest(t, n)
    <3>1. ASSUME NEW n \in 0 .. m
          PROVE  n \in 0 .. L /\ Rest(u, n) = Rest(t, n)
      <4>1. /\ n \in 0 .. L /\ m - n \in 0 .. L - (L - m)
            /\ (L - m) + (m - n) = L - n
        BY <1>0, <2>7
      <4>2. Suffix(Suffix(t, L - m), m - n) = Suffix(t, L - n)
        BY <2>7, <4>1, SuffixOfSuffix DEF L
      <4>3. Len(u) = m /\ Len(t) = L
        BY DEF m, L
      <4>4. QED
        BY <2>7, <4>1, <4>2, <4>3 DEF Rest
    <3>2. QED
      BY <3>1
  <2>9. ASSUME NEW n \in 0 .. m
        PROVE  /\ n \in Stops(u) <=> n \in Stops(t)
               /\ CallAt(u)[n] = CallAt(t)[n] /\ NextCount(u)[n] = NextCount(t)[n]
    <3>1. n \in 0 .. Len(u) /\ n \in 0 .. Len(t) /\ Rest(u, n) = Rest(t, n)
      BY <2>8 DEF m, L
    <3>2. QED
      BY <3>1 DEF Stops, CallAt, NextCount
  <2>10. Counts(f, m, Stops(u), CallAt(u), NextCount(u))
    <3>1. ASSUME NEW n \in 0 .. m
          PROVE  f[n] = IF n \in Stops(u) THEN 0 ELSE CallAt(u)[n] + f[NextCount(u)[n]]
      <4>1. f[n] = IF n \in Stops(t) THEN 0 ELSE CallAt(t)[n] + f[NextCount(t)[n]]
        BY <1>1, <2>8 DEF CountsCalls, Counts
      <4>2. QED
        BY <2>9, <4>1
    <3>2. QED
      BY <3>1 DEF Counts
  <2>11. \A n \in 0 .. m : n \notin Stops(u) => NextCount(u)[n] \in Nat /\ NextCount(u)[n] < n
    BY <2>3, RestIs DEF m
  <2>12. f[m] = g[m]
    BY <2>6, <2>7, <2>10, <2>11, CountsAgree DEF CountsCalls
  <2>13. CallsInStream(t) = CallsFromInside(b)
    BY <1>1, <2>1, <2>5, <2>6, <2>12 DEF CallsFromInside, u
  <2>14. QED
    BY <1>1, <2>1, <2>13 DEF b
<1>6. QED
  BY <1>4, <1>5

\* A fence that starts in what came is read the same however the text goes on.
LEMMA CallsFromStart ==
    ASSUME NEW b \in Text, NEW w \in Text, FenceStarts(b) # {}
    PROVE  CallsInStream(b \o w) = CallsFromInside(Body(b) \o w)
<1> DEFINE k == Min(FenceStarts(b))
<1>1. /\ k \in 1 .. Len(b) - 1 /\ FenceStarts(b \o w) # {}
      /\ Min(FenceStarts(b \o w)) = k /\ b \o w \in Text /\ Len(b) \in Nat
  BY StartsStay, Joined
<1> HIDE DEF k
<1>2. k + 1 \in 0 .. Len(b)
  BY <1>1
<1>3. Suffix(b \o w, k + 1) = Suffix(b, k + 1) \o w
  BY <1>2, SplitJoined
<1>4. Body(b \o w) = Body(b) \o w
  BY <1>1, <1>3 DEF Body, k
<1>5. QED
  BY <1>1, <1>4, CallsUnfold

\* So is one that ends.
LEMMA CallsFromEnd ==
    ASSUME NEW b \in Text, NEW w \in Text, FenceEnds(b) # {}
    PROVE  CallsFromInside(b \o w) = Call(b) + CallsInStream(Behind(b) \o w)
<1> DEFINE k == Min(FenceEnds(b))
<1>1. /\ k \in 1 .. Len(b) /\ FenceEnds(b \o w) # {}
      /\ Min(FenceEnds(b \o w)) = k /\ b \o w \in Text /\ Len(b) \in Nat
  BY EndsStay, Joined
<1> HIDE DEF k
<1>2. k \in 0 .. Len(b) /\ k - 1 \in 0 .. Len(b)
  BY <1>1
<1>3. /\ Suffix(b \o w, k) = Suffix(b, k) \o w
      /\ Prefix(b \o w, k - 1) = Prefix(b, k - 1)
  BY <1>2, SplitJoined
<1>4. Behind(b \o w) = Behind(b) \o w /\ Call(b \o w) = Call(b)
  BY <1>1, <1>3 DEF Behind, Call, k
<1>5. QED
  BY <1>1, <1>4 DEF CallsFromInside

\* The half of a mark is not at the end of the text.
NoHalfMark(text) == text = <<>> \/ text[Len(text)] # "fence"

\* Prose that does not end with half of a mark holds no call, whatever follows.
LEMMA NoCallInProse ==
    ASSUME NEW b \in Text, NEW w \in Text, FenceStarts(b) = {}, NoHalfMark(b)
    PROVE  CallsInStream(b \o w) = CallsInStream(w)
<1> DEFINE n == Len(b)
<1>1. /\ b \o w \in Text /\ n \in Nat /\ Len(w) \in Nat /\ Len(b \o w) = n + Len(w)
      /\ \A i \in 1 .. n : (b \o w)[i] = b[i]
      /\ \A i \in 1 .. Len(w) : (b \o w)[n + i] = w[i]
      /\ <<>> \o w = w
  BY Joined
<1>2. CASE b = <<>>
  BY <1>1, <1>2
<1>3. CASE b # <<>>
  <2>1. n \in 1 .. n /\ b[n] # "fence"
    BY <1>1, <1>3 DEF NoHalfMark, Text
  <2> HIDE DEF n
  <2>2. ASSUME NEW k \in FenceStarts(b \o w)
        PROVE  k - n \in FenceStarts(w) /\ k \in Nat
    <3>1. /\ k \in 1 .. n + Len(w) - 1 /\ (b \o w)[k] = "fence"
          /\ (b \o w)[k + 1] = "json"
      BY <1>1 DEF FenceStarts
    <3>2. ~(k <= n)
      <4>1. CASE k <= n - 1
        <5>1. k \in 1 .. n - 1 /\ k \in 1 .. n /\ k + 1 \in 1 .. n
          BY <1>1, <3>1, <4>1
        <5>2. k \in FenceStarts(b)
          BY <1>1, <3>1, <5>1 DEF FenceStarts, n
        <5>3. QED
          BY <5>2
      <4>2. k # n
        BY <1>1, <2>1, <3>1
      <4>3. QED
        BY <1>1, <3>1, <4>1, <4>2
    <3>3. /\ k - n \in 1 .. Len(w) - 1 /\ k - n \in 1 .. Len(w)
          /\ (k - n) + 1 \in 1 .. Len(w)
          /\ n + (k - n) = k /\ n + ((k - n) + 1) = k + 1
      BY <1>1, <3>1, <3>2
    <3>4. w[k - n] = "fence" /\ w[(k - n) + 1] = "json"
      BY <1>1, <3>1, <3>3
    <3>5. QED
      BY <3>1, <3>3, <3>4 DEF FenceStarts
  <2>3. ASSUME NEW k \in FenceStarts(w)
        PROVE  k + n \in FenceStarts(b \o w) /\ k \in Nat
    <3>1. k \in 1 .. Len(w) - 1 /\ w[k] = "fence" /\ w[k + 1] = "json"
      BY DEF FenceStarts
    <3>2. /\ k \in 1 .. Len(w) /\ k + 1 \in 1 .. Len(w) /\ k + n = n + k
          /\ (k + n) + 1 = n + (k + 1) /\ k + n \in 1 .. Len(b \o w) - 1
      BY <1>1, <3>1
    <3>3. (b \o w)[k + n] = "fence" /\ (b \o w)[(k + n) + 1] = "json"
      BY <1>1, <3>1, <3>2
    <3>4. QED
      BY <3>1, <3>2, <3>3 DEF FenceStarts
  <2>4. CASE FenceStarts(w) = {}
    <3>1. FenceStarts(b \o w) = {}
      BY <2>2, <2>4
    <3>2. QED
      BY <1>1, <2>4, <3>1, CallsUnfold
  <2>5. CASE FenceStarts(w) # {}
    <3> DEFINE k == Min(FenceStarts(w))
    <3>1. k \in FenceStarts(w) /\ \A y \in FenceStarts(w) : k <= y
      <4>1. FenceStarts(w) \in SUBSET Nat
        BY <2>3
      <4>2. QED
        BY <2>5, <4>1, LeastMember
    <3> HIDE DEF k
    <3>2. \A y \in FenceStarts(b \o w) : k + n <= y
      BY <1>1, <2>2, <2>3, <3>1
    <3>3. Min(FenceStarts(b \o w)) = k + n /\ FenceStarts(b \o w) # {}
      <4>1. FenceStarts(b \o w) \in SUBSET Nat /\ k + n \in FenceStarts(b \o w)
        BY <2>2, <2>3, <3>1
      <4>2. QED
        BY <3>2, <4>1, LeastIs
    <3>4. Body(b \o w) = Body(w)
      <4>1. /\ n \in 0 .. n /\ Suffix(b, n) = <<>>
        <5>1. n \in 0 .. n
          BY <1>1
        <5>2. Suffix(b, n) \in Text /\ Len(Suffix(b, n)) = n - n
          BY <5>1, SplitAt DEF n
        <5>3. QED
          BY <1>1, <5>1, <5>2 DEF Text
      <4>2. Suffix(b \o w, n) = w
        BY <1>1, <4>1, SplitJoined DEF n
      <4>3. /\ n \in 0 .. Len(b \o w) /\ k + 1 \in 0 .. Len(b \o w) - n
            /\ n + (k + 1) = (k + n) + 1
        BY <1>1, <3>1 DEF FenceStarts
      <4>4. Suffix(Suffix(b \o w, n), k + 1) = Suffix(b \o w, (k + n) + 1)
        <5> DEFINE t == b \o w
                   i == k + 1
        <5>1. t \in Text /\ n \in 0 .. Len(t) /\ i \in 0 .. Len(t) - n
          BY <1>1, <4>3
        <5> HIDE DEF t, i
        <5>2. Suffix(Suffix(t, n), i) = Suffix(t, n + i)
          BY <5>1, SuffixOfSuffix
        <5>3. QED
          BY <4>3, <5>2 DEF t, i
      <4>5. QED
        BY <3>3, <4>2, <4>4 DEF Body, k
    <3>5. QED
      BY <1>1, <2>5, <3>3, <3>4, CallsUnfold
  <2>6. QED
    BY <2>4, <2>5
<1>4. QED
  BY <1>2, <1>3

\* The words of two texts, one behind the other.
LEMMA WordsJoined ==
    ASSUME NEW t \in Text, NEW w \in Text
    PROVE  /\ Cardinality(Words(t)) \in Nat
           /\ Cardinality(Words(t \o w)) = Cardinality(Words(t)) + Cardinality(Words(w))
<1> DEFINE n == Len(t)
           shifted == {n + k : k \in Words(w)}
           Word == {"prose", "close"} \cup Opening
<1>0. \A u : Words(u) = {k \in DOMAIN u : u[k] \in Word}
  BY DEF Words
<1> HIDE DEF Word
<1>1. /\ t \o w \in Text /\ n \in Nat /\ Len(w) \in Nat /\ Len(t \o w) = n + Len(w)
      /\ \A i \in 1 .. n : (t \o w)[i] = t[i]
      /\ \A i \in 1 .. Len(w) : (t \o w)[n + i] = w[i]
  BY Joined
<1>2. \A u \in Text : /\ Words(u) = {k \in 1 .. Len(u) : u[k] \in Word}
                      /\ IsFiniteSet(Words(u)) /\ Cardinality(Words(u)) \in Nat
  <2>1. ASSUME NEW u \in Text
        PROVE  /\ Words(u) = {k \in 1 .. Len(u) : u[k] \in Word}
               /\ IsFiniteSet(Words(u)) /\ Cardinality(Words(u)) \in Nat
    <3>1. DOMAIN u = 1 .. Len(u) /\ Len(u) \in Nat
      BY DEF Text
    <3>2. IsFiniteSet(1 .. Len(u)) /\ Words(u) \in SUBSET (1 .. Len(u))
      <4>1. 1 \in Int /\ Len(u) \in Int
        BY <3>1
      <4>2. IsFiniteSet(1 .. Len(u))
        BY <4>1, FS_Interval
      <4>3. QED
        BY <1>0, <3>1, <4>2
    <3>3. IsFiniteSet(Words(u))
      BY <3>2, FS_Subset
    <3>4. QED
      BY <1>0, <3>1, <3>3, FS_CardinalityType
  <2>2. QED
    BY <2>1
<1>3. /\ Words(t \o w) \subseteq Words(t) \cup shifted
      /\ Words(t) \cup shifted \subseteq Words(t \o w)
      /\ Words(t) \cap shifted = {}
  <2>1. ASSUME NEW k \in Words(t \o w)
        PROVE  k \in Words(t) \cup shifted
    <3>1. k \in 1 .. n + Len(w) /\ (t \o w)[k] \in Word
      BY <1>1, <1>2
    <3>2. CASE k <= n
      <4>1. k \in 1 .. n
        BY <1>1, <3>1, <3>2
      <4>2. QED
        BY <1>1, <1>2, <3>1, <4>1
    <3>3. CASE ~(k <= n)
      <4>1. k - n \in 1 .. Len(w) /\ n + (k - n) = k
        BY <1>1, <3>1, <3>3
      <4>2. w[k - n] \in Word
        BY <1>1, <3>1, <4>1
      <4>3. k - n \in Words(w)
        BY <1>2, <4>1, <4>2
      <4>4. QED
        BY <4>1, <4>3
    <3>4. QED
      BY <3>2, <3>3
  <2>2. ASSUME NEW k \in Words(t)
        PROVE  k \in Words(t \o w) /\ k <= n
    <3>1. k \in 1 .. n /\ t[k] \in Word
      BY <1>2
    <3>2. k \in 1 .. n + Len(w) /\ (t \o w)[k] = t[k]
      BY <1>1, <3>1
    <3>3. Words(t \o w) = {i \in 1 .. Len(t \o w) : (t \o w)[i] \in Word}
      BY <1>1, <1>2
    <3>4. k \in Words(t \o w)
      BY <1>1, <3>1, <3>2, <3>3
    <3>5. QED
      BY <1>1, <3>1, <3>4
  <2>3. ASSUME NEW k \in Words(w)
        PROVE  n + k \in Words(t \o w) /\ ~(n + k <= n)
    <3>1. k \in 1 .. Len(w) /\ w[k] \in Word
      BY <1>2
    <3>2. n + k \in 1 .. n + Len(w) /\ ~(n + k <= n)
      BY <1>1, <3>1
    <3>3. QED
      BY <1>1, <1>2, <3>1, <3>2
  <2>4. QED
    BY <2>1, <2>2, <2>3
<1>4. IsFiniteSet(shifted) /\ Cardinality(shifted) = Cardinality(Words(w))
  <2> DEFINE f == [k \in Words(w) |-> n + k]
  <2>1. \A k \in Words(w) : k \in Nat
    BY <1>2
  <2>2. f \in Injection(Words(w), shifted)
    <3>1. f \in [Words(w) -> shifted] /\ DOMAIN f = Words(w)
      OBVIOUS
    <3>2. \A j, k \in Words(w) : f[j] = f[k] => j = k
      BY <1>1, <2>1
    <3>3. IsInjective(f)
      BY <3>1, <3>2 DEF IsInjective
    <3>4. QED
      BY <3>1, <3>3 DEF Injection
  <2>3. f \in Surjection(Words(w), shifted)
    BY DEF Surjection
  <2>4. ExistsBijection(Words(w), shifted)
    BY <2>2, <2>3 DEF ExistsBijection, Bijection
  <2>5. QED
    BY <1>2, <2>4, FS_Bijection
<1>5. Words(t \o w) = Words(t) \cup shifted
  BY <1>3
<1> HIDE DEF shifted
<1>6. /\ Cardinality(Words(t) \cup shifted)
            = Cardinality(Words(t)) + Cardinality(shifted) - Cardinality(Words(t) \cap shifted)
  BY <1>2, <1>4, FS_Union
<1>7. Cardinality(Words(t) \cap shifted) = 0
  BY <1>3, FS_EmptySet
<1>8. QED
  BY <1>2, <1>4, <1>5, <1>6, <1>7

\* A text that is no word, and the two halves of a call.
LEMMA WordsOf ==
    /\ Cardinality(Words(<<>>)) = 0
    /\ \A t \in Text : (\A k \in 1 .. Len(t) : t[k] \in {"fence", "json"})
          => Cardinality(Words(t)) = 0
    /\ \A t \in Named : t \in Text /\ Cardinality(Words(t)) = 2 /\ Len(t) = 2
<1>1. ASSUME NEW t \in Text, \A k \in 1 .. Len(t) : t[k] \in {"fence", "json"}
      PROVE  Cardinality(Words(t)) = 0
  <2>1. DOMAIN t = 1 .. Len(t)
    BY DEF Text
  <2>2. Words(t) = {}
    BY <1>1, <2>1 DEF Words, Opening
  <2>3. QED
    BY <2>2, FS_EmptySet
<1>2. Cardinality(Words(<<>>)) = 0
  <2>1. <<>> \in Text /\ \A k \in 1 .. Len(<<>>) : <<>>[k] \in {"fence", "json"}
    BY DEF Text
  <2>2. QED
    BY <1>1, <2>1
<1>3. Cardinality(1 .. 2) = 2
  <2>1. 1 \in Int /\ 2 \in Int
    OBVIOUS
  <2>2. Cardinality(1 .. 2) = IF 1 > 2 THEN 0 ELSE 2 - 1 + 1
    BY <2>1, FS_Interval
  <2>3. QED
    BY <2>2
<1>4. ASSUME NEW open \in Opening, NEW t, t = <<open, "close">>
      PROVE  t \in Text /\ Cardinality(Words(t)) = 2 /\ Len(t) = 2
  <2>1. t \in Text /\ Len(t) = 2
    BY <1>4 DEF Text, Tokens
  <2>2. DOMAIN t = 1 .. 2 /\ t[1] = open /\ t[2] = "close"
    BY <1>4
  <2>3. \A k \in 1 .. 2 : t[k] \in {"prose", "close"} \cup Opening
    <3>1. \A k \in 1 .. 2 : k = 1 \/ k = 2
      OBVIOUS
    <3>2. "close" \in {"prose", "close"} \cup Opening /\ open \in {"prose", "close"} \cup Opening
      OBVIOUS
    <3>3. QED
      BY <2>2, <3>1, <3>2, Zenon
  <2>4. Words(t) = {k \in 1 .. 2 : t[k] \in {"prose", "close"} \cup Opening}
    BY <2>2 DEF Words
  <2>5. \A k : k \in Words(t) <=> k \in 1 .. 2
    BY <2>3, <2>4, Zenon
  <2>6. Words(t) = 1 .. 2
    BY <2>5
  <2>7. QED
    BY <1>3, <2>1, <2>6
<1>5. ASSUME NEW t \in Named
      PROVE  \E open \in Opening : t = <<open, "close">>
  BY DEF Named, CallObject, ToolObject, Opening
<1>6. QED
  BY <1>1, <1>2, <1>4, <1>5

\* Looking for the elements of what was shown one after the other finds them
\* all, if they are in the text at all in that order.
LEMMA ShownIsFound ==
    ASSUME shown \in Text, FullText \in Text, Within(shown, FullText)
    PROVE  NothingInvented
<1> DEFINE text == FullText
           n == Len(text)
           z == Len(shown)
           Value(g, k) == IF k = 0 THEN 0
                          ELSE LET m == g[k - 1]
                               IN  IF m < Len(shown) /\ shown[m + 1] = text[k]
                                   THEN m + 1 ELSE m
           Solves(g) == g = [k \in 0 .. Len(text) |-> Value(g, k)]
           step == [k \in 1 .. n |-> [m \in 0 .. z |->
                       IF m < z /\ shown[m + 1] = text[k] THEN m + 1 ELSE m]]
<1>1. NothingInvented <=> (CHOOSE g : Solves(g))[n] = z
  BY DEF NothingInvented
<1>2. n \in Nat /\ z \in Nat
  BY Joined
<1> HIDE DEF text, n, z
<1>3. /\ step \in [1 .. n -> [0 .. z -> 0 .. z]] /\ 0 \in 0 .. z
      /\ \A k \in 1 .. n, m \in 0 .. z :
            step[k][m] = IF m < z /\ shown[m + 1] = text[k] THEN m + 1 ELSE m
  BY <1>2
<1> HIDE DEF step
<1>4. PICK a \in [0 .. n -> 0 .. z] : a[0] = 0 /\ \A k \in 1 .. n : a[k] = step[k][a[k - 1]]
  <2>1. RecursionSolved(0 .. z, n, 0, step)
    BY <1>2, <1>3, RecursionExists
  <2>2. QED
    BY <2>1 DEF RecursionSolved
<1>5. Solves(a)
  <2>1. ASSUME NEW k \in 0 .. n
        PROVE  a[k] = Value(a, k)
    <3>1. CASE k = 0
      BY <1>4, <3>1
    <3>2. CASE k # 0
      <4>1. k \in 1 .. n /\ k - 1 \in 0 .. n
        BY <1>2, <3>2
      <4>2. a[k - 1] \in 0 .. z
        BY <4>1
      <4>3. a[k] = step[k][a[k - 1]]
        BY <1>4, <4>1
      <4>4. QED
        BY <1>3, <3>2, <4>1, <4>2, <4>3 DEF z
    <3>3. QED
      BY <3>1, <3>2
  <2>2. a = [k \in 0 .. n |-> a[k]]
    OBVIOUS
  <2>3. QED
    BY <2>1, <2>2 DEF n
<1> DEFINE g == CHOOSE h : Solves(h)
<1>6. Solves(g)
  BY <1>5
<1> HIDE DEF g
<1>7. /\ g[0] = 0
      /\ \A k \in 1 .. n :
            g[k] = IF g[k - 1] < z /\ shown[g[k - 1] + 1] = text[k]
                   THEN g[k - 1] + 1 ELSE g[k - 1]
  <2>1. \A k \in 0 .. n : g[k] = Value(g, k)
    BY <1>6 DEF n
  <2>2. 0 \in 0 .. n /\ \A k \in 1 .. n : k \in 0 .. n /\ k # 0
    BY <1>2
  <2>3. QED
    BY <2>1, <2>2 DEF z
<1>8. PICK f : Embeds(f, shown, text)
  BY DEF Within, text
<1>9. /\ \A i \in 1 .. z : f[i] \in 1 .. n /\ shown[i] = text[f[i]]
      /\ \A i, j \in 1 .. z : i < j => f[i] < f[j]
  BY <1>8 DEF Embeds, z, n
<1> DEFINE P == {k \in 0 .. n : g[k] \in 0 .. z /\ \A i \in 1 .. z : f[i] <= k => i <= g[k]}
<1>10. 0 \in P
  BY <1>2, <1>7, <1>9
<1>11. ASSUME NEW k \in 1 .. n, k - 1 \in P
       PROVE  k \in P
  <2> DEFINE m == g[k - 1]
  <2>1. m \in 0 .. z /\ \A i \in 1 .. z : f[i] <= k - 1 => i <= m
    BY <1>11
  <2>2. g[k] = IF m < z /\ shown[m + 1] = text[k] THEN m + 1 ELSE m
    BY <1>7
  <2> HIDE DEF m
  <2>3. g[k] \in 0 .. z /\ m <= g[k]
    BY <1>2, <2>1, <2>2
  <2>4. ASSUME NEW i \in 1 .. z, f[i] <= k
        PROVE  i <= g[k]
    <3>1. CASE f[i] <= k - 1
      BY <1>2, <2>1, <2>3, <3>1
    <3>2. CASE ~(f[i] <= k - 1)
      <4>1. f[i] = k /\ shown[i] = text[k]
        BY <1>2, <1>9, <2>4, <3>2
      <4>2. i - 1 <= m
        <5>1. CASE i = 1
          BY <2>1, <5>1
        <5>2. CASE i # 1
          <6>1. i - 1 \in 1 .. z /\ i - 1 < i
            BY <1>2, <5>2
          <6>2. f[i - 1] <= k - 1
            BY <1>9, <4>1, <6>1
          <6>3. QED
            BY <2>1, <6>1, <6>2
        <5>3. QED
          BY <5>1, <5>2
      <4>3. CASE m = i - 1
        <5>1. m < z /\ m + 1 = i
          BY <1>2, <4>3
        <5>2. QED
          BY <2>2, <4>1, <5>1
      <4>4. CASE m # i - 1
        BY <1>2, <2>1, <2>3, <4>2, <4>4
      <4>5. QED
        BY <4>3, <4>4
    <3>3. QED
      BY <3>1, <3>2
  <2>5. k \in 0 .. n
    BY <1>2
  <2>6. QED
    BY <2>3, <2>4, <2>5
<1>12. P \in SUBSET (0 .. n)
  OBVIOUS
<1> HIDE DEF P
<1>13. n \in P
  <2>1. P = 0 .. n
    BY <1>2, <1>10, <1>11, <1>12, UpTo
  <2>2. QED
    BY <1>2, <2>1
<1>14. g[n] = z
  <2>1. g[n] \in 0 .. z /\ \A i \in 1 .. z : f[i] <= n => i <= g[n]
    BY <1>13 DEF P
  <2>2. CASE z = 0
    BY <2>1, <2>2
  <2>3. CASE z # 0
    <3>1. z \in 1 .. z /\ f[z] <= n
      BY <1>2, <1>9, <2>3
    <3>2. QED
      BY <1>2, <2>1, <3>1
  <2>4. QED
    BY <2>2, <2>3
<1>15. QED
  BY <1>1, <1>14 DEF g, n, z, text

(***************************************************************************)
(* What the scanners do to the text.                                       *)
(***************************************************************************)
Scanner ==
    [buffer : Text, scanning : BOOLEAN, in_fence : BOOLEAN, index : Nat,
     accumulated : Text, current_tool : BOOLEAN, depth : Nat, start : Nat]

\* The text and the calls in what was yielded and not handed over.
TextIn(out) ==
    IF out # <<>> /\ out[1].event.kind = "TextDelta" THEN out[1].text ELSE <<>>
CallsIn(out) ==
    IF out # <<>> /\ out[1].event.kind = "ToolCallStart" THEN 1 ELSE 0

\* They are where they were put.
LEMMA WhatIsIn ==
    /\ TextIn(<<>>) = <<>> /\ CallsIn(<<>>) = 0
    /\ \A text : TextIn(<<TextEvent(text)>>) = text /\ CallsIn(<<TextEvent(text)>>) = 0
    /\ \A text, e : /\ TextIn(<<TextEvent(text), e>>) = text
                    /\ CallsIn(<<TextEvent(text), e>>) = 0
    /\ \A i : TextIn(CallEvents(i)) = <<>> /\ CallsIn(CallEvents(i)) = 1
    /\ \A i : /\ TextIn(Tail(CallEvents(i))) = <<>>
              /\ CallsIn(Tail(CallEvents(i))) = 0
              /\ TextIn(Tail(Tail(CallEvents(i)))) = <<>>
              /\ CallsIn(Tail(Tail(CallEvents(i)))) = 0
    /\ \A e : e.event.kind \in {"MessageEnd", "SinkError"} =>
                 TextIn(<<e>>) = <<>> /\ CallsIn(<<e>>) = 0
<1>1. \A text : /\ TextEvent(text).event.kind = "TextDelta"
                /\ TextEvent(text).text = text
  BY DEF TextEvent, Yielded, Delta
<1>2. \A e : <<e>> # <<>> /\ <<e>>[1] = e
  OBVIOUS
<1>3. \A e, f : <<e, f>> # <<>> /\ <<e, f>>[1] = e
  OBVIOUS
<1>4. \A text : TextIn(<<TextEvent(text)>>) = text /\ CallsIn(<<TextEvent(text)>>) = 0
  BY <1>1, <1>2 DEF TextIn, CallsIn
<1>5. \A text, e : /\ TextIn(<<TextEvent(text), e>>) = text
                   /\ CallsIn(<<TextEvent(text), e>>) = 0
  BY <1>1, <1>3 DEF TextIn, CallsIn
<1>6. \A e : e.event.kind \in {"MessageEnd", "SinkError"} =>
                TextIn(<<e>>) = <<>> /\ CallsIn(<<e>>) = 0
  BY <1>2 DEF TextIn, CallsIn
<1>7. ASSUME NEW i
      PROVE  /\ TextIn(CallEvents(i)) = <<>> /\ CallsIn(CallEvents(i)) = 1
             /\ TextIn(Tail(CallEvents(i))) = <<>>
             /\ CallsIn(Tail(CallEvents(i))) = 0
             /\ TextIn(Tail(Tail(CallEvents(i)))) = <<>>
             /\ CallsIn(Tail(Tail(CallEvents(i)))) = 0
  <2>1. /\ CallEvents(i) # <<>> /\ Tail(CallEvents(i)) # <<>>
        /\ Tail(Tail(CallEvents(i))) # <<>>
        /\ CallEvents(i)[1].event.kind = "ToolCallStart"
        /\ Tail(CallEvents(i))[1].event.kind = "ToolCallArgsDelta"
        /\ Tail(Tail(CallEvents(i)))[1].event.kind = "ToolCallEnd"
    BY DEF CallEvents, Yielded, ToolEvent
  <2>2. QED
    BY <2>1 DEF TextIn, CallsIn
<1>8. TextIn(<<>>) = <<>> /\ CallsIn(<<>>) = 0
  BY DEF TextIn, CallsIn
<1>9. QED
  BY <1>4, <1>5, <1>6, <1>7, <1>8

\* A candidate is a call, or text; so is what stands between braces.
LEMMA ParsedInto ==
    ASSUME NEW content, NEW i
    PROVE  /\ TextIn(ParseContent(content, i)) = IF content \in Named THEN <<>> ELSE content
           /\ CallsIn(ParseContent(content, i)) = IF content \in Named THEN 1 ELSE 0
           /\ TextIn(TryParse(content)) \in {<<>>, content}
<1>1. <<>> \notin Named
  BY DEF Named, CallObject, ToolObject
<1>2. CASE content \in Named
  <2>1. ParseContent(content, i) = CallEvents(i)
    BY <1>1, <1>2 DEF ParseContent
  <2>2. QED
    BY <1>2, <2>1, WhatIsIn DEF TryParse
<1>3. CASE content = <<>>
  <2>1. ParseContent(content, i) = <<>>
    BY <1>1, <1>3 DEF ParseContent
  <2>2. QED
    BY <1>1, <1>3, <2>1, WhatIsIn DEF TryParse
<1>4. CASE content # <<>> /\ content \notin Named
  <2>1. ParseContent(content, i) = <<TextEvent(content)>>
    BY <1>4 DEF ParseContent
  <2>2. QED
    BY <1>4, <2>1, WhatIsIn DEF TryParse
<1>5. QED
  BY <1>2, <1>3, <1>4

\* Outside a fence, no mark in sight: all of it is prose.
LEMMA OutsideAll ==
    ASSUME NEW g \in Scanner, ~g.in_fence, FenceStarts(g.buffer) = {},
           NEW turn, turn = ScanDSML(g)
    PROVE  /\ turn.scanner \in Scanner
           /\ turn.scanner.buffer = <<>> /\ ~turn.scanner.scanning
           /\ ~turn.scanner.in_fence /\ turn.scanner.accumulated = g.accumulated
           /\ turn.scanner.depth = g.depth /\ turn.scanner.start = g.start
           /\ TextIn(turn.out) = g.buffer /\ CallsIn(turn.out) = 0
           /\ ~CutsFence(turn) => NoHalfMark(g.buffer)
<1> DEFINE h == [g EXCEPT !.buffer = <<>>, !.scanning = FALSE]
<1>1. turn = Turn(h, <<TextEvent(g.buffer)>>)
  BY DEF ScanDSML, OutsideFence
<1>2. turn.scanner = h /\ turn.out = <<TextEvent(g.buffer)>>
  BY <1>1, TurnIs
<1>3. /\ h \in Scanner /\ h.buffer = <<>> /\ h.scanning = FALSE
      /\ h.in_fence = g.in_fence /\ h.accumulated = g.accumulated
      /\ h.depth = g.depth /\ h.start = g.start
  <2>1. <<>> \in Text
    BY DEF Text
  <2>2. QED
    BY <2>1 DEF Scanner
<1> HIDE DEF h
<1>4. ASSUME ~CutsFence(turn)
      PROVE  NoHalfMark(g.buffer)
  <2>1. TextEvent(g.buffer) \in {turn.out[k] : k \in DOMAIN turn.out}
    <3>1. 1 \in DOMAIN turn.out /\ turn.out[1] = TextEvent(g.buffer)
      BY <1>2
    <3>2. QED
      BY <3>1
  <2>2. TextEvent(g.buffer).text = g.buffer
    BY DEF TextEvent, Yielded
  <2>3. QED
    BY <1>2, <1>3, <1>4, <2>1, <2>2 DEF CutsFence, NoHalfMark
<1>5. QED
  BY <1>2, <1>3, <1>4, WhatIsIn

\* Outside a fence, up to its mark.
LEMMA OutsideUpTo ==
    ASSUME NEW g \in Scanner, ~g.in_fence, FenceStarts(g.buffer) # {},
           NEW turn, turn = ScanDSML(g), NEW k, k = Min(FenceStarts(g.buffer))
    PROVE  /\ turn.scanner \in Scanner
           /\ turn.scanner.buffer = Body(g.buffer)
           /\ turn.scanner.in_fence /\ turn.scanner.accumulated = <<>>
           /\ turn.scanner.depth = g.depth /\ turn.scanner.start = g.start
           /\ TextIn(turn.out) = Prefix(g.buffer, k - 1) /\ CallsIn(turn.out) = 0
           /\ k \in 1 .. Len(g.buffer) - 1 /\ Len(g.buffer) \in Nat
           /\ ~CutsFence(turn) => turn.scanner.scanning
<1> DEFINE b == g.buffer
           more == k + 1 < Len(g.buffer)
           h == [g EXCEPT !.buffer = Suffix(@, k + 1), !.in_fence = TRUE,
                          !.current_tool = TRUE, !.accumulated = <<>>,
                          !.scanning = more]
           out == IF k = 1 THEN <<>> ELSE <<TextEvent(Prefix(g.buffer, k - 1))>>
<1>1. turn = Turn(h, out)
  BY DEF ScanDSML, OutsideFence
<1>2. turn.scanner = h /\ turn.out = out
  BY <1>1, TurnIs
<1>3. b \in Text /\ <<>> \in Text
  BY DEF Scanner, Text
<1>4. k \in 1 .. Len(b) - 1 /\ Len(b) \in Nat
  BY <1>3, StartsStay, Joined
<1>5. Body(b) \in Text /\ Body(b) = Suffix(b, k + 1)
  BY <1>3, BodyIs DEF Body
<1>6. /\ h \in Scanner /\ h.buffer = Body(b)
      /\ h.in_fence = TRUE /\ h.accumulated = <<>>
      /\ h.depth = g.depth /\ h.start = g.start
  <2>1. more \in BOOLEAN
    OBVIOUS
  <2> HIDE DEF more
  <2>2. QED
    BY <1>3, <1>5, <2>1 DEF Scanner
<1> HIDE DEF h
<1>7. TextIn(out) = Prefix(b, k - 1) /\ CallsIn(out) = 0
  <2>1. CASE k = 1
    <3>1. 0 \in 0 .. Len(b)
      BY <1>4
    <3>2. Prefix(b, 0) \in Text /\ Len(Prefix(b, 0)) = 0
      BY <1>3, <3>1, SplitAt
    <3>3. Prefix(b, 0) = <<>> /\ k - 1 = 0
      BY <2>1, <3>2 DEF Text
    <3>4. QED
      BY <2>1, <3>3, WhatIsIn
  <2>2. CASE k # 1
    BY <2>2, WhatIsIn
  <2>3. QED
    BY <2>1, <2>2
<1>8. ~CutsFence(turn) => turn.scanner.scanning
  BY <1>2, <1>6 DEF CutsFence
<1>9. QED
  BY <1>2, <1>4, <1>6, <1>7, <1>8

\* Inside a fence that this chunk does not close.
LEMMA InsideAll ==
    ASSUME NEW g \in Scanner, g.in_fence, FenceEnds(g.buffer) = {},
           NEW turn, turn = ScanDSML(g)
    PROVE  /\ turn.scanner \in Scanner
           /\ turn.scanner.buffer = <<>> /\ turn.scanner.in_fence
           /\ turn.scanner.accumulated = g.accumulated \o g.buffer
           /\ turn.scanner.depth = g.depth /\ turn.scanner.start = g.start
           /\ TextIn(turn.out) = <<>> /\ CallsIn(turn.out) = 0
           /\ CutsFence(turn)
<1> DEFINE h == [g EXCEPT !.accumulated = @ \o g.buffer, !.buffer = <<>>,
                          !.scanning = FALSE]
<1>1. turn = Turn(h, <<>>)
  BY DEF ScanDSML, InsideFence
<1>2. turn.scanner = h /\ turn.out = <<>>
  BY <1>1, TurnIs
<1>3. g.accumulated \o g.buffer \in Text /\ <<>> \in Text
  <2>1. g.accumulated \in Text /\ g.buffer \in Text
    BY DEF Scanner
  <2>2. QED
    BY <2>1, Joined
<1>4. /\ h \in Scanner /\ h.buffer = <<>> /\ h.in_fence = g.in_fence
      /\ h.accumulated = g.accumulated \o g.buffer
      /\ h.depth = g.depth /\ h.start = g.start /\ h.scanning = FALSE
  BY <1>3 DEF Scanner
<1> HIDE DEF h
<1>5. QED
  BY <1>2, <1>4, WhatIsIn DEF CutsFence

\* Inside a fence, up to its end.
LEMMA InsideUpTo ==
    ASSUME NEW g \in Scanner, g.in_fence, FenceEnds(g.buffer) # {},
           NEW turn, turn = ScanDSML(g), NEW content,
           content = Prefix(g.buffer, Min(FenceEnds(g.buffer)) - 1)
    PROVE  /\ turn.scanner \in Scanner
           /\ turn.scanner.buffer = Behind(g.buffer)
           /\ ~turn.scanner.in_fence /\ turn.scanner.accumulated = <<>>
           /\ turn.scanner.depth = g.depth /\ turn.scanner.start = g.start
           /\ TextIn(turn.out) = IF content \in Named THEN <<>> ELSE content
           /\ CallsIn(turn.out) = Call(g.buffer)
           /\ turn.scanner.scanning \/ turn.scanner.buffer = <<>>
<1> DEFINE b == g.buffer
           k == Min(FenceEnds(b))
           more == k < Len(b)
           h == [g EXCEPT !.buffer = Suffix(@, k), !.in_fence = FALSE,
                          !.index = @ + 1, !.current_tool = FALSE,
                          !.accumulated = <<>>, !.scanning = more]
<1>1. turn = Turn(h, ParseContent(content, g.index))
  BY DEF ScanDSML, InsideFence
<1>2. turn.scanner = h /\ turn.out = ParseContent(content, g.index)
  BY <1>1, TurnIs
<1>3. b \in Text /\ <<>> \in Text /\ g.index \in Nat
  BY DEF Scanner, Text
<1>4. k \in 1 .. Len(b) /\ Len(b) \in Nat
  BY <1>3, EndsStay, Joined
<1>5. /\ Behind(b) \in Text /\ Behind(b) = Suffix(b, k)
      /\ Len(Behind(b)) = Len(b) - k
  BY <1>3, BehindIs DEF Behind
<1>6. /\ h \in Scanner /\ h.buffer = Behind(b)
      /\ h.in_fence = FALSE /\ h.accumulated = <<>>
      /\ h.depth = g.depth /\ h.start = g.start
      /\ h.scanning = more
  <2> DEFINE rest == Suffix(b, k)
             next == g.index + 1
  <2>1. more \in BOOLEAN /\ next \in Nat /\ rest = Behind(b) /\ rest \in Text
    BY <1>3, <1>5
  <2>2. h = [g EXCEPT !.buffer = rest, !.in_fence = FALSE,
                      !.index = next, !.current_tool = FALSE,
                      !.accumulated = <<>>, !.scanning = more]
    OBVIOUS
  <2> HIDE DEF more, next, rest, k, h
  <2>3. h \in Scanner
    BY <1>3, <2>1, <2>2 DEF Scanner
  <2>4. QED
    BY <2>1, <2>2, <2>3 DEF Scanner
<1> HIDE DEF h
<1>7. h.scanning \/ h.buffer = <<>>
  <2>1. CASE k < Len(b)
    BY <1>6, <2>1
  <2>2. CASE ~(k < Len(b))
    <3>1. Len(Behind(b)) = 0
      BY <1>4, <1>5, <2>2
    <3>2. QED
      BY <1>5, <1>6, <3>1 DEF Text
  <2>3. QED
    BY <2>1, <2>2
<1>8. /\ TextIn(turn.out) = IF content \in Named THEN <<>> ELSE content
      /\ CallsIn(turn.out) = Call(b)
  BY <1>2, ParsedInto DEF Call
<1>9. QED
  BY <1>2, <1>6, <1>7, <1>8

\* The depths of the braces are natural numbers, and each differs from the one
\* before as the token says.
LEMMA DepthsAre ==
    ASSUME NEW g \in Scanner
    PROVE  /\ Len(g.buffer) \in Nat
           /\ Depths(g) \in [0 .. Len(g.buffer) -> Nat]
           /\ Depths(g)[0] = g.depth
           /\ \A k \in 1 .. Len(g.buffer) :
                 Depths(g)[k - 1] = 0 => Depths(g)[k] \in {0, 1}
<1> DEFINE b == g.buffer
           n == Len(b)
           Value(f, k) == IF k = 0 THEN g.depth
                          ELSE CASE b[k] \in Opening -> f[k - 1] + 1
                                 [] b[k] = "close" /\ f[k - 1] > 0 -> f[k - 1] - 1
                                 [] OTHER -> f[k - 1]
           Solves(f) == f = [k \in 0 .. n |-> Value(f, k)]
           Then(k, m) == IF b[k] \in Opening THEN m + 1
                         ELSE IF b[k] = "close" /\ m > 0 THEN m - 1 ELSE m
           step == [k \in 1 .. n |-> [m \in Nat |-> Then(k, m)]]
<1>1. n \in Nat /\ g.depth \in Nat
  BY Joined DEF Scanner
<1>2. \A k, m : (CASE b[k] \in Opening -> m + 1
                   [] b[k] = "close" /\ m > 0 -> m - 1
                   [] OTHER -> m) = Then(k, m)
  BY DEF Opening
<1>3. \A f, k : Value(f, k) = IF k = 0 THEN g.depth ELSE Then(k, f[k - 1])
  BY <1>2
<1>4. \A k, m \in Nat : Then(k, m) \in Nat /\ (m = 0 => Then(k, m) \in {0, 1})
  <2>1. ASSUME NEW k \in Nat, NEW m \in Nat
        PROVE  Then(k, m) \in Nat /\ (m = 0 => Then(k, m) \in {0, 1})
    <3>1. CASE b[k] \in Opening
      <4>1. Then(k, m) = m + 1
        BY <3>1, Zenon
      <4>2. m + 1 \in Nat /\ (m = 0 => m + 1 \in {0, 1})
        OBVIOUS
      <4>3. QED
        BY <4>1, <4>2, Zenon
    <3>2. CASE b[k] \notin Opening /\ b[k] = "close" /\ m > 0
      <4>1. Then(k, m) = m - 1
        BY <3>2, Zenon
      <4>2. m > 0
        BY <3>2, Zenon
      <4>3. m - 1 \in Nat /\ (m = 0 => m - 1 \in {0, 1})
        BY <4>2
      <4>4. QED
        BY <4>1, <4>3, Zenon
    <3>3. CASE b[k] \notin Opening /\ ~(b[k] = "close" /\ m > 0)
      <4>1. Then(k, m) = m
        BY <3>3, Zenon
      <4>2. QED
        BY <4>1
    <3>4. QED
      BY <3>1, <3>2, <3>3
  <2>2. QED
    BY <2>1
<1>5. Depths(g) = CHOOSE f : Solves(f)
  BY DEF Depths
<1> HIDE DEF b, n, Value, Then
<1>6. /\ step \in [1 .. n -> [Nat -> Nat]]
      /\ \A k \in 1 .. n, m \in Nat : step[k][m] = Then(k, m)
  <2>1. \A k \in 1 .. n : k \in Nat
    BY <1>1
  <2>2. \A k \in 1 .. n, m \in Nat : Then(k, m) \in Nat
    BY <1>4, <2>1
  <2>3. QED
    BY <2>2
<1> HIDE DEF step
<1>7. PICK a \in [0 .. n -> Nat] :
          a[0] = g.depth /\ \A k \in 1 .. n : a[k] = step[k][a[k - 1]]
  <2>1. RecursionSolved(Nat, n, g.depth, step)
    BY <1>1, <1>6, RecursionExists
  <2>2. QED
    BY <2>1 DEF RecursionSolved
<1>8. Solves(a)
  <2>1. ASSUME NEW k \in 0 .. n
        PROVE  a[k] = Value(a, k)
    <3>1. CASE k = 0
      BY <1>3, <1>7, <3>1
    <3>2. CASE k # 0
      <4>1. k \in 1 .. n /\ k - 1 \in 0 .. n
        BY <1>1, <3>2
      <4>2. a[k - 1] \in Nat /\ a[k] = step[k][a[k - 1]]
        BY <1>7, <4>1
      <4>3. QED
        BY <1>3, <1>6, <3>2, <4>1, <4>2
    <3>3. QED
      BY <3>1, <3>2
  <2>2. a = [k \in 0 .. n |-> a[k]]
    OBVIOUS
  <2>3. QED
    BY <2>1, <2>2
<1> DEFINE d == Depths(g)
<1>9. Solves(d)
  BY <1>5, <1>8
<1> HIDE DEF d
<1>10. /\ d[0] = g.depth
       /\ \A k \in 1 .. n : d[k] = Then(k, d[k - 1])
  <2>1. \A k \in 0 .. n : d[k] = Value(d, k)
    BY <1>9
  <2>2. 0 \in 0 .. n /\ \A k \in 1 .. n : k \in 0 .. n /\ k # 0
    BY <1>1
  <2>3. QED
    BY <1>3, <2>1, <2>2
<1> DEFINE P == {k \in 0 .. n : d[k] \in Nat}
<1>11. 0 \in P
  BY <1>1, <1>10
<1>12. ASSUME NEW k \in 1 .. n, k - 1 \in P
       PROVE  k \in P
  <2>1. k \in 0 .. n /\ d[k] = Then(k, d[k - 1]) /\ d[k - 1] \in Nat
    BY <1>1, <1>10, <1>12
  <2>2. d[k] \in Nat
    <3>1. k \in Nat
      BY <1>1
    <3>2. QED
      BY <1>4, <2>1, <3>1
  <2>3. QED
    BY <2>1, <2>2
<1>13. P \in SUBSET (0 .. n)
  OBVIOUS
<1> HIDE DEF P
<1>14. P = 0 .. n
  BY <1>1, <1>11, <1>12, <1>13, UpTo
<1>15. \A k \in 0 .. n : d[k] \in Nat
  BY <1>14 DEF P
<1>16. d \in [0 .. n -> Nat]
  <2>1. d = [k \in 0 .. n |-> d[k]]
    BY <1>9
  <2>2. QED
    BY <1>15, <2>1
<1>17. ASSUME NEW k \in 1 .. n, d[k - 1] = 0
       PROVE  d[k] \in {0, 1}
  <2>1. d[k] = Then(k, d[k - 1]) /\ k \in Nat /\ 0 \in Nat
    BY <1>1, <1>10
  <2>2. QED
    BY <1>4, <1>17, <2>1
<1>18. QED
  BY <1>1, <1>10, <1>16, <1>17 DEF d, n, b

\* Braces that were not open are opened before they are closed.
LEMMA OpenedBefore ==
    ASSUME NEW g \in Scanner, g.depth = 0, NEW j \in 0 .. Len(g.buffer),
           \A k \in 1 .. j : ~(Depths(g)[k - 1] = 0 /\ Depths(g)[k] = 1)
    PROVE  Depths(g)[j] = 0
<1> DEFINE P == {k \in 0 .. j : Depths(g)[k] = 0}
<1>1. Len(g.buffer) \in Nat /\ j \in Nat
  BY DepthsAre
<1>2. 0 \in P
  BY <1>1, DepthsAre
<1>3. ASSUME NEW k \in 1 .. j, k - 1 \in P
      PROVE  k \in P
  <2>1. k \in 1 .. Len(g.buffer) /\ k \in 0 .. j
    BY <1>1
  <2>2. Depths(g)[k] \in {0, 1}
    BY <1>3, <2>1, DepthsAre
  <2>3. QED
    BY <1>3, <2>1, <2>2
<1>4. P \in SUBSET (0 .. j)
  OBVIOUS
<1> HIDE DEF P
<1>5. j \in P
  <2>1. P = 0 .. j
    BY <1>1, <1>2, <1>3, <1>4, UpTo
  <2>2. QED
    BY <1>1, <2>1
<1>6. QED
  BY <1>5 DEF P

\* FreeTextGrammar gives back a piece of what it looked at, from where the
\* outermost brace opened, or keeps it.
LEMMA FreeTextText ==
    ASSUME NEW g \in Scanner, g.depth # 0 => g.start # 0,
           NEW turn, turn = ScanFreeText(g)
    PROVE  /\ turn.scanner \in Scanner
           /\ turn.scanner.in_fence = g.in_fence
           /\ turn.scanner.accumulated = g.accumulated
           /\ turn.scanner.depth # 0 => turn.scanner.start # 0
           /\ TextIn(turn.out) \in Text
           /\ Within(TextIn(turn.out) \o turn.scanner.buffer, g.buffer)
<1> DEFINE b == g.buffer
           size == Len(b)
           depth == Depths(g)
           Opens(k) == depth[k - 1] = 0 /\ depth[k] = 1
           closing == {k \in 1 .. size : depth[k - 1] = 1 /\ depth[k] = 0}
           opened(limit) == {m \in 1 .. limit : Opens(m)}
           start(limit) == IF opened(limit) = {} THEN g.start ELSE Max(opened(limit))
           last == Min(closing)
           more == last < size
           content == SubSeq(b, start(last), last)
           Closed == [g EXCEPT !.buffer = Suffix(@, last), !.depth = 0, !.scanning = more]
           Emptied == [g EXCEPT !.buffer = <<>>, !.scanning = FALSE]
           Kept == [g EXCEPT !.depth = depth[size], !.start = start(size),
                             !.scanning = FALSE]
<1>1. \/ closing # {} /\ turn = Turn(Closed, TryParse(content))
      \/ closing = {} /\ turn = Turn(Emptied, <<TextEvent(b)>>)
      \/ closing = {} /\ depth[size] # 0 /\ turn = Turn(Kept, <<>>)
  BY DEF ScanFreeText
<1>2. /\ size \in Nat /\ depth \in [0 .. size -> Nat] /\ b \in Text /\ <<>> \in Text
      /\ g.depth \in Nat /\ g.start \in Nat
  BY DepthsAre, Joined DEF Scanner
<1>3. ASSUME NEW limit \in 0 .. size
      PROVE  /\ start(limit) \in Nat
             /\ start(limit) = 0 => \A m \in 1 .. limit : ~Opens(m)
             /\ start(limit) = 0 => g.depth = 0
  <2>1. CASE opened(limit) = {}
    BY <1>2, <2>1
  <2>2. CASE opened(limit) # {}
    <3>1. opened(limit) \in SUBSET (0 .. limit) /\ limit \in Nat
      BY <1>2
    <3>2. Max(opened(limit)) \in opened(limit)
      BY <2>2, <3>1, GreatestMember
    <3>3. Max(opened(limit)) \in 1 .. limit
      BY <3>2
    <3>4. QED
      BY <1>2, <2>2, <3>3
  <2>3. QED
    BY <2>1, <2>2
<1>4. \A limit \in 0 .. size : start(limit) = 0 => depth[limit] = 0
  <2>1. ASSUME NEW limit \in 0 .. size, start(limit) = 0
        PROVE  depth[limit] = 0
    <3>1. g.depth = 0 /\ \A m \in 1 .. limit : ~Opens(m)
      BY <1>3, <2>1
    <3>2. QED
      BY <3>1, OpenedBefore
  <2>2. QED
    BY <2>1
<1>5. CASE closing # {} /\ turn = Turn(Closed, TryParse(content))
  <2>1. last \in 1 .. size /\ depth[last - 1] = 1 /\ depth[last] = 0
    <3>1. closing \in SUBSET Nat
      BY <1>2
    <3>2. last \in closing
      BY <1>5, <3>1, LeastMember
    <3>3. QED
      BY <3>2
  <2>2. /\ last \in 0 .. size /\ last - 1 \in 0 .. size
        /\ start(last) \in Nat /\ start(last) # 0
    <3>1. last \in 0 .. size /\ last - 1 \in 0 .. size
      BY <1>2, <2>1
    <3>2. start(last) \in Nat
      BY <1>3, <3>1
    <3>3. start(last) # 0
      <4>1. SUFFICES ASSUME start(last) = 0 PROVE FALSE
        OBVIOUS
      <4>2. g.depth = 0 /\ \A m \in 1 .. last : ~Opens(m)
        BY <1>3, <3>1, <4>1
      <4>3. \A m \in 1 .. last - 1 : m \in 1 .. last
        BY <1>2, <2>1
      <4>4. depth[last - 1] = 0
        BY <3>1, <4>2, <4>3, OpenedBefore
      <4>5. QED
        BY <2>1, <4>4
    <3>4. QED
      BY <3>1, <3>2, <3>3
  <2> HIDE DEF last
  <2>3. /\ Prefix(b, last) \in Text /\ Suffix(b, last) \in Text
        /\ Len(Prefix(b, last)) = last
        /\ \A i \in 1 .. last : Prefix(b, last)[i] = b[i]
        /\ Prefix(b, last) \o Suffix(b, last) = b
    BY <1>2, <2>2, SplitAt
  <2> DEFINE from == start(last)
  <2>4. from \in Nat /\ from >= 1
    BY <2>2
  <2> HIDE DEF from, size, depth
  <2>5. /\ content \in Text
        /\ Len(content) = IF from <= last THEN last - from + 1 ELSE 0
        /\ \A i \in 1 .. last - from + 1 : content[i] = b[from + i - 1]
    <3>1. \A i \in from .. last : b[i] \in Tokens
      <4>1. \A i \in 1 .. size : b[i] \in Tokens
        BY <1>2 DEF Text, size
      <4>2. \A i \in from .. last : i \in 1 .. size
        BY <1>2, <2>1, <2>4
      <4>3. QED
        BY <4>1, <4>2
    <3>2. content = SubSeq(b, from, last)
      BY DEF from
    <3>3. last \in Int /\ from \in Int
      BY <1>2, <2>1, <2>4
    <3> HIDE DEF content
    <3>4. QED
      BY <3>1, <3>2, <3>3, SubSeqProperties DEF Text
  <2> HIDE DEF content
  <2>6. Within(content, Prefix(b, last))
    <3>1. ASSUME NEW i \in 1 .. Len(content)
          PROVE  /\ (from - 1) + i <= Len(Prefix(b, last))
                 /\ content[i] = Prefix(b, last)[(from - 1) + i]
      <4>1. from <= last /\ i \in 1 .. last - from + 1
        BY <1>2, <2>1, <2>4, <2>5
      <4>2. /\ (from - 1) + i \in 1 .. last /\ (from - 1) + i = from + i - 1
        BY <1>2, <2>1, <2>4, <4>1
      <4>3. QED
        BY <2>3, <2>5, <4>1, <4>2
    <3>2. from - 1 \in Nat
      BY <2>4
    <3>3. QED
      BY <2>3, <2>5, <3>1, <3>2, PieceWithin DEF Text
  <2>7. /\ turn.scanner = Closed /\ turn.out = TryParse(content)
    BY <1>5, TurnIs
  <2>8. TextIn(turn.out) \in Text /\ Within(TextIn(turn.out), Prefix(b, last))
    <3>1. TextIn(turn.out) \in {<<>>, content}
      BY <2>7, ParsedInto
    <3>2. Within(<<>>, Prefix(b, last))
      BY <2>3, WithinItself DEF Text
    <3>3. QED
      BY <1>2, <2>5, <2>6, <3>1, <3>2
  <2>9. Within(TextIn(turn.out) \o Suffix(b, last), b)
    <3>1. Within(Suffix(b, last), Suffix(b, last))
      BY <2>3, WithinItself DEF Text
    <3>2. Within(TextIn(turn.out) \o Suffix(b, last), Prefix(b, last) \o Suffix(b, last))
      BY <2>3, <2>8, <3>1, WithinBoth DEF Text
    <3>3. QED
      BY <2>3, <3>2
  <2>10. /\ Closed \in Scanner /\ Closed.buffer = Suffix(b, last)
         /\ Closed.in_fence = g.in_fence /\ Closed.accumulated = g.accumulated
         /\ Closed.depth = 0
    <3> DEFINE rest == Suffix(b, last)
    <3>1. more \in BOOLEAN /\ rest \in Text
      BY <2>3
    <3>2. Closed = [g EXCEPT !.buffer = rest, !.depth = 0, !.scanning = more]
      OBVIOUS
    <3> HIDE DEF more, rest, Closed
    <3>3. Closed \in Scanner
      BY <3>1, <3>2 DEF Scanner
    <3>4. QED
      BY <3>2, <3>3 DEF Scanner, rest
  <2> HIDE DEF Closed
  <2>11. QED
    BY <2>7, <2>8, <2>9, <2>10
<1>6. CASE turn = Turn(Emptied, <<TextEvent(b)>>)
  <2>1. turn.scanner = Emptied /\ TextIn(turn.out) = b
    BY <1>6, TurnIs, WhatIsIn
  <2>2. /\ Emptied \in Scanner /\ Emptied.buffer = <<>>
        /\ Emptied.in_fence = g.in_fence /\ Emptied.accumulated = g.accumulated
        /\ Emptied.depth = g.depth /\ Emptied.start = g.start
    BY <1>2 DEF Scanner
  <2> HIDE DEF Emptied
  <2>3. b \o <<>> = b /\ Within(b, b)
    BY <1>2, Joined, WithinItself DEF Text
  <2>4. QED
    BY <1>2, <2>1, <2>2, <2>3
<1>7. CASE depth[size] # 0 /\ turn = Turn(Kept, <<>>)
  <2>1. turn.scanner = Kept /\ TextIn(turn.out) = <<>>
    BY <1>7, TurnIs, WhatIsIn
  <2>2. size \in 0 .. size /\ depth[size] \in Nat
    BY <1>2
  <2>3. start(size) \in Nat /\ start(size) # 0
    BY <1>3, <1>4, <1>7, <2>2
  <2>4. /\ Kept \in Scanner /\ Kept.buffer = b
        /\ Kept.in_fence = g.in_fence /\ Kept.accumulated = g.accumulated
        /\ Kept.start = start(size)
    <3> DEFINE d == depth[size]
               from == start(size)
    <3>1. d \in Nat /\ from \in Nat
      BY <2>2, <2>3
    <3>2. Kept = [g EXCEPT !.depth = d, !.start = from, !.scanning = FALSE]
      OBVIOUS
    <3> HIDE DEF d, from, Kept
    <3>3. Kept \in Scanner
      BY <3>1, <3>2 DEF Scanner
    <3>4. QED
      BY <3>2, <3>3 DEF Scanner, from
  <2> HIDE DEF Kept
  <2>5. <<>> \o b = b /\ Within(b, b)
    BY <1>2, Joined, WithinItself DEF Text
  <2>6. QED
    BY <1>2, <2>1, <2>3, <2>4, <2>5
<1>8. QED
  BY <1>1, <1>5, <1>6, <1>7

(***************************************************************************)
(* What a turn does to the text that is still on its way, and to the words *)
(* and calls in it.                                                        *)
(***************************************************************************)
NumWords(text) == Cardinality(Words(text))

\* Of three texts, it does not matter which two are put together first.
LEMMA Assoc ==
    \A s, t, u \in Text : (s \o t) \o u = s \o (t \o u)
BY ConcatAssociative DEF Text

\* What comes first or last in a text is within it.
LEMMA PartsWithin ==
    ASSUME NEW s \in Text, NEW t \in Text
    PROVE  Within(s, s \o t) /\ Within(t, s \o t) /\ Within(s, s) /\ Within(<<>>, s)
<1>1. Within(s, s) /\ Within(<<>>, s) /\ Within(t, t) /\ Within(<<>>, t) /\ <<>> \in Text
  BY WithinItself, Joined DEF Text
<1>2. Within(s \o <<>>, s \o t) /\ Within(<<>> \o t, s \o t)
  BY <1>1, WithinBoth DEF Text
<1>3. QED
  BY <1>1, <1>2, Joined

\* A text stays within another when what it ends with is made smaller.
LEMMA EndShrinks ==
    ASSUME NEW s \in Text, NEW x \in Text, NEW y \in Text, NEW t \in Text,
           Within(s \o x, t), Within(y, x)
    PROVE  Within(s \o y, t)
<1>1. s \o x \in Text /\ s \o y \in Text /\ Within(s, s)
  BY Joined, PartsWithin
<1>2. Within(s \o y, s \o x)
  BY <1>1, WithinBoth DEF Text
<1>3. QED
  BY <1>1, <1>2, WithinPart DEF Text

\* Cutting the marks of a fence out of a text loses no word.
LEMMA CutOut ==
    ASSUME NEW t \in Text, NEW j \in 0 .. Len(t), NEW k \in j .. Len(t),
           \A i \in j + 1 .. k : t[i] \in {"fence", "json"}
    PROVE  /\ Prefix(t, j) \in Text /\ Suffix(t, j) \in Text /\ Suffix(t, k) \in Text
           /\ Prefix(t, j) \o Suffix(t, j) = t
           /\ Within(Suffix(t, k), Suffix(t, j))
           /\ NumWords(t) = NumWords(Prefix(t, j)) + NumWords(Suffix(t, k))
<1> DEFINE s == Suffix(t, j)
           m == k - j
           mark == Prefix(s, m)
           rest == Suffix(s, m)
<1>1. /\ Len(t) \in Nat /\ j \in Nat /\ k \in Nat /\ k \in 0 .. Len(t)
      /\ m \in 0 .. Len(t) - j /\ j + m = k
  BY Joined
<1>2. /\ Prefix(t, j) \in Text /\ s \in Text /\ Len(s) = Len(t) - j
      /\ Prefix(t, j) \o s = t
      /\ \A i \in 1 .. Len(t) - j : s[i] = t[j + i]
  BY SplitAt
<1>3. rest = Suffix(t, k)
  BY <1>1, SuffixOfSuffix
<1> HIDE DEF s, m
<1>4. /\ mark \in Text /\ rest \in Text /\ mark \o rest = s
      /\ Len(mark) = m /\ \A i \in 1 .. m : mark[i] = s[i]
  <2>1. s \in Text /\ m \in 0 .. Len(s)
    BY <1>1, <1>2
  <2>2. QED
    BY <2>1, SplitAt
<1> HIDE DEF mark, rest
<1>5. NumWords(mark) = 0
  <2>1. ASSUME NEW i \in 1 .. Len(mark)
        PROVE  mark[i] \in {"fence", "json"}
    <3>1. /\ i \in 1 .. m /\ i \in 1 .. Len(t) - j /\ j + i \in j + 1 .. k
      BY <1>1, <1>4
    <3>2. mark[i] = t[j + i]
      BY <1>2, <1>4, <3>1
    <3>3. QED
      BY <3>1, <3>2
  <2>2. QED
    BY <1>4, <2>1, WordsOf DEF NumWords
<1>6. /\ NumWords(t) = NumWords(Prefix(t, j)) + NumWords(s)
      /\ NumWords(s) = NumWords(mark) + NumWords(rest)
      /\ NumWords(Prefix(t, j)) \in Nat /\ NumWords(rest) \in Nat
  BY <1>2, <1>4, WordsJoined DEF NumWords
<1>7. Within(rest, s)
  BY <1>4, PartsWithin
<1>8. QED
  BY <1>2, <1>3, <1>4, <1>5, <1>6, <1>7 DEF s

\* The calls of the text that a scanner has not looked at, and of w behind it.
CallsBehind(g, w) ==
    IF g.in_fence THEN CallsFromInside(g.buffer \o w) ELSE CallsInStream(g.buffer \o w)

\* They are a number.
LEMMA BehindNat ==
    ASSUME NEW g, g.buffer \in Text, NEW w \in Text
    PROVE  CallsBehind(g, w) \in Nat
<1> DEFINE t == g.buffer \o w
<1>1. t \in Text
  BY Joined
<1>2. CallsInStream(t) \in Nat
  BY <1>1, CallsUnfold
<1>3. CallsFromInside(t) \in Nat
  <2>1. CASE FenceEnds(t) = {}
    BY <2>1 DEF CallsFromInside
  <2>2. CASE FenceEnds(t) # {}
    <3>1. Behind(t) \in Text /\ Call(t) \in Nat
      BY <1>1, <2>2, BehindIs
    <3>2. CallsInStream(Behind(t)) \in Nat
      BY <3>1, CallsUnfold
    <3>3. QED
      BY <2>2, <3>1, <3>2 DEF CallsFromInside
  <2>3. QED
    BY <2>1, <2>2
<1>4. QED
  BY <1>2, <1>3 DEF CallsBehind

\* What is held of a fence, and behind it what was not looked at.
Held(g) == g.accumulated \o g.buffer

\* A turn of DSMLGrammar yields what it looked at, or keeps it, in its order.
\* When no fence is cut it loses no word, and finds the calls
\* in it.
TurnKeepsText(g, turn) ==
    /\ turn.scanner \in Scanner
    /\ ~turn.scanner.in_fence => turn.scanner.accumulated = <<>>
    /\ turn.scanner.depth = g.depth /\ turn.scanner.start = g.start
    /\ TextIn(turn.out) \in Text /\ CallsIn(turn.out) \in Nat
    /\ Within(TextIn(turn.out) \o Held(turn.scanner), Held(g))

TurnKeepsWords(g, turn) ==
    /\ turn.scanner.accumulated = <<>>
    /\ ~turn.scanner.scanning => ~turn.scanner.in_fence /\ turn.scanner.buffer = <<>>
    /\ NumWords(g.buffer) = NumWords(TextIn(turn.out)) + NumWords(turn.scanner.buffer)
                              + 2 * CallsIn(turn.out)
    /\ \A w \in Text : CallsBehind(g, w) = CallsIn(turn.out) + CallsBehind(turn.scanner, w)

\* So it does outside a fence.
LEMMA OutsideText ==
    ASSUME NEW g \in Scanner, ~g.in_fence, g.accumulated = <<>>,
           NEW turn, turn = ScanDSML(g)
    PROVE  TurnKeepsText(g, turn) /\ (~CutsFence(turn) => TurnKeepsWords(g, turn))
<1> DEFINE b == g.buffer
<1>1. b \in Text /\ <<>> \in Text /\ Held(g) = b
  BY Joined DEF Scanner, Held
<1>2. NumWords(<<>>) = 0 /\ NumWords(b) \in Nat
  BY <1>1, WordsOf, WordsJoined DEF NumWords
<1>3. CASE FenceStarts(b) = {}
  <2> DEFINE h == turn.scanner
  <2>1. /\ h \in Scanner /\ h.buffer = <<>> /\ ~h.scanning
        /\ ~h.in_fence /\ h.accumulated = <<>>
        /\ h.depth = g.depth /\ h.start = g.start
        /\ TextIn(turn.out) = b /\ CallsIn(turn.out) = 0
        /\ ~CutsFence(turn) => NoHalfMark(b)
    BY <1>3, OutsideAll
  <2>2. Held(h) = <<>> /\ b \o Held(h) = b /\ Within(b, b)
    BY <1>1, <2>1, Joined, PartsWithin DEF Held
  <2>3. TurnKeepsText(g, turn)
    BY <1>1, <2>1, <2>2 DEF TurnKeepsText
  <2>4. ASSUME ~CutsFence(turn)
        PROVE  TurnKeepsWords(g, turn)
    <3>1. ASSUME NEW w \in Text
          PROVE  CallsBehind(g, w) = CallsIn(turn.out) + CallsBehind(h, w)
      <4>1. CallsInStream(b \o w) = CallsInStream(w)
        BY <1>1, <1>3, <2>1, <2>4, NoCallInProse
      <4>2. CallsBehind(g, w) = CallsInStream(w)
        BY <4>1 DEF CallsBehind
      <4>3. CallsBehind(h, w) = CallsInStream(w) /\ CallsInStream(w) \in Nat
        BY <2>1, Joined, CallsUnfold DEF CallsBehind
      <4>4. QED
        BY <2>1, <4>2, <4>3
    <3>2. NumWords(b) = NumWords(TextIn(turn.out)) + NumWords(h.buffer)
                          + 2 * CallsIn(turn.out)
      BY <1>2, <2>1
    <3>3. QED
      BY <2>1, <3>1, <3>2 DEF TurnKeepsWords
  <2>5. QED
    BY <2>3, <2>4
<1>4. CASE FenceStarts(b) # {}
  <2> DEFINE h == turn.scanner
             k == Min(FenceStarts(b))
             p == Prefix(b, k - 1)
  <2>1. /\ h \in Scanner /\ h.buffer = Body(b) /\ h.in_fence /\ h.accumulated = <<>>
        /\ h.depth = g.depth /\ h.start = g.start
        /\ TextIn(turn.out) = p /\ CallsIn(turn.out) = 0
        /\ k \in 1 .. Len(b) - 1 /\ Len(b) \in Nat
        /\ ~CutsFence(turn) => h.scanning
    BY <1>4, OutsideUpTo
  <2>2. Body(b) = Suffix(b, k + 1)
    BY DEF Body
  <2>3. /\ p \in Text /\ Suffix(b, k - 1) \in Text /\ Body(b) \in Text
        /\ p \o Suffix(b, k - 1) = b
        /\ Within(Body(b), Suffix(b, k - 1))
        /\ NumWords(b) = NumWords(p) + NumWords(Body(b))
    <3>1. b[k] = "fence" /\ b[k + 1] = "json"
      BY <1>1, <1>4, StartsStay
    <3> HIDE DEF k
    <3>2. /\ k - 1 \in 0 .. Len(b) /\ k + 1 \in k - 1 .. Len(b)
          /\ \A i \in (k - 1) + 1 .. k + 1 : i = k \/ i = k + 1
      BY <2>1
    <3>3. \A i \in (k - 1) + 1 .. k + 1 : b[i] \in {"fence", "json"}
      BY <3>1, <3>2
    <3>4. /\ Prefix(b, k - 1) \in Text /\ Suffix(b, k - 1) \in Text
          /\ Suffix(b, k + 1) \in Text
          /\ Prefix(b, k - 1) \o Suffix(b, k - 1) = b
          /\ Within(Suffix(b, k + 1), Suffix(b, k - 1))
          /\ NumWords(b) = NumWords(Prefix(b, k - 1))
                              + NumWords(Suffix(b, k + 1))
      <4> DEFINE from == k - 1
                 to == k + 1
      <4>1. /\ b \in Text /\ from \in 0 .. Len(b) /\ to \in from .. Len(b)
            /\ \A i \in from + 1 .. to : b[i] \in {"fence", "json"}
        BY <1>1, <3>2, <3>3
      <4> HIDE DEF from, to, b
      <4>2. /\ Prefix(b, from) \in Text /\ Suffix(b, from) \in Text
            /\ Suffix(b, to) \in Text
            /\ Prefix(b, from) \o Suffix(b, from) = b
            /\ Within(Suffix(b, to), Suffix(b, from))
            /\ NumWords(b) = NumWords(Prefix(b, from)) + NumWords(Suffix(b, to))
        BY <4>1, CutOut
      <4>3. QED
        BY <4>2 DEF from, to
    <3>5. QED
      BY <2>2, <3>4
  <2> HIDE DEF k, p
  <2>4. Held(h) = Body(b)
    BY <2>1, <2>3, Joined DEF Held
  <2>5. Within(p \o Held(h), Held(g))
    <3>1. Within(p, p)
      BY <2>3, PartsWithin
    <3>2. Within(p \o Body(b), p \o Suffix(b, k - 1))
      BY <2>3, <3>1, WithinBoth DEF Text
    <3>3. QED
      BY <1>1, <2>3, <2>4, <3>2
  <2>6. TurnKeepsText(g, turn)
    BY <2>1, <2>3, <2>5 DEF TurnKeepsText
  <2>7. ASSUME ~CutsFence(turn)
        PROVE  TurnKeepsWords(g, turn)
    <3>1. ASSUME NEW w \in Text
          PROVE  CallsBehind(g, w) = CallsIn(turn.out) + CallsBehind(h, w)
      <4>1. CallsInStream(b \o w) = CallsFromInside(Body(b) \o w)
        BY <1>1, <1>4, CallsFromStart
      <4>2. CallsInStream(b \o w) \in Nat
        BY <1>1, Joined, CallsUnfold
      <4>3. CallsBehind(g, w) = CallsInStream(b \o w)
        BY DEF CallsBehind
      <4>4. CallsBehind(h, w) = CallsFromInside(Body(b) \o w)
        BY <2>1 DEF CallsBehind
      <4>5. QED
        BY <2>1, <4>1, <4>2, <4>3, <4>4
    <3>2. NumWords(p) \in Nat /\ NumWords(Body(b)) \in Nat
      BY <2>3, WordsJoined DEF NumWords
    <3>3. NumWords(b) = NumWords(TextIn(turn.out)) + NumWords(h.buffer)
                          + 2 * CallsIn(turn.out)
      BY <2>1, <2>3, <3>2
    <3>4. QED
      BY <2>1, <2>7, <3>1, <3>3 DEF TurnKeepsWords
  <2>8. QED
    BY <2>6, <2>7
<1>5. QED
  BY <1>3, <1>4

\* And inside.
LEMMA InsideText ==
    ASSUME NEW g \in Scanner, g.in_fence,
           NEW turn, turn = ScanDSML(g)
    PROVE  /\ TurnKeepsText(g, turn)
           /\ g.accumulated = <<>> /\ ~CutsFence(turn) => TurnKeepsWords(g, turn)
<1> DEFINE b == g.buffer
           acc == g.accumulated
<1>1. b \in Text /\ <<>> \in Text /\ acc \in Text /\ Held(g) = acc \o b
  BY Joined DEF Scanner, Held
<1>2. NumWords(<<>>) = 0 /\ NumWords(b) \in Nat
  BY <1>1, WordsOf, WordsJoined DEF NumWords
<1>3. CASE FenceEnds(b) = {}
  <2> DEFINE h == turn.scanner
  <2>1. /\ h \in Scanner /\ h.buffer = <<>> /\ h.in_fence
        /\ h.accumulated = acc \o b
        /\ h.depth = g.depth /\ h.start = g.start
        /\ TextIn(turn.out) = <<>> /\ CallsIn(turn.out) = 0
        /\ CutsFence(turn)
    BY <1>3, InsideAll
  <2>2. acc \o b \in Text
    BY <1>1, Joined
  <2>3. Held(h) = Held(g) /\ Held(g) \in Text
    <3>1. Held(h) = (acc \o b) \o <<>>
      BY <2>1 DEF Held
    <3>2. QED
      BY <1>1, <2>2, <3>1, Joined
  <2>4. <<>> \o Held(h) = Held(g) /\ Within(Held(g), Held(g))
    BY <2>3, Joined, PartsWithin
  <2>5. TurnKeepsText(g, turn)
    <3>1. Within(TextIn(turn.out) \o Held(h), Held(g))
      BY <2>1, <2>4
    <3>2. TextIn(turn.out) \in Text /\ CallsIn(turn.out) \in Nat
      BY <1>1, <2>1
    <3>3. ~h.in_fence => h.accumulated = <<>>
      BY <2>1, Zenon
    <3>4. QED
      BY <2>1, <3>1, <3>2, <3>3, Zenon DEF TurnKeepsText
  <2>6. QED
    BY <2>1, <2>5
<1>4. CASE FenceEnds(b) # {}
  <2> DEFINE h == turn.scanner
             k == Min(FenceEnds(b))
             content == Prefix(b, k - 1)
             out == IF content \in Named THEN <<>> ELSE content
  <2>1. /\ h \in Scanner /\ h.buffer = Behind(b) /\ ~h.in_fence /\ h.accumulated = <<>>
        /\ h.depth = g.depth /\ h.start = g.start
        /\ TextIn(turn.out) = out /\ CallsIn(turn.out) = Call(b)
        /\ h.scanning \/ h.buffer = <<>>
    BY <1>4, InsideUpTo
  <2>2. Behind(b) = Suffix(b, k) /\ Call(b) = IF content \in Named THEN 1 ELSE 0
    BY DEF Behind, Call
  <2>3. /\ content \in Text /\ Suffix(b, k - 1) \in Text /\ Behind(b) \in Text
        /\ content \o Suffix(b, k - 1) = b
        /\ Within(Behind(b), Suffix(b, k - 1))
        /\ NumWords(b) = NumWords(content) + NumWords(Behind(b))
    <3>1. b[k] = "fence" /\ k \in 1 .. Len(b) /\ Len(b) \in Nat
      BY <1>1, <1>4, EndsStay, Joined
    <3> HIDE DEF k
    <3>2. /\ k - 1 \in 0 .. Len(b) /\ k \in k - 1 .. Len(b)
          /\ \A i \in (k - 1) + 1 .. k : i = k
      BY <3>1
    <3>3. \A i \in (k - 1) + 1 .. k : b[i] \in {"fence", "json"}
      BY <3>1, <3>2
    <3> DEFINE j == k - 1
    <3>4. j \in 0 .. Len(b) /\ k \in j .. Len(b)
      BY <3>2
    <3>5. \A i \in j + 1 .. k : b[i] \in {"fence", "json"}
      BY <3>3
    <3> HIDE DEF j
    <3>6. /\ Prefix(b, j) \in Text /\ Suffix(b, j) \in Text /\ Suffix(b, k) \in Text
          /\ Prefix(b, j) \o Suffix(b, j) = b
          /\ Within(Suffix(b, k), Suffix(b, j))
          /\ NumWords(b) = NumWords(Prefix(b, j)) + NumWords(Suffix(b, k))
      BY <1>1, <3>4, <3>5, CutOut
    <3>7. QED
      BY <2>2, <3>6 DEF j
  <2> HIDE DEF k, content
  <2>4. Held(h) = Behind(b) /\ out \in Text
    BY <1>1, <2>1, <2>3, Joined DEF Held
  <2>5. Within(out \o Held(h), Held(g))
    <3>1. Within(out, content)
      BY <2>3, PartsWithin
    <3>2. Within(out \o Behind(b), content \o Suffix(b, k - 1))
      BY <2>3, <2>4, <3>1, WithinBoth DEF Text
    <3>3. Within(out \o Behind(b), b) /\ Within(b, acc \o b)
      BY <1>1, <2>3, <3>2, PartsWithin
    <3>4. out \o Behind(b) \in Text /\ acc \o b \in Text
      BY <1>1, <2>3, <2>4, Joined
    <3>5. Within(out \o Behind(b), acc \o b)
      BY <1>1, <3>3, <3>4, WithinPart DEF Text
    <3>6. QED
      BY <1>1, <2>4, <3>5
  <2>6. TurnKeepsText(g, turn)
    BY <1>1, <2>1, <2>2, <2>4, <2>5 DEF TurnKeepsText
  <2>7. TurnKeepsWords(g, turn)
    <3>1. ASSUME NEW w \in Text
          PROVE  CallsBehind(g, w) = CallsIn(turn.out) + CallsBehind(h, w)
      <4>1. CallsFromInside(b \o w) = Call(b) + CallsInStream(Behind(b) \o w)
        BY <1>1, <1>4, CallsFromEnd
      <4>2. CallsBehind(g, w) = CallsFromInside(b \o w)
        BY DEF CallsBehind
      <4>3. CallsBehind(h, w) = CallsInStream(Behind(b) \o w)
        BY <2>1 DEF CallsBehind
      <4>4. QED
        BY <2>1, <4>1, <4>2, <4>3
    <3>2. NumWords(Behind(b)) \in Nat /\ NumWords(content) \in Nat
      BY <2>3, WordsJoined DEF NumWords
    <3>3. \A t \in Named : NumWords(t) = 2
      BY WordsOf DEF NumWords
    <3>4. NumWords(b) = NumWords(TextIn(turn.out)) + NumWords(h.buffer)
                          + 2 * CallsIn(turn.out)
      <4>1. CASE content \in Named
        BY <1>2, <2>1, <2>2, <2>3, <3>2, <3>3, <4>1
      <4>2. CASE content \notin Named
        BY <2>1, <2>2, <2>3, <3>2, <4>2
      <4>3. QED
        BY <4>1, <4>2
    <3>5. QED
      BY <2>1, <3>1, <3>4 DEF TurnKeepsWords
  <2>8. QED
    BY <2>6, <2>7
<1>5. QED
  BY <1>3, <1>4

(***************************************************************************)
(* The invariants.  What was shown, what is yielded, what is held of a     *)
(* fence and what was not looked at are, one behind the other, all that    *)
(* the client can still be shown; while no cut went through a fence they   *)
(* hold every word, and every call, of what was heard.                     *)
(***************************************************************************)
Ahead == shown \o (TextIn(pending) \o Held(scanner))

TextTypes ==
    /\ scanner \in Scanner /\ heard \in Seq(Text) /\ shown \in Text /\ calls \in Nat
    /\ TextIn(pending) \in Text /\ CallsIn(pending) \in Nat
    /\ ~scanner.in_fence => scanner.accumulated = <<>>
    /\ source.grammar # "dsml" => ~scanner.in_fence
    /\ scanner.depth # 0 => scanner.start # 0

TextSound ==
    /\ TextTypes
    /\ Within(shown, FullText)
    /\ ~anthropic.finished => Within(Ahead, FullText)

WordsCounted ==
    NumWords(FullText) = NumWords(shown) + NumWords(TextIn(pending))
                           + NumWords(scanner.buffer) + 2 * (calls + CallsIn(pending))

CallsCountedBehind(w) ==
    CallsInStream(FullText \o w) = calls + CallsIn(pending) + CallsBehind(scanner, w)

Kept ==
    /\ scanner.accumulated = <<>>
    /\ ~scanner.scanning => ~scanner.in_fence /\ scanner.buffer = <<>>
    /\ WordsCounted
    /\ \A w \in Text : CallsCountedBehind(w)

WholeSound == source.grammar = "dsml" /\ whole /\ ~anthropic.finished => Kept

TextInv == PipelineInv /\ TextSound /\ WholeSound

\* All these are texts.
LEMMA AheadTexts ==
    ASSUME TextTypes
    PROVE  /\ FullText \in Text /\ Held(scanner) \in Text
           /\ TextIn(pending) \o Held(scanner) \in Text /\ Ahead \in Text
           /\ scanner.buffer \in Text /\ scanner.accumulated \in Text
           /\ NumWords(FullText) \in Nat /\ NumWords(shown) \in Nat
           /\ NumWords(TextIn(pending)) \in Nat /\ NumWords(scanner.buffer) \in Nat
<1>1. FullText \in Text
  BY Flattened DEF TextTypes, FullText, Text
<1>2. scanner.buffer \in Text /\ scanner.accumulated \in Text
  BY DEF TextTypes, Scanner
<1>3. Held(scanner) \in Text
  BY <1>2, Joined DEF Held
<1>4. shown \in Text /\ TextIn(pending) \in Text
  BY DEF TextTypes
<1>5. TextIn(pending) \o Held(scanner) \in Text
  BY <1>3, <1>4, Joined
<1>6. Ahead \in Text
  BY <1>4, <1>5, Joined DEF Ahead
<1>7. \A t \in Text : NumWords(t) \in Nat
  BY WordsJoined, Joined DEF NumWords
<1>8. QED
  BY <1>1, <1>2, <1>3, <1>4, <1>5, <1>6, <1>7

\* What was shown is at the front of it.
LEMMA ShownAhead ==
    ASSUME TextTypes', Within(Ahead', FullText')
    PROVE  TextSound'
<1> DEFINE rest == TextIn(pending') \o Held(scanner')
<1>1. shown' \in Text /\ TextIn(pending') \in Text /\ scanner' \in Scanner
      /\ heard' \in Seq(Text)
  BY DEF TextTypes
<1>2. FullText' \in Text
  <2>1. FlattenSeq(heard') \in Text
    BY <1>1, Flattened DEF Text
  <2>2. QED
    BY <2>1 DEF FullText
<1>3. rest \in Text
  <2>1. scanner'.accumulated \in Text /\ scanner'.buffer \in Text
    BY <1>1 DEF Scanner
  <2>2. Held(scanner') \in Text
    BY <2>1, Joined DEF Held
  <2>3. QED
    BY <1>1, <2>2, Joined
<1>4. Ahead' = shown' \o rest
  BY DEF Ahead
<1> HIDE DEF rest
<1>5. Ahead' \in Text /\ Within(shown', Ahead')
  BY <1>1, <1>3, <1>4, Joined, PartsWithin
<1>6. Within(shown', FullText')
  BY <1>1, <1>2, <1>5, WithinPart DEF Text
<1>7. QED
  BY <1>6 DEF TextSound

\* At the beginning nothing was heard.
LEMMA TextInitEstablishes == PipelineInit => TextInv
<1> SUFFICES ASSUME PipelineInit PROVE TextInv
  OBVIOUS
<1>1. PipelineInv
  BY PipelineInitEstablishes
<1>2. <<>> \in Text /\ <<>> \in Seq(Text) /\ <<>> \o <<>> = <<>>
  BY Joined DEF Text
<1>3. /\ scanner \in Scanner /\ scanner.buffer = <<>> /\ scanner.accumulated = <<>>
      /\ scanner.in_fence = FALSE /\ scanner.depth = 0 /\ scanner.scanning = FALSE
      /\ heard = <<>> /\ shown = <<>> /\ calls = 0 /\ pending = <<>>
  BY <1>2 DEF PipelineInit, NewScanner, Scanner
<1>4. TextIn(pending) = <<>> /\ CallsIn(pending) = 0
  BY <1>3, WhatIsIn
<1>5. TextTypes
  BY <1>2, <1>3, <1>4 DEF TextTypes
<1>6. FullText = <<>>
  BY <1>3 DEF FullText, FlattenSeq
<1>7. Held(scanner) = <<>>
  BY <1>2, <1>3 DEF Held
<1>8. Ahead = <<>>
  BY <1>2, <1>3, <1>4, <1>7 DEF Ahead
<1>9. TextSound
  BY <1>2, <1>3, <1>5, <1>6, <1>8, PartsWithin DEF TextSound
<1>10. NumWords(<<>>) = 0
  BY WordsOf DEF NumWords
<1>11. WordsCounted
  BY <1>3, <1>4, <1>6, <1>10 DEF WordsCounted
<1>12. ASSUME NEW w \in Text
       PROVE  CallsCountedBehind(w)
  <2>1. CallsBehind(scanner, w) = CallsInStream(<<>> \o w)
    BY <1>3 DEF CallsBehind
  <2>2. CallsInStream(<<>> \o w) \in Nat
    BY <1>2, Joined, CallsUnfold
  <2>3. QED
    BY <1>3, <1>4, <1>6, <2>1, <2>2 DEF CallsCountedBehind
<1>13. WholeSound
  BY <1>3, <1>11, <1>12 DEF WholeSound, Kept
<1>14. QED
  BY <1>1, <1>9, <1>13 DEF TextInv

\* A turn of the scanner changes neither what can still be shown nor, unless it
\* cuts a fence, the words and calls in it.
LEMMA ScanText ==
    ASSUME TextInv, Scan
    PROVE  TextSound' /\ WholeSound'
<1> DEFINE turn == IF source.grammar = "dsml" THEN ScanDSML(scanner)
                   ELSE ScanFreeText(scanner)
           out == TextIn(turn.out)
<1>1. /\ scanner' = turn.scanner /\ pending' = turn.out
      /\ whole' = (whole /\ ~CutsFence(turn))
      /\ shown' = shown /\ calls' = calls /\ heard' = heard
      /\ source' = source /\ anthropic' = anthropic
      /\ pending = <<>> /\ ~anthropic.finished /\ scanner.scanning
      /\ TextTypes /\ Within(Ahead, FullText)
  BY DEF Scan, vars, Running, TextInv, TextSound
<1>2. /\ FullText \in Text /\ Held(scanner) \in Text /\ shown \in Text
      /\ scanner.buffer \in Text /\ scanner.accumulated \in Text /\ scanner \in Scanner
      /\ NumWords(shown) \in Nat /\ NumWords(scanner.buffer) \in Nat
  BY <1>1, AheadTexts DEF TextTypes
<1>3. TextIn(pending) = <<>> /\ CallsIn(pending) = 0
  BY <1>1, WhatIsIn
<1>4. Ahead = shown \o Held(scanner)
  BY <1>2, <1>3, Joined DEF Ahead
<1>5. /\ turn.scanner \in Scanner /\ out \in Text /\ CallsIn(turn.out) \in Nat
      /\ ~turn.scanner.in_fence => turn.scanner.accumulated = <<>>
      /\ source.grammar # "dsml" => ~turn.scanner.in_fence
      /\ turn.scanner.depth # 0 => turn.scanner.start # 0
      /\ Within(out \o Held(turn.scanner), Held(scanner))
      /\ /\ source.grammar = "dsml" /\ scanner.accumulated = <<>> /\ ~CutsFence(turn)
         => TurnKeepsWords(scanner, turn)
  <2>1. CASE source.grammar = "dsml"
    <3>1. turn = ScanDSML(scanner)
      BY <2>1
    <3> HIDE DEF turn
    <3>2. /\ TurnKeepsText(scanner, turn)
          /\ scanner.accumulated = <<>> /\ ~CutsFence(turn)
                => TurnKeepsWords(scanner, turn)
      <4>1. CASE scanner.in_fence
        BY <1>2, <3>1, <4>1, InsideText
      <4>2. CASE ~scanner.in_fence
        <5>1. scanner.accumulated = <<>>
          BY <1>1, <4>2 DEF TextTypes
        <5>2. QED
          BY <1>2, <3>1, <4>2, <5>1, OutsideText
      <4>3. QED
        BY <4>1, <4>2
    <3>3. QED
      BY <1>1, <2>1, <3>2 DEF TurnKeepsText, TextTypes
  <2>2. CASE source.grammar # "dsml"
    <3>1. turn = ScanFreeText(scanner)
      BY <2>2
    <3> HIDE DEF turn
    <3>2. ~scanner.in_fence /\ scanner.accumulated = <<>>
      BY <1>1, <2>2 DEF TextTypes
    <3>3. /\ turn.scanner \in Scanner
          /\ turn.scanner.in_fence = scanner.in_fence
          /\ turn.scanner.accumulated = scanner.accumulated
          /\ turn.scanner.depth # 0 => turn.scanner.start # 0
          /\ TextIn(turn.out) \in Text
          /\ Within(TextIn(turn.out) \o turn.scanner.buffer, scanner.buffer)
      BY <1>1, <1>2, <3>1, FreeTextText DEF TextTypes
    <3>4. turn.scanner.buffer \in Text
      BY <3>3 DEF Scanner
    <3>5. Held(turn.scanner) = turn.scanner.buffer /\ Held(scanner) = scanner.buffer
      BY <1>2, <3>2, <3>3, <3>4, Joined DEF Held
    <3>6. CallsIn(turn.out) \in Nat
      BY DEF CallsIn
    <3>7. QED
      BY <2>2, <3>2, <3>3, <3>5, <3>6
  <2>3. QED
    BY <2>1, <2>2
<1> HIDE DEF turn
<1>6. TextTypes'
  BY <1>1, <1>5 DEF TextTypes
<1>7. Within(Ahead', FullText')
  <2>1. Held(turn.scanner) \in Text
    BY <1>5, Joined DEF Held, Scanner
  <2>2. out \o Held(turn.scanner) \in Text
    BY <1>5, <2>1, Joined
  <2>3. Within(shown \o (out \o Held(turn.scanner)), FullText)
    BY <1>1, <1>2, <1>4, <1>5, <2>2, EndShrinks
  <2>4. Ahead' = shown \o (out \o Held(turn.scanner)) /\ FullText' = FullText
    BY <1>1 DEF Ahead, FullText
  <2>5. QED
    BY <2>3, <2>4
<1>8. TextSound'
  BY <1>6, <1>7, ShownAhead
<1>9. ASSUME source'.grammar = "dsml", whole', ~anthropic'.finished
      PROVE  Kept'
  <2>1. Kept /\ ~CutsFence(turn)
    BY <1>1, <1>9 DEF TextInv, WholeSound
  <2>2. TurnKeepsWords(scanner, turn)
    BY <1>1, <1>5, <1>9, <2>1 DEF Kept
  <2>3. turn.scanner.buffer \in Text
    BY <1>5 DEF Scanner
  <2>4. NumWords(out) \in Nat /\ NumWords(turn.scanner.buffer) \in Nat
    BY <1>5, <2>3, WordsJoined, Joined DEF NumWords
  <2>5. NumWords(<<>>) = 0 /\ calls \in Nat
    BY <1>1, WordsOf DEF NumWords, TextTypes
  <2>6. WordsCounted'
    <3>1. NumWords(FullText) = NumWords(shown) + NumWords(scanner.buffer) + 2 * calls
      BY <1>2, <1>3, <2>1, <2>5 DEF Kept, WordsCounted
    <3>2. NumWords(scanner.buffer) = NumWords(out) + NumWords(turn.scanner.buffer)
                                       + 2 * CallsIn(turn.out)
      BY <2>2 DEF TurnKeepsWords
    <3>3. NumWords(FullText) = NumWords(shown) + NumWords(out)
                  + NumWords(turn.scanner.buffer) + 2 * (calls + CallsIn(turn.out))
      BY <1>2, <1>5, <2>4, <2>5, <3>1, <3>2
    <3>4. FullText' = FullText
      BY <1>1 DEF FullText
    <3>5. QED
      BY <1>1, <3>3, <3>4 DEF WordsCounted
  <2>7. ASSUME NEW w \in Text
        PROVE  CallsCountedBehind(w)'
    <3>1. CallsInStream(FullText \o w) = calls + 0 + CallsBehind(scanner, w)
      BY <1>3, <2>1 DEF Kept, CallsCountedBehind
    <3>2. CallsBehind(scanner, w) = CallsIn(turn.out) + CallsBehind(turn.scanner, w)
      BY <2>2 DEF TurnKeepsWords
    <3>3. CallsBehind(turn.scanner, w) \in Nat
      BY <2>3, BehindNat
    <3>4. CallsInStream(FullText \o w)
              = calls + CallsIn(turn.out) + CallsBehind(turn.scanner, w)
      BY <1>5, <2>5, <3>1, <3>2, <3>3
    <3>5. FullText' = FullText
      BY <1>1 DEF FullText
    <3>6. QED
      BY <1>1, <3>4, <3>5 DEF CallsCountedBehind
  <2>8. QED
    BY <1>1, <2>2, <2>6, <2>7 DEF Kept, TurnKeepsWords
<1>10. QED
  BY <1>8, <1>9 DEF WholeSound

\* An event changes nothing about which grammar the source is.
LEMMA GrammarStays ==
    ASSUME source \in Source, NEW event, Feed(event)
    PROVE  source'.grammar = source.grammar
BY DEF Feed, Sent, Source

\* A step that hears nothing and looks at nothing: what was shown and what is
\* yielded stay the same text and calls, put together.
LEMMA NothingNew ==
    ASSUME TextInv, ~anthropic.finished,
           source'.grammar = source.grammar, scanner' = scanner, whole' = whole,
           heard' \in Seq(Text), FullText' = FullText,
           shown' \in Text, calls' \in Nat,
           TextIn(pending') \in Text, CallsIn(pending') \in Nat,
           shown' \o TextIn(pending') = shown \o TextIn(pending),
           calls' + CallsIn(pending') = calls + CallsIn(pending)
    PROVE  TextSound' /\ WholeSound'
<1> DEFINE was == TextIn(pending)
           is == TextIn(pending')
           held == Held(scanner)
<1>1. TextTypes /\ Within(Ahead, FullText)
  BY DEF TextInv, TextSound
<1>2. /\ held \in Text /\ was \in Text /\ shown \in Text
      /\ NumWords(shown) \in Nat /\ NumWords(was) \in Nat
      /\ NumWords(scanner.buffer) \in Nat
  BY <1>1, AheadTexts DEF TextTypes
<1>3. TextTypes'
  BY <1>1 DEF TextTypes
<1> HIDE DEF was, is, held
<1>4. is \in Text /\ shown' \o is = shown \o was
  BY DEF is, was
<1>5. Ahead' = Ahead
  <2>1. Ahead' = shown' \o (is \o held) /\ Ahead = shown \o (was \o held)
    BY DEF Ahead, is, was, held
  <2>2. shown' \o (is \o held) = (shown' \o is) \o held
    BY <1>2, <1>4, Assoc, Zenon
  <2>3. shown \o (was \o held) = (shown \o was) \o held
    BY <1>2, Assoc, Zenon
  <2>4. QED
    BY <1>4, <2>1, <2>2, <2>3
<1>6. TextSound'
  BY <1>1, <1>3, <1>5, ShownAhead
<1>7. ASSUME source'.grammar = "dsml", whole', ~anthropic'.finished
      PROVE  Kept'
  <2>1. Kept
    BY <1>7 DEF TextInv, WholeSound
  <2>2. NumWords(shown') + NumWords(is) = NumWords(shown) + NumWords(was)
    <3>1. /\ NumWords(shown' \o is) = NumWords(shown') + NumWords(is)
          /\ NumWords(shown \o was) = NumWords(shown) + NumWords(was)
      BY <1>2, <1>4, WordsJoined DEF NumWords
    <3>2. QED
      BY <1>4, <3>1
  <2>3. WordsCounted'
    <3>1. NumWords(FullText) = NumWords(shown) + NumWords(was)
                                 + NumWords(scanner.buffer) + 2 * (calls + CallsIn(pending))
      BY <2>1 DEF Kept, WordsCounted, was
    <3>2. NumWords(FullText) = NumWords(shown') + NumWords(is)
                                 + NumWords(scanner.buffer) + 2 * (calls' + CallsIn(pending'))
      BY <2>2, <3>1
    <3>3. QED
      BY <3>2 DEF WordsCounted, is
  <2>4. ASSUME NEW w \in Text
        PROVE  CallsCountedBehind(w)'
    <3>1. CallsInStream(FullText \o w)
              = calls + CallsIn(pending) + CallsBehind(scanner, w)
      BY <2>1 DEF Kept, CallsCountedBehind
    <3>2. CallsInStream(FullText \o w)
              = calls' + CallsIn(pending') + CallsBehind(scanner, w)
      BY <3>1
    <3>3. QED
      BY <3>2 DEF CallsCountedBehind
  <2>5. QED
    BY <2>1, <2>3, <2>4 DEF Kept
<1>8. QED
  BY <1>6, <1>7 DEF WholeSound

\* The next chunk is behind all the others, and waits behind all that is kept.
LEMMA HearTextText ==
    ASSUME TextInv, HearText
    PROVE  TextSound' /\ WholeSound'
<1>1. PICK chunk \in Chunks : heard' = Append(heard, chunk) /\ scanner' = Heard(scanner, chunk)
  BY DEF HearText, Hear
<1>2. chunk \in Text /\ chunk # <<>>
  BY ChunksAssumption
<1>3. /\ shown' = shown /\ calls' = calls /\ pending' = pending /\ whole' = whole
      /\ source' = source /\ anthropic' = anthropic
      /\ pending = <<>> /\ ~anthropic.finished
      /\ TextTypes /\ Within(Ahead, FullText)
  BY DEF HearText, vars, Waiting, Running, TextInv, TextSound
<1>4. /\ FullText \in Text /\ Held(scanner) \in Text /\ shown \in Text
      /\ Ahead \in Text
      /\ scanner.buffer \in Text /\ scanner.accumulated \in Text /\ scanner \in Scanner
      /\ NumWords(shown) \in Nat /\ NumWords(scanner.buffer) \in Nat
      /\ NumWords(FullText) \in Nat
  BY <1>3, AheadTexts DEF TextTypes
<1>5. TextIn(pending) = <<>> /\ CallsIn(pending) = 0
  BY <1>3, WhatIsIn
<1>6. heard' \in Seq(Text) /\ FullText' = FullText \o chunk
  <2>1. heard \in Seq(Seq(Tokens)) /\ chunk \in Seq(Tokens)
    BY <1>2, <1>3 DEF TextTypes, Text
  <2>2. /\ Append(heard, chunk) \in Seq(Seq(Tokens))
        /\ FlattenSeq(Append(heard, chunk)) = FlattenSeq(heard) \o chunk
    BY <2>1, FlattenAppend
  <2>3. QED
    BY <1>1, <2>2 DEF FullText, Text
<1>7. /\ scanner' \in Scanner /\ scanner'.buffer = scanner.buffer \o chunk
      /\ scanner'.scanning = TRUE /\ scanner'.in_fence = scanner.in_fence
      /\ scanner'.accumulated = scanner.accumulated
      /\ scanner'.depth = scanner.depth /\ scanner'.start = scanner.start
  <2> DEFINE more == scanner.buffer \o chunk
  <2>1. more \in Text
    BY <1>2, <1>4, Joined
  <2>2. scanner' = [scanner EXCEPT !.buffer = more, !.scanning = TRUE]
    BY <1>1, <1>2 DEF Heard
  <2> HIDE DEF more
  <2>3. scanner' \in Scanner
    BY <1>4, <2>1, <2>2 DEF Scanner
  <2>4. QED
    BY <1>4, <2>2, <2>3 DEF Scanner, more
<1>8. TextTypes'
  BY <1>3, <1>6, <1>7 DEF TextTypes
<1>9. Held(scanner') = Held(scanner) \o chunk
  <2>1. /\ Held(scanner') = scanner.accumulated \o (scanner.buffer \o chunk)
        /\ Held(scanner) = scanner.accumulated \o scanner.buffer
    BY <1>7, Zenon DEF Held
  <2>2. (scanner.accumulated \o scanner.buffer) \o chunk
            = scanner.accumulated \o (scanner.buffer \o chunk)
    <3>1. /\ scanner.accumulated \in Text /\ scanner.buffer \in Text
          /\ chunk \in Text
      BY <1>2, <1>4
    <3>2. QED
      BY <3>1, Assoc, Zenon
  <2>3. QED
    BY <2>1, <2>2, Zenon
<1>10. Within(Ahead', FullText')
  <2>1. Ahead' = shown \o (<<>> \o (Held(scanner) \o chunk))
    BY <1>3, <1>5, <1>9 DEF Ahead
  <2>2. Ahead = shown \o Held(scanner)
    BY <1>4, <1>5, Joined DEF Ahead
  <2>3. Ahead' = Ahead \o chunk
    <3>1. Ahead' = shown \o (Held(scanner) \o chunk)
      <4>1. Held(scanner) \o chunk \in Text
        BY <1>2, <1>4, Joined
      <4>2. QED
        BY <2>1, <4>1, Joined
    <3>2. (shown \o Held(scanner)) \o chunk = shown \o (Held(scanner) \o chunk)
      <4>1. shown \in Text /\ Held(scanner) \in Text /\ chunk \in Text
        BY <1>2, <1>4
      <4>2. QED
        BY <4>1, Assoc, Zenon
    <3>3. QED
      BY <2>2, <3>1, <3>2, Zenon
  <2>4. Within(Ahead \o chunk, FullText \o chunk)
    BY <1>2, <1>3, <1>4, PartsWithin, WithinBoth DEF Text
  <2>5. QED
    BY <1>6, <2>3, <2>4
<1>11. TextSound'
  BY <1>8, <1>10, ShownAhead
<1>12. ASSUME source'.grammar = "dsml", whole', ~anthropic'.finished
       PROVE  Kept'
  <2>1. Kept
    BY <1>3, <1>12 DEF TextInv, WholeSound
  <2>2. NumWords(<<>>) = 0 /\ calls \in Nat /\ NumWords(chunk) \in Nat
    BY <1>2, <1>3, WordsOf, WordsJoined DEF NumWords, TextTypes
  <2>3. WordsCounted'
    <3>1. NumWords(FullText) = NumWords(shown) + NumWords(scanner.buffer) + 2 * calls
      BY <1>4, <1>5, <2>1, <2>2 DEF Kept, WordsCounted
    <3>2. /\ NumWords(FullText \o chunk) = NumWords(FullText) + NumWords(chunk)
          /\ NumWords(scanner.buffer \o chunk) = NumWords(scanner.buffer) + NumWords(chunk)
      BY <1>2, <1>4, WordsJoined DEF NumWords
    <3>3. NumWords(FullText \o chunk) =
              NumWords(shown) + 0 + NumWords(scanner.buffer \o chunk) + 2 * (calls + 0)
      BY <1>4, <2>2, <3>1, <3>2
    <3>4. QED
      BY <1>3, <1>5, <1>6, <1>7, <2>2, <3>3 DEF WordsCounted
  <2>4. ASSUME NEW w \in Text
        PROVE  CallsCountedBehind(w)'
    <3>1. chunk \o w \in Text
      BY <1>2, Joined
    <3>2. CallsInStream(FullText \o (chunk \o w))
              = calls + CallsIn(pending) + CallsBehind(scanner, chunk \o w)
      BY <2>1, <3>1 DEF Kept, CallsCountedBehind
    <3>3. /\ FullText' \o w = FullText \o (chunk \o w)
          /\ scanner'.buffer \o w = scanner.buffer \o (chunk \o w)
      <4>1. (FullText \o chunk) \o w = FullText \o (chunk \o w)
        <5>1. FullText \in Text /\ chunk \in Text
          BY <1>2, <1>4
        <5>2. QED
          BY <5>1, Assoc, Zenon
      <4>2. (scanner.buffer \o chunk) \o w = scanner.buffer \o (chunk \o w)
        <5>1. scanner.buffer \in Text /\ chunk \in Text
          BY <1>2, <1>4
        <5>2. QED
          BY <5>1, Assoc, Zenon
      <4>3. QED
        BY <1>6, <1>7, <4>1, <4>2, Zenon
    <3>4. CallsBehind(scanner', w) = CallsBehind(scanner, chunk \o w)
      BY <1>7, <3>3 DEF CallsBehind
    <3>5. CallsInStream(FullText' \o w)
              = calls' + CallsIn(pending') + CallsBehind(scanner', w)
      BY <1>3, <3>2, <3>3, <3>4
    <3>6. QED
      BY <3>5 DEF CallsCountedBehind
  <2>5. QED
    BY <1>7, <2>1, <2>3, <2>4 DEF Kept
<1>13. QED
  BY <1>11, <1>12 DEF WholeSound

\* Thinking is no text.
LEMMA HearThinkingText ==
    ASSUME TextInv, HearThinking
    PROVE  TextSound' /\ WholeSound'
<1>1. /\ heard' = Append(heard, <<>>) /\ Feed(Delta("ThinkingDelta", FALSE))
      /\ scanner' = scanner /\ pending' = pending /\ whole' = whole
      /\ shown' = shown /\ calls' = calls
      /\ pending = <<>> /\ ~anthropic.finished
  BY DEF HearThinking, Hear, Waiting, Running
<1>2. TextTypes /\ source \in Source
  BY DEF TextInv, TextSound, PipelineInv, IInv
<1>3. source'.grammar = source.grammar
  BY <1>1, <1>2, GrammarStays
<1>4. heard' \in Seq(Text) /\ FullText' = FullText
  <2>1. heard \in Seq(Seq(Tokens)) /\ <<>> \in Seq(Tokens) /\ FullText \in Text
    BY <1>2, AheadTexts DEF TextTypes, Text
  <2>2. /\ Append(heard, <<>>) \in Seq(Seq(Tokens))
        /\ FlattenSeq(Append(heard, <<>>)) = FlattenSeq(heard) \o <<>>
    BY <2>1, FlattenAppend
  <2>3. FullText \o <<>> = FullText
    BY <2>1, Joined
  <2>4. QED
    BY <1>1, <2>2, <2>3 DEF FullText, Text
<1>5. QED
  BY <1>1, <1>2, <1>3, <1>4, NothingNew DEF TextTypes

\* MessageStart is not text either.
LEMMA PipelineBeginText ==
    ASSUME TextInv, PipelineBegin
    PROVE  TextSound' /\ WholeSound'
<1>1. /\ Feed(Event("MessageStart")) /\ ~anthropic.finished
      /\ scanner' = scanner /\ pending' = pending /\ whole' = whole
      /\ shown' = shown /\ calls' = calls /\ heard' = heard
  BY DEF PipelineBegin, Begin, pipeline
<1>2. TextTypes /\ source \in Source
  BY DEF TextInv, TextSound, PipelineInv, IInv
<1>3. source'.grammar = source.grammar
  BY <1>1, <1>2, GrammarStays
<1>4. FullText' = FullText
  BY <1>1 DEF FullText
<1>5. QED
  BY <1>1, <1>2, <1>3, <1>4, NothingNew DEF TextTypes

\* Nor is an error.
LEMMA HearErrorText ==
    ASSUME TextInv, HearError
    PROVE  TextSound' /\ WholeSound'
<1> DEFINE failure == Yielded(Event("SinkError"), <<>>)
<1>1. /\ pending' = <<failure>> /\ source' = source
      /\ scanner' = scanner /\ whole' = whole
      /\ shown' = shown /\ calls' = calls /\ heard' = heard
      /\ pending = <<>> /\ ~anthropic.finished
  BY DEF HearError, vars, Waiting, Running
<1>2. failure.event.kind = "SinkError"
  BY DEF Yielded, Event
<1> HIDE DEF failure
<1>3. /\ TextIn(pending) = <<>> /\ CallsIn(pending) = 0
      /\ TextIn(pending') = <<>> /\ CallsIn(pending') = 0
  BY <1>1, <1>2, WhatIsIn
<1>4. TextTypes
  BY DEF TextInv, TextSound
<1>5. FullText' = FullText
  BY <1>1 DEF FullText
<1>6. QED
  BY <1>1, <1>3, <1>4, <1>5, NothingNew DEF TextTypes

\* Text and calls are only in the first event of a group.
LEMMA HandedText ==
    ASSUME Due, pending # <<>>
    PROVE  /\ Head(pending) = pending[1]
           /\ TextIn(Tail(pending)) = <<>> /\ CallsIn(Tail(pending)) = 0
<1>1. CASE ProseDue
  <2>1. CASE pending = <<pending[1]>>
    <3>1. PICK a : pending = <<a>>
      BY <2>1
    <3>2. Tail(pending) = <<>> /\ Head(pending) = pending[1]
      BY <3>1
    <3>3. QED
      BY <3>2, WhatIsIn
  <2>2. CASE pending = <<pending[1], pending[2]>> /\ pending[2].event = Event("MessageEnd")
    <3>1. PICK a, b : pending = <<a, b>> /\ b.event = Event("MessageEnd")
      BY <2>2
    <3>2. Tail(pending) = <<b>> /\ Head(pending) = pending[1]
      BY <3>1
    <3>3. b.event.kind \in {"MessageEnd", "SinkError"}
      BY <3>1 DEF Event
    <3>4. TextIn(<<b>>) = <<>> /\ CallsIn(<<b>>) = 0
      <4>1. <<b>> # <<>> /\ <<b>>[1] = b
        OBVIOUS
      <4>2. QED
        BY <3>3, <4>1 DEF TextIn, CallsIn
    <3>5. QED
      BY <3>2, <3>4
  <2>3. QED
    BY <1>1, <2>1, <2>2 DEF ProseDue
<1>2. CASE EndDue
  <2>1. PICK a : pending = <<a>>
    BY <1>2 DEF EndDue
  <2>2. Tail(pending) = <<>> /\ Head(pending) = pending[1]
    BY <2>1
  <2>3. QED
    BY <2>2, WhatIsIn
<1>3. CASE CallDue \/ ArgsDue \/ CallEndDue
  <2>1. PICK i : pending \in {CallEvents(i), Tail(CallEvents(i)), Tail(Tail(CallEvents(i)))}
    BY <1>3 DEF CallDue, ArgsDue, CallEndDue
  <2>2. Head(pending) = pending[1]
    BY <2>1 DEF CallEvents
  <2>3. QED
    BY <2>1, <2>2, WhatIsIn, CallParts
<1>4. QED
  BY <1>1, <1>2, <1>3 DEF Due, NothingDue

\* What is handed over was yielded.
LEMMA HandOverText ==
    ASSUME TextInv, HandOver
    PROVE  TextSound' /\ WholeSound'
<1> DEFINE next == Head(pending)
<1>1. /\ Feed(next.event) /\ pending # <<>> /\ pending' = Tail(pending)
      /\ shown' = IF next.event.kind = "TextDelta" THEN shown \o next.text ELSE shown
      /\ calls' = IF next.event.kind = "ToolCallStart" THEN calls + 1 ELSE calls
      /\ scanner' = scanner /\ whole' = whole /\ heard' = heard /\ ~anthropic.finished
  BY DEF HandOver, Running
<1>2. TextTypes /\ source \in Source /\ Due
  BY <1>1 DEF TextInv, TextSound, PipelineInv, IInv
<1>3. source'.grammar = source.grammar
  BY <1>1, <1>2, GrammarStays
<1>4. /\ next = pending[1]
      /\ TextIn(pending') = <<>> /\ CallsIn(pending') = 0
  BY <1>1, <1>2, HandedText
<1>5. shown \in Text /\ calls \in Nat /\ TextIn(pending) \in Text
      /\ CallsIn(pending) \in Nat /\ heard \in Seq(Text)
  BY <1>2 DEF TextTypes
<1>6. shown' = shown \o TextIn(pending)
  BY <1>1, <1>4, <1>5, Joined DEF TextIn
<1>7. calls' = calls + CallsIn(pending)
  BY <1>1, <1>4, <1>5 DEF CallsIn
<1>8. /\ shown' \in Text /\ calls' \in Nat
      /\ TextIn(pending') \in Text /\ CallsIn(pending') \in Nat
      /\ shown' \o TextIn(pending') = shown \o TextIn(pending)
      /\ calls' + CallsIn(pending') = calls + CallsIn(pending)
  <2>1. shown' \in Text /\ shown' \o <<>> = shown' /\ <<>> \in Text
    BY <1>5, <1>6, Joined
  <2>2. calls' \in Nat /\ calls' + 0 = calls' /\ 0 \in Nat
    BY <1>5, <1>7
  <2>3. QED
    BY <1>4, <1>6, <1>7, <2>1, <2>2, Zenon
<1>9. FullText' = FullText
  BY <1>1 DEF FullText
<1> HIDE DEF next
<1>10. heard' \in Seq(Text)
  BY <1>1, <1>5
<1>11. QED
  BY <1>1, <1>3, <1>8, <1>9, <1>10, NothingNew

\* The flush gives back what was held of a fence, ahead of the end.
LEMMA HearEndText ==
    ASSUME TextInv, HearEnd
    PROVE  TextSound' /\ WholeSound'
<1> DEFINE end == Yielded(Event("MessageEnd"), <<>>)
           text == IF source.grammar = "dsml" THEN scanner.accumulated ELSE <<>>
           closed == [scanner EXCEPT !.in_fence = FALSE, !.current_tool = FALSE,
                                     !.accumulated = <<>>]
<1>1. /\ shown' = shown /\ calls' = calls /\ heard' = heard /\ whole' = whole
      /\ source' = source /\ anthropic' = anthropic
      /\ pending = <<>> /\ ~anthropic.finished /\ ~scanner.scanning
      /\ TextTypes /\ Within(Ahead, FullText)
  BY DEF HearEnd, vars, Waiting, Running, TextInv, TextSound
<1>2. /\ FullText \in Text /\ Held(scanner) \in Text /\ shown \in Text
      /\ scanner.buffer \in Text /\ scanner.accumulated \in Text /\ scanner \in Scanner
      /\ <<>> \in Text
  BY <1>1, AheadTexts, Joined DEF TextTypes
<1>3. TextIn(pending) = <<>> /\ CallsIn(pending) = 0
  BY <1>1, WhatIsIn
<1>4. end.event.kind = "MessageEnd"
  BY DEF Yielded, Event
<1>5. /\ closed \in Scanner /\ closed.buffer = scanner.buffer
      /\ closed.scanning = scanner.scanning
      /\ closed.in_fence = FALSE /\ closed.accumulated = <<>>
      /\ closed.depth = scanner.depth /\ closed.start = scanner.start
  BY <1>2 DEF Scanner
<1>6. /\ scanner' = IF source.grammar = "dsml" THEN closed ELSE scanner
      /\ TextIn(pending') = text /\ CallsIn(pending') = 0
  <2>1. \A out : out = <<>> => TextIn(Append(out, end)) = <<>> /\ CallsIn(Append(out, end)) = 0
    <3>1. Append(<<>>, end) = <<end>>
      OBVIOUS
    <3>2. QED
      BY <1>4, <3>1, WhatIsIn
  <2>2. ASSUME NEW t
        PROVE  /\ TextIn(Append(<<TextEvent(t)>>, end)) = t
               /\ CallsIn(Append(<<TextEvent(t)>>, end)) = 0
    <3>1. Append(<<TextEvent(t)>>, end) = <<TextEvent(t), end>>
      BY OneMore
    <3>2. /\ TextIn(<<TextEvent(t), end>>) = t
          /\ CallsIn(<<TextEvent(t), end>>) = 0
      BY WhatIsIn, Zenon
    <3>3. QED
      BY <3>1, <3>2
  <2>3. CASE source.grammar = "dsml"
    <3>1. scanner' = FlushDSML(scanner).scanner
          /\ pending' = Append(FlushDSML(scanner).out, end)
      BY <2>3 DEF HearEnd
    <3>2. FlushDSML(scanner).scanner = closed
      BY TurnIs DEF FlushDSML
    <3> HIDE DEF end, closed
    <3>3. CASE scanner.in_fence /\ scanner.accumulated # <<>>
      <4>1. FlushDSML(scanner).out = <<TextEvent(scanner.accumulated)>>
        BY <3>3, TurnIs DEF FlushDSML
      <4>2. QED
        BY <2>2, <2>3, <3>1, <3>2, <4>1
    <3>4. CASE ~(scanner.in_fence /\ scanner.accumulated # <<>>)
      <4>1. FlushDSML(scanner).out = <<>>
        BY <3>4, TurnIs DEF FlushDSML
      <4>2. scanner.accumulated = <<>>
        BY <1>1, <3>4 DEF TextTypes
      <4>3. QED
        BY <2>1, <2>3, <3>1, <3>2, <4>1, <4>2
    <3>5. QED
      BY <3>3, <3>4
  <2>4. CASE source.grammar # "dsml"
    <3>1. scanner' = Turn(scanner, <<>>).scanner
          /\ pending' = Append(Turn(scanner, <<>>).out, end)
      BY <2>4 DEF HearEnd
    <3> HIDE DEF end, closed
    <3>2. QED
      BY <2>1, <2>4, <3>1, TurnIs
  <2>5. QED
    BY <2>3, <2>4
<1> HIDE DEF closed, end
<1>7. text \in Text
  BY <1>2
<1>8. TextTypes'
  <2>1. CASE source.grammar = "dsml"
    BY <1>1, <1>5, <1>6, <1>7, <2>1 DEF TextTypes
  <2>2. CASE source.grammar # "dsml"
    BY <1>1, <1>6, <1>7, <2>2 DEF TextTypes
  <2>3. QED
    BY <2>1, <2>2
<1>9. text \o Held(scanner') = Held(scanner)
  <2>1. CASE source.grammar = "dsml"
    <3>1. Held(scanner') = <<>> \o scanner.buffer
      BY <1>5, <1>6, <2>1, Zenon DEF Held
    <3>2. <<>> \o scanner.buffer = scanner.buffer /\ text = scanner.accumulated
      BY <1>2, <2>1, Joined
    <3>3. QED
      BY <3>1, <3>2, Zenon DEF Held
  <2>2. CASE source.grammar # "dsml"
    BY <1>2, <1>6, <2>2, Joined
  <2>3. QED
    BY <2>1, <2>2
<1>10. Within(Ahead', FullText')
  <2>1. Ahead' = shown \o Held(scanner)
    BY <1>1, <1>6, <1>9 DEF Ahead
  <2>2. Ahead = shown \o Held(scanner)
    BY <1>2, <1>3, Joined DEF Ahead
  <2>3. FullText' = FullText
    BY <1>1 DEF FullText
  <2>4. QED
    BY <1>1, <2>1, <2>2, <2>3
<1>11. TextSound'
  BY <1>8, <1>10, ShownAhead
<1>12. ASSUME source'.grammar = "dsml", whole', ~anthropic'.finished
       PROVE  Kept'
  <2>1. Kept
    BY <1>1, <1>12 DEF TextInv, WholeSound
  <2>2. text = <<>> /\ ~scanner.in_fence /\ scanner.buffer = <<>>
    BY <1>1, <1>12, <2>1 DEF Kept
  <2>3. /\ scanner'.buffer = scanner.buffer /\ scanner'.in_fence = FALSE
        /\ scanner'.accumulated = <<>>
    BY <1>1, <1>5, <1>6, <1>12
  <2>4. FullText' = FullText
    BY <1>1 DEF FullText
  <2>5. WordsCounted'
    BY <1>1, <1>3, <1>6, <2>1, <2>2, <2>3, <2>4 DEF Kept, WordsCounted
  <2>6. ASSUME NEW w \in Text
        PROVE  CallsCountedBehind(w)'
    <3>1. CallsInStream(FullText \o w)
              = calls + CallsIn(pending) + CallsBehind(scanner, w)
      BY <2>1 DEF Kept, CallsCountedBehind
    <3>2. CallsBehind(scanner', w) = CallsBehind(scanner, w)
      BY <2>2, <2>3 DEF CallsBehind
    <3>3. CallsInStream(FullText' \o w)
              = calls' + CallsIn(pending') + CallsBehind(scanner', w)
      BY <1>1, <1>3, <1>6, <2>4, <3>1, <3>2
    <3>4. QED
      BY <3>3 DEF CallsCountedBehind
  <2>7. QED
    BY <2>2, <2>3, <2>5, <2>6 DEF Kept
<1>13. QED
  BY <1>11, <1>12 DEF WholeSound

\* Nothing is shown to a client that went away.
LEMMA PipelineCancelText ==
    ASSUME TextInv, PipelineCancel
    PROVE  TextSound' /\ WholeSound'
<1>1. /\ pending' = <<>> /\ scanner' = scanner /\ heard' = heard
      /\ shown' = shown /\ calls' = calls /\ source' = source
  BY DEF PipelineCancel, Cancel
<1>2. anthropic'.finished
  BY CancelEnds DEF PipelineCancel, TextInv, PipelineInv
<1>3. TextTypes /\ Within(shown, FullText) /\ FullText' = FullText
  BY <1>1 DEF TextInv, TextSound, FullText
<1>4. TextIn(pending') = <<>> /\ CallsIn(pending') = 0 /\ <<>> \in Text
  BY <1>1, WhatIsIn, Joined DEF Text
<1>5. TextTypes'
  BY <1>1, <1>3, <1>4 DEF TextTypes
<1>6. QED
  BY <1>1, <1>2, <1>3, <1>5 DEF TextSound, WholeSound

\* Every step keeps the invariant.
LEMMA TextStep ==
    ASSUME ToolIndices = Nat, TextInv, [PipelineNext]_allVars
    PROVE  TextInv'
<1>1. PipelineInv'
  BY PipelineStep DEF TextInv
<1>2. TextSound' /\ WholeSound'
  <2>1. CASE UNCHANGED allVars
    BY <2>1 DEF allVars, vars, pipeline, TextInv, TextSound, WholeSound, TextTypes,
       FullText, Ahead, Kept, WordsCounted, CallsCountedBehind
  <2>2. CASE PipelineNext
    BY <2>2, PipelineBeginText, HearTextText, HearThinkingText, ScanText, HandOverText,
       HearEndText, HearErrorText, PipelineCancelText DEF PipelineNext
  <2>3. QED
    BY <2>1, <2>2
<1>3. QED
  BY <1>1, <1>2 DEF TextInv

\* What it says when all that was heard was handed over.
LEMMA TextInvMeans ==
    ASSUME TextInv
    PROVE  NothingInvented /\ NothingLost /\ CallsMatchFullText
<1>1. TextTypes /\ Within(shown, FullText)
  BY DEF TextInv, TextSound
<1>2. /\ FullText \in Text /\ shown \in Text /\ calls \in Nat
      /\ NumWords(shown) \in Nat /\ <<>> \in Text
  BY <1>1, AheadTexts, Joined DEF TextTypes
<1>3. NothingInvented
  BY <1>1, <1>2, ShownIsFound
<1>4. ASSUME HandedOver, whole, source.grammar = "dsml"
      PROVE  EveryWordArrived /\ calls = CallsInStream(FullText)
  <2>1. Kept /\ pending = <<>> /\ ~scanner.scanning
    BY <1>4 DEF HandedOver, Running, TextInv, WholeSound
  <2>2. scanner.buffer = <<>> /\ ~scanner.in_fence
    BY <2>1 DEF Kept
  <2>3. TextIn(pending) = <<>> /\ CallsIn(pending) = 0
    BY <2>1, WhatIsIn
  <2>4. EveryWordArrived
    <3>1. NumWords(<<>>) = 0 /\ Len(CallObject) = 2
      BY WordsOf DEF NumWords, Named
    <3>2. NumWords(FullText) = NumWords(shown) + Len(CallObject) * calls
      BY <1>2, <2>1, <2>2, <2>3, <3>1 DEF Kept, WordsCounted
    <3>3. QED
      BY <3>2 DEF EveryWordArrived, NumWords
  <2>5. calls = CallsInStream(FullText)
    <3>1. CallsCountedBehind(<<>>)
      BY <1>2, <2>1 DEF Kept
    <3>2. FullText \o <<>> = FullText /\ <<>> \o <<>> = <<>>
      BY <1>2, Joined
    <3>3. CallsBehind(scanner, <<>>) = CallsInStream(<<>>)
      BY <2>2, <3>2 DEF CallsBehind
    <3>4. CallsInStream(<<>>) = 0
      <4>1. FenceStarts(<<>>) = {}
        BY DEF FenceStarts
      <4>2. QED
        BY <1>2, <4>1, CallsUnfold
    <3>5. QED
      BY <1>2, <2>3, <3>1, <3>2, <3>3, <3>4 DEF CallsCountedBehind
  <2>6. QED
    BY <2>4, <2>5
<1>5. CallsMatchFullText
  <2>1. SUFFICES ASSUME KeysShared, HandedOver, whole, source.grammar = "dsml"
                 PROVE  calls = CallsInFullText(FullText)
    BY DEF CallsMatchFullText, PathsAgree
  <2>2. \A k \in DOMAIN FullText : FullText[k] # "open_tool"
    BY <2>1 DEF KeysShared
  <2>3. QED
    BY <1>2, <1>4, <2>1, <2>2, SharedKeysAgree
<1>6. QED
  BY <1>3, <1>4, <1>5 DEF NothingLost

(***************************************************************************)
(* The theorems.  ToolIndices bounds the indices TLC tries; the code's are *)
(* all the natural numbers.                                                *)
(***************************************************************************)

\* In every reachable state of the pipeline what waits to be handed over is the
\* rest of one legal group of events, and the count is ahead of every call sent.
THEOREM PipelineInvariance ==
    ASSUME ToolIndices = Nat
    PROVE  PipelineSpec => []PipelineInv
<1>1. PipelineInit => PipelineInv
  BY PipelineInitEstablishes
<1>2. PipelineInv /\ [PipelineNext]_allVars => PipelineInv'
  BY PipelineStep
<1> QED
  BY <1>1, <1>2, PTL DEF PipelineSpec

\* The grammars and the transport in front of the emitters implement the
\* abstract source of StreamingEmitters: every step is one of its steps, or
\* changes nothing an emitter or a client sees.
THEOREM PipelineImplementsSource ==
    ASSUME ToolIndices = Nat
    PROVE  PipelineSpec => Spec
<1>1. PipelineInit => Init
  BY DEF PipelineInit
<1>2. PipelineInv /\ [PipelineNext]_allVars => [Next]_vars
  BY PipelineStep
<1> QED
  BY <1>1, <1>2, PipelineInvariance, PTL DEF PipelineSpec, Spec

\* So whatever text the provider sends and wherever it is cut, each client of
\* the pipeline is served as the emitters were shown to serve it.
THEOREM PipelineServes ==
    ASSUME ToolIndices = Nat
    PROVE  PipelineSpec =>
             [](/\ TypeOK /\ OneBlockOpen /\ FinishedIsClosed
                /\ FrontEndsAgree /\ ChunksInOrder /\ ValidWhenCallsComeFirst)
BY PipelineImplementsSource, TypeCorrect, OneBlockAtATime, NothingLeftOpen,
   SameEnding, ChunksStayInOrder, CallsFirstAreValid, PTL

\* In every reachable state what was shown, yielded, held and not looked at is
\* text that was heard, in its order; and while no cut went through a fence of
\* DSMLGrammar it is all of its words, and its calls under whichever key they
\* are named.
THEOREM TextInvariance ==
    ASSUME ToolIndices = Nat
    PROVE  PipelineSpec => []TextInv
<1>1. PipelineInit => TextInv
  BY TextInitEstablishes
<1>2. TextInv /\ [PipelineNext]_allVars => TextInv'
  BY TextStep
<1> QED
  BY <1>1, <1>2, PTL DEF PipelineSpec

\* Whatever the provider says, however it is cut and whichever scanner runs,
\* the client is shown nothing that was not said, nothing twice and nothing out
\* of order.
THEOREM NothingIsInvented ==
    ASSUME ToolIndices = Nat
    PROVE  PipelineSpec => []NothingInvented
<1>1. TextInv => NothingInvented
  BY TextInvMeans
<1> QED
  BY <1>1, TextInvariance, PTL

\* As long as no chunk ends inside a fence or its mark, every word reached the
\* client once all that was heard was handed over: as text, or in a call.
THEOREM NothingIsLost ==
    ASSUME ToolIndices = Nat
    PROVE  PipelineSpec => []NothingLost
<1>1. TextInv => NothingLost
  BY TextInvMeans
<1> QED
  BY <1>1, TextInvariance, PTL

\* And then the calls DSMLGrammar found while the text streamed in are as many
\* as its parse_final finds in the whole text, unless an object names its tool
\* where only the stream looks for the name.
THEOREM CallsMatch ==
    ASSUME ToolIndices = Nat
    PROVE  PipelineSpec => []CallsMatchFullText
<1>1. TextInv => CallsMatchFullText
  BY TextInvMeans
<1> QED
  BY <1>1, TextInvariance, PTL
=============================================================================
