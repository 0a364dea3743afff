--------------------------- MODULE GrammarPipeline ---------------------------
(***************************************************************************)
(* A provider's text, cut into chunks anywhere, through a tool grammar     *)
(* into the emitters.  The grammar is a generator: a turn of its scanning  *)
(* loop runs when the transport asks for the next event, and what the turn *)
(* yields is handed over event by event.  The transport sends MessageStart *)
(* first and closes the emitter when the client goes away.                 *)
(***************************************************************************)
EXTENDS StreamingEmitters, ToolGrammars, SequencesExt, FiniteSets

CONSTANTS Chunks,     \* the pieces of text a provider may send at once
          MaxChunks   \* bound: chunks the provider sends

ASSUME ChunksAssumption == Chunks \subseteq Text \ {<<>>}
ASSUME MaxChunksAssumption == MaxChunks \in Nat

VARIABLES scanner,    \* the grammar's attributes
          pending,    \* yielded, not handed over yet
          provider,   \* "open", "finished" or "failed"
          heard,      \* history: the chunks the provider sent, <<>> for thinking
          shown,      \* history: the text the client was sent
          calls,      \* history: the calls the client was sent
          stop_reason,\* history: why the message ended
          whole       \* history: no chunk ended inside a fence or its mark

pipeline == <<scanner, pending, provider, heard, shown, calls, stop_reason, whole>>
allVars == <<vars, pipeline>>

PipelineInit ==
    /\ Init
    /\ scanner = NewScanner
    /\ pending = <<>>
    /\ provider = "open"
    /\ heard = <<>> /\ shown = <<>> /\ calls = 0 /\ stop_reason = "none" /\ whole = TRUE

PipelineBegin == Begin /\ UNCHANGED pipeline

\* The grammar is suspended in "async for event in stream".
Waiting == Running /\ pending = <<>> /\ ~scanner.scanning /\ provider = "open"

Hear(chunk) == Len(heard) < MaxChunks /\ heard' = Append(heard, chunk)

HearText ==
    /\ Waiting
    /\ \E chunk \in Chunks :
           /\ Hear(chunk)
           /\ scanner' = Heard(scanner, chunk)
    /\ UNCHANGED <<vars, pending, provider, shown, calls, stop_reason, whole>>

\* Thinking is passed on without a look at it.
HearThinking ==
    /\ Waiting
    /\ Hear(<<>>)
    /\ Feed(Delta("ThinkingDelta", FALSE))
    /\ UNCHANGED <<scanner, pending, provider, shown, calls, stop_reason, whole>>

\* The turn that ends a chunk leaves a fence open, or half of its mark behind.
CutsFence(turn) ==
    /\ ~turn.scanner.scanning
    /\ \/ turn.scanner.in_fence
       \/ \E y \in {turn.out[k] : k \in DOMAIN turn.out} :
              y.text # <<>> /\ y.text[Len(y.text)] = "fence"

Scan ==
    /\ Running /\ pending = <<>> /\ scanner.scanning
    /\ LET turn == IF source.grammar = "dsml" THEN ScanDSML(scanner)
                   ELSE ScanFreeText(scanner)
       IN  /\ scanner' = turn.scanner
           /\ pending' = turn.out
           /\ whole' = (whole /\ ~CutsFence(turn))
    /\ UNCHANGED <<vars, provider, heard, shown, calls, stop_reason>>

HandOver ==
    /\ Running /\ pending # <<>>
    /\ LET next == Head(pending)
       IN  /\ Feed(next.event)
           /\ shown' = IF next.event.kind = "TextDelta" THEN shown \o next.text
                       ELSE shown
           /\ calls' = IF next.event.kind = "ToolCallStart" THEN calls + 1 ELSE calls
    /\ pending' = Tail(pending)
    /\ UNCHANGED <<scanner, provider, heard, stop_reason, whole>>

HearEnd ==
    /\ Waiting
    /\ LET flush == IF source.grammar = "dsml" THEN FlushDSML(scanner)
                    ELSE Turn(scanner, <<>>)
       IN  /\ scanner' = flush.scanner
           /\ pending' = Append(flush.out, Yielded(Event("MessageEnd"), <<>>))
           /\ stop_reason' = StopReason(flush.scanner)
    /\ provider' = "finished"
    /\ UNCHANGED <<vars, heard, shown, calls, whole>>

HearError ==
    /\ Waiting
    /\ pending' = <<Yielded(Event("SinkError"), <<>>)>>
    /\ provider' = "failed"
    /\ UNCHANGED <<vars, scanner, heard, shown, calls, stop_reason, whole>>

PipelineCancel ==
    /\ Cancel
    /\ pending' = <<>>
    /\ UNCHANGED <<scanner, provider, heard, shown, calls, stop_reason, whole>>

PipelineNext ==
    \/ PipelineBegin \/ HearText \/ HearThinking \/ Scan \/ HandOver
    \/ HearEnd \/ HearError \/ PipelineCancel

PipelineSpec == PipelineInit /\ [][PipelineNext]_allVars

(***************************************************************************)
(* Properties.                                                             *)
(***************************************************************************)
\* All that was heard has been looked at and handed over.
HandedOver == Running /\ pending = <<>> /\ ~scanner.scanning

FullText == FlattenSeq(heard)
Words(text) == {k \in DOMAIN text : text[k] \in {"prose", "close"} \cup Opening}

\* "Every case through streaming and final-parse paths, asserting the two agree"
\* (V2_DESIGN.md:465): DSMLGrammar finds as many calls while the text streams in
\* as its parse_final in the whole text, as long as no cut goes through a fence.
\* Does not hold: the two do not look for the name under the same keys.
PathsAgree ==
    HandedOver /\ whole /\ source.grammar = "dsml" /\ provider = "open" =>
        calls = CallsInFullText(FullText)

\* No object of the text names its tool where only one of the two paths looks.
KeysShared == \A k \in DOMAIN FullText : FullText[k] # "open_tool"

\* The keys are all they disagree about, however the text is cut.
CallsMatchFullText == KeysShared => PathsAgree

EveryWordArrived ==
    Cardinality(Words(FullText)) =
        Cardinality(Words(shown)) + Len(CallObject) * calls

\* Then nothing is lost either: every word went to the client as text, or
\* into a call.
NothingLost ==
    HandedOver /\ whole /\ source.grammar = "dsml" => EveryWordArrived

\* A client is never shown text the provider did not send, nor twice, nor in
\* another order, whichever scanner runs and wherever the chunks are cut.
NothingInvented ==
    LET text == FullText
        matched[n \in 0 .. Len(text)] ==
            IF n = 0 THEN 0
            ELSE LET m == matched[n - 1]
                 IN  IF m < Len(shown) /\ shown[m + 1] = text[n] THEN m + 1 ELSE m
    IN  matched[Len(text)] = Len(shown)

(***************************************************************************)
(* What the design says and the code does not do.                          *)
(***************************************************************************)

\* "If a candidate fails validation at close, the buffered span flushes as
\* TextDelta" (V2_DESIGN.md:371): no word is ever lost.
BufferedSpanFlushes == anthropic.client.stopped => EveryWordArrived
=============================================================================
