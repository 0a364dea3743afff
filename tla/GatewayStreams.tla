--------------------------- MODULE GatewayStreams ---------------------------
(***************************************************************************)
(* One streamed answer on its way through the gateway.  send_message() of  *)
(* functions.py turns the lines of the web service into chunks of text and *)
(* puts <think> tags around the thinking; stream_response() and            *)
(* stream_anthropic_response() of app.py take the chunks apart again and   *)
(* send them on as frames.  Both encoders read the same stream here.  When *)
(* it ends they bind the conversation with the answer to the chat, under   *)
(* the text they make of it.  Which rows that writes is in Gateway.        *)
(***************************************************************************)
EXTENDS TaggedText

CONSTANTS Pieces,    \* what one line may add to a fragment
          MaxLines   \* bound: lines of an answer

ASSUME PiecesAssumption == Pieces \subseteq Text
ASSUME MaxLinesAssumption == MaxLines \in Nat

VARIABLES upstream,    \* "open", "finished", "failed" or "closed" by the client
          think_open,  \* send_message: a <think> tag is not closed yet
          carry,       \* _hold_think_tags
          full_text,   \* what the encoder was given so far
          openai,      \* the state and the output of stream_response
          anthropic,   \* the state and the output of stream_anthropic_response
          saved,       \* what the conversation was bound under at the end
          lines,       \* history: how many lines came
          thinking,    \* history: what the model thought
          content,     \* history: what the model said
          late         \* history: it thought again after it had said something

vars == <<upstream, think_open, carry, full_text, openai, anthropic, saved,
          lines, thinking, content, late>>

Frames == INSTANCE SSEValidators WITH ToolIndices <- {}

NotSaved == [kind |-> "none", text |-> <<>>, calls |-> 0]

NewOpenAI ==
    [is_thinking |-> FALSE, parser |-> NewParser, reasoning |-> <<>>,
     shown |-> <<>>, calls |-> 0, done |-> FALSE]

\* message_start goes out before the first chunk is asked for.
NewAnthropic ==
    [is_thinking |-> FALSE, parser |-> NewParser, reasoning |-> <<>>,
     shown |-> <<>>, calls |-> 0, text_block_started |-> FALSE,
     block_index |-> 0, reader |-> Frames!message_start(Frames!NewAnthropicReader)]

Init ==
    /\ upstream = "open" /\ think_open = FALSE /\ carry = <<>> /\ full_text = <<>>
    /\ openai = NewOpenAI /\ anthropic = NewAnthropic /\ saved = NotSaved
    /\ lines = 0 /\ thinking = <<>> /\ content = <<>> /\ late = FALSE

(***************************************************************************)
(* A chunk in stream_response.  A tag is honoured wherever it stands.      *)
(***************************************************************************)
OpenAIChunk(o, chunk) ==
    LET within == o.is_thinking \/ Has(chunk, "think>")
        bare   == Without(chunk, "think>")
        ends   == Has(bare, "/think>")
        thought == IF ends THEN FirstPiece(bare, "/think>")
                   ELSE IF within THEN bare ELSE <<>>
        rest    == IF ends THEN SecondPiece(bare, "/think>")
                   ELSE IF within THEN <<>> ELSE bare
        fed     == feed(o.parser, rest)
    IN  [o EXCEPT !.is_thinking = within /\ ~ends,
                  !.reasoning = @ \o thought,
                  !.parser = fed.parser,
                  !.shown = @ \o fed.text]

(***************************************************************************)
(* A chunk in stream_anthropic_response.  An opening tag counts until the  *)
(* first text went out, a closing one while thinking.                      *)
(***************************************************************************)
Opens(a, chunk) ==
    Has(chunk, "think>") /\ ~a.text_block_started /\ ~a.is_thinking

StartThinking(a) ==
    [a EXCEPT !.is_thinking = TRUE,
              !.reader = Frames!content_block_start(@, a.block_index)]

Think(a, text) ==
    IF text = <<>> THEN a
    ELSE [a EXCEPT !.reasoning = @ \o text,
                   !.reader = Frames!content_block_delta(@, a.block_index)]

\* Mutant of StopThinking: the block is not counted.
StopThinkingKeepsIndex(a) ==
    [a EXCEPT !.is_thinking = FALSE,
              !.reader = Frames!content_block_stop(@, a.block_index)]

StopThinking(a) ==
    [a EXCEPT !.is_thinking = FALSE,
              !.block_index = @ + 1,
              !.reader = Frames!content_block_stop(@, a.block_index)]

StartText(a) ==
    IF a.text_block_started THEN a
    ELSE [a EXCEPT !.text_block_started = TRUE,
                   !.reader = Frames!content_block_start(@, a.block_index)]

Say(a, text) ==
    LET fed == feed(a.parser, text)
        b   == [a EXCEPT !.parser = fed.parser]
    IN  IF fed.text = <<>> THEN b
        ELSE [StartText(b) EXCEPT
                 !.shown = @ \o fed.text,
                 !.reader = Frames!content_block_delta(@, a.block_index)]

AnthropicChunk(a, chunk) ==
    LET b    == IF Opens(a, chunk) THEN StartThinking(a) ELSE a
        bare == IF Opens(a, chunk) THEN Without(chunk, "think>") ELSE chunk
    IN  IF b.is_thinking /\ Has(bare, "/think>")
        THEN Say(StopThinking(Think(b, FirstPiece(bare, "/think>"))),
                 SecondPiece(bare, "/think>"))
        ELSE IF b.is_thinking THEN Think(b, bare) ELSE Say(b, bare)

(***************************************************************************)
(* A chunk goes through _hold_think_tags into the encoders.                *)
(***************************************************************************)
Stream == [carry |-> carry, full |-> full_text, openai |-> openai,
           anthropic |-> anthropic]

Encode(s, chunk) ==
    IF chunk = <<>> THEN s
    ELSE [s EXCEPT !.full = @ \o chunk,
                   !.openai = OpenAIChunk(@, chunk),
                   !.anthropic = AnthropicChunk(@, chunk)]

Yield(s, chunk) ==
    LET held == Hold(s.carry, chunk)
    IN  Encode([s EXCEPT !.carry = held.carry], held.passed)

Receive(s) ==
    /\ carry' = s.carry /\ full_text' = s.full
    /\ openai' = s.openai /\ anthropic' = s.anthropic

ThinkOpen == <<"<", "think>">>
ThinkClose == <<"<", "/think>">>

Opening(s) == IF think_open THEN s ELSE Yield(s, ThinkOpen)
Closing(s) == IF think_open THEN Yield(s, ThinkClose) ELSE s

(***************************************************************************)
(* The lines of the web service.                                           *)
(***************************************************************************)
Line == upstream = "open" /\ lines < MaxLines /\ lines' = lines + 1

Thought(piece) ==
    /\ thinking' = thinking \o piece
    /\ late' = (late \/ content # <<>>)
    /\ UNCHANGED content

Said(piece) ==
    /\ content' = content \o piece
    /\ UNCHANGED <<thinking, late>>

\* A fragment of thinking, appended or in the first snapshot.
ThinkFragment(piece) ==
    /\ Line
    /\ Receive(Yield(Opening(Stream), piece))
    /\ think_open' = TRUE
    /\ Thought(piece)
    /\ UNCHANGED <<upstream, saved>>

\* A fragment of the response, or one of another kind in the first snapshot.
ResponseFragment(piece) ==
    /\ Line
    /\ Receive(Yield(Closing(Stream), piece))
    /\ think_open' = FALSE
    /\ Said(piece)
    /\ UNCHANGED <<upstream, saved>>

\* More of the fragment that came last, or an appended fragment of another
\* kind, which neither opens nor closes the thinking.
MoreText(piece) ==
    /\ Line
    /\ Receive(Yield(Stream, piece))
    /\ IF think_open THEN Thought(piece) ELSE Said(piece)
    /\ UNCHANGED <<upstream, think_open, saved>>

(***************************************************************************)
(* The end of the stream: status FINISHED, alone or in a batch, or no more *)
(* lines.  The finally blocks of the encoders.                             *)
(***************************************************************************)
Bound(full) ==
    IF full = <<>> THEN [NotSaved EXCEPT !.kind = "dropped"]
    ELSE [kind |-> "bound", calls |-> Calls(full),
          text |-> IF Calls(full) > 0 THEN <<>> ELSE clean_text(full)]

\* Mutant of EndOpenAI: what the parser still holds is not flushed.
EndOpenAIUnflushed(o, full) == [o EXCEPT !.calls = Calls(full), !.done = TRUE]

EndOpenAI(o, full) ==
    [o EXCEPT !.calls = Calls(full),
              !.shown = IF Calls(full) > 0 THEN @ ELSE @ \o flush(o.parser),
              !.done = TRUE]

\* Open blocks are closed first, one that thinks before one of text.
CloseBlocks(a) ==
    LET b == IF a.is_thinking THEN StopThinking(a) ELSE a
    IN  IF ~b.text_block_started THEN b
        ELSE [b EXCEPT !.text_block_started = FALSE,
                       !.block_index = @ + 1,
                       !.reader = Frames!content_block_stop(@, b.block_index)]

\* A block that is started, filled and stopped at once.
WholeBlock(a) ==
    [a EXCEPT !.block_index = @ + 1,
              !.reader = Frames!content_block_stop(
                             Frames!content_block_delta(
                                 Frames!content_block_start(@, a.block_index),
                                 a.block_index),
                             a.block_index)]

WholeBlocks(a, n) ==
    LET run[k \in 0 .. n] == IF k = 0 THEN a ELSE WholeBlock(run[k - 1])
    IN  run[n]

\* The text block goes out as a whole when there is no call: the flag that
\* would say it was streamed has just been reset.
EndAnthropic(a, full) ==
    LET closed == CloseBlocks(a)
        answer == IF clean_text(full) # <<>> THEN clean_text(full) ELSE flush(a.parser)
        texts  == IF Calls(full) = 0 /\ answer # <<>> /\ ~closed.text_block_started
                  THEN [WholeBlock(closed) EXCEPT !.shown = @ \o answer]
                  ELSE closed
    IN  [WholeBlocks(texts, Calls(full)) EXCEPT !.calls = Calls(full), !.reader = Frames!message_stop(@)]

(***************************************************************************)
(* format_response: the answer for a client that does not stream, made     *)
(* from the whole text.  Only the first span of thinking is kept.          *)
(***************************************************************************)
FirstThought(full) ==
    LET opens  == {o \in Tags(full, "think>") :
                      \E c \in Tags(full, "/think>") : c > o}
        closes == {c \in Tags(full, "/think>") : c > Min(opens)}
    IN  IF opens = {} THEN <<>>
        ELSE SubSeq(full, Min(opens) + 2, Min(closes) - 1)

format_response(full) ==
    [reasoning |-> FirstThought(full), calls |-> Calls(full),
     content |-> IF Calls(full) > 0 THEN <<>> ELSE clean_text(full)]

Finished ==
    LET s == Closing(Stream)
        t == Encode([s EXCEPT !.carry = <<>>], s.carry)
    IN  /\ upstream = "open"
        /\ upstream' = "finished"
        /\ Receive([t EXCEPT !.openai = EndOpenAI(@, t.full),
                             !.anthropic = EndAnthropic(@, t.full)])
        /\ saved' = Bound(t.full)
        /\ UNCHANGED <<think_open, lines, thinking, content, late>>

\* Mutant of Failed: a stream that broke off ends like a complete one.
FailedAsFinished ==
    /\ upstream = "open"
    /\ upstream' = "failed"
    /\ anthropic' = EndAnthropic(anthropic, full_text)
    /\ openai' = EndOpenAI(openai, full_text)
    /\ saved' = Bound(full_text)
    /\ UNCHANGED <<think_open, carry, full_text, lines, thinking, content, late>>

\* The web service cannot be read any more: an error frame and nothing else.
Failed ==
    /\ upstream = "open"
    /\ upstream' = "failed"
    /\ anthropic' = [anthropic EXCEPT !.reader = Frames!error_frame(@)]
    /\ UNCHANGED <<think_open, carry, full_text, openai, saved, lines, thinking,
                   content, late>>

\* The client leaves: the generator is closed where it yields.
ClientGone ==
    /\ upstream = "open"
    /\ upstream' = "closed"
    /\ UNCHANGED <<think_open, carry, full_text, openai, anthropic, saved, lines,
                   thinking, content, late>>

Next ==
    \/ \E piece \in Pieces : \/ ThinkFragment(piece)
                             \/ ResponseFragment(piece)
                             \/ MoreText(piece)
    \/ Finished
    \/ Failed
    \/ ClientGone

Spec == Init /\ [][Next]_vars
-----------------------------------------------------------------------------
\* The variables hold what the code can put there.
StreamsTypeOK ==
    /\ upstream \in {"open", "finished", "failed", "closed"}
    /\ think_open \in BOOLEAN /\ late \in BOOLEAN
    /\ carry \in {<<>>, <<"<">>}
    /\ full_text \in Text /\ thinking \in Text /\ content \in Text
    /\ lines \in 0 .. MaxLines
    /\ openai.parser \in Parser /\ anthropic.parser \in Parser
    /\ openai.is_thinking \in BOOLEAN /\ anthropic.is_thinking \in BOOLEAN
    /\ openai.shown \in Text /\ anthropic.shown \in Text
    /\ openai.calls \in Nat /\ anthropic.block_index \in Nat
    /\ anthropic.text_block_started \in BOOLEAN
    /\ saved.kind \in {"none", "bound", "dropped"} /\ saved.text \in Text

\* The model did not write think tags itself, and thought before it spoke, the
\* order stream_anthropic_response counts on.
Orderly ==
    /\ ~late
    /\ \A name \in {"think>", "/think>"} : ~Has(thinking, name) /\ ~Has(content, name)

\* What a text says besides its tool calls, wherever it was cut.
Spoken(text) == RemoveSpans(text, "tool_call>", "/tool_call>", TRUE)

(***************************************************************************)
(* However the answer is cut into lines and whatever the tag buffers hold  *)
(* back, the two encoders hand out the thinking as thinking and the text   *)
(* outside tool calls as text, in order, none twice while it streams, and  *)
(* an OpenAI client has all of it when the stream ends without a call.     *)
(***************************************************************************)
ThinkingKeptApart ==
    Orderly =>
        /\ IsPrefix(openai.reasoning, thinking)
        /\ IsPrefix(anthropic.reasoning, thinking)
        /\ IsPrefix(openai.shown, Spoken(content))
        /\ upstream = "open" => IsPrefix(anthropic.shown, Spoken(content))
        /\ upstream = "finished" =>
               /\ openai.reasoning = thinking /\ anthropic.reasoning = thinking
               /\ openai.calls = 0 => openai.shown = Spoken(content)

(***************************************************************************)
(* The frames of an Anthropic stream are in order at every moment (no      *)
(* block inside another, indices count up, deltas name the open block),    *)
(* whatever tags the model wrote and wherever, and a finished stream has   *)
(* no block left open and ends with message_stop.                          *)
(***************************************************************************)
BlocksWellFormed ==
    /\ anthropic.reader.errors = {}
    /\ upstream = "finished" => Frames!AnthropicVerdict(anthropic.reader) = {}

(***************************************************************************)
(* A stream that broke off never looks complete, neither to the client     *)
(* ([DONE], message_stop) nor to the session cache, at whichever line it   *)
(* broke; and the chat is dropped only behind an answer without a word.    *)
(***************************************************************************)
FailureIsNotAnEnd ==
    /\ openai.done = (upstream = "finished")
    /\ anthropic.reader.stopped = (upstream = "finished")
    /\ (saved.kind # "none") = (upstream = "finished")
    /\ saved.kind = "dropped" => thinking = <<>> /\ content = <<>>

\* Thinking that can be told from markup once the two are one text.
Prose(text) == \A i \in 1 .. Len(text) : text[i] \in {"word", "<"}

\* Call markup is not fenced, no call is closed that was not opened, and what
\* stands around a call does not become a tag when the call is taken out.
WellTagged(text) ==
    /\ Tags(text, "tool_call>") = CallTags(text)
    /\ \A name \in {"tool_call>", "/tool_call>", "think>"} : ~Has(Spoken(text), name)

(***************************************************************************)
(* The calls a client is asked to make are those of the model's answer:    *)
(* neither the tags around the thinking nor where chunks were cut adds or  *)
(* hides one.                                                              *)
(***************************************************************************)
CallsAreTheAnswers ==
    upstream = "finished" /\ Orderly /\ Prose(thinking) =>
        openai.calls = Calls(content) /\ anthropic.calls = Calls(content)

\* How canonicalize_messages() reads an assistant message: its calls if it has
\* any, or else its text.
ReplyKey(text, calls) == [text |-> IF calls > 0 THEN <<>> ELSE text, calls |-> calls]

(***************************************************************************)
(* The next turn of an OpenAI client finds its chat: the client returns    *)
(* the answer as it was streamed to it, and that is what the conversation  *)
(* was bound under.                                                        *)
(***************************************************************************)
OpenAITurnResumes ==
    saved.kind = "bound" /\ Orderly /\ Prose(thinking) /\ WellTagged(content) =>
        ReplyKey(openai.shown, openai.calls) = ReplyKey(saved.text, saved.calls)

(***************************************************************************)
(* Streaming is only another way to deliver the answer: put together, the  *)
(* deltas are the thinking, the calls and the text of the collected reply  *)
(* (of an answer that thinks once: the collected reply has no room for a   *)
(* second thought).                                                        *)
(***************************************************************************)
StreamedIsCollected ==
    /\ upstream = "finished" /\ Cardinality(Tags(full_text, "think>")) <= 1
    /\ Orderly /\ Prose(thinking) /\ WellTagged(content)
    =>
        LET reply == format_response(full_text)
        IN  /\ openai.reasoning = reply.reasoning
            /\ anthropic.reasoning = reply.reasoning
            /\ openai.calls = reply.calls /\ anthropic.calls = reply.calls
            /\ openai.calls = 0 => openai.shown = reply.content

(***************************************************************************)
(* The same of an Anthropic client, which returns the blocks it was sent   *)
(* and convert_anthropic_messages() joins them, "so that ... the signature *)
(* cache can match across turns" (app.py:967).  It does not hold.          *)
(***************************************************************************)
AnthropicTurnResumes ==
    saved.kind = "bound" /\ Orderly /\ Prose(thinking) /\ WellTagged(content) =>
        ReplyKey(anthropic.shown, anthropic.calls) = ReplyKey(saved.text, saved.calls)
=============================================================================
