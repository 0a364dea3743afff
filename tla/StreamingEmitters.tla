-------------------------- MODULE StreamingEmitters --------------------------
(***************************************************************************)
(* The streaming half of v2: a tool grammar that turns what the provider   *)
(* says into SinkEvents, and the two emitters that turn the events into    *)
(* the frames of an Anthropic or an OpenAI stream.  A request is answered  *)
(* by one of the two; here both are fed the same events, so that what the  *)
(* two kinds of client see can be compared.                                *)
(*                                                                         *)
(* The source is what v2/tools/grammar.py and the transport in front of it *)
(* can produce: MessageStart first, every tool call as start, arguments    *)
(* and end with nothing in between, one MessageEnd or SinkError, and       *)
(* close() at any moment, when the client goes away.                       *)
(***************************************************************************)
EXTENDS AnthropicEmitter, OpenAIEmitter

CONSTANT MaxEvents     \* bound: events of one stream

ASSUME MaxEventsAssumption == MaxEvents \in Nat

VARIABLES anthropic,   \* the Anthropic emitter and its reader
          openai,      \* the OpenAI emitter and its reader
          source       \* the provider's grammar, and where it is in the stream

vars == <<anthropic, openai, source>>

\* GrammarRegistry chooses by the family of the model.  The instance it hands
\* out is taken to be new, as the tests make it.
Grammars == {"dsml", "free_text"}

Source ==
    [grammar : Grammars,
     begun : BOOLEAN,                       \* MessageStart was sent
     ended : BOOLEAN,                       \* MessageEnd was sent
     call  : ToolIndices \cup {NoIndex},    \* the call that is being sent
     last  : ToolIndices \cup {NoIndex},    \* the last call that was started
     prose : BOOLEAN,                       \* text or thinking was sent
     calls_first : BOOLEAN,                 \* no call came late or skipped an index
     fed   : Nat]

Init ==
    /\ anthropic = NewAnthropicStream
    /\ openai = NewOpenAIStream
    /\ \E grammar \in Grammars :
          source = [grammar |-> grammar, begun |-> FALSE, ended |-> FALSE,
                    call |-> NoIndex, last |-> NoIndex, prose |-> FALSE,
                    calls_first |-> TRUE, fed |-> 0]

\* Where the source is once it has sent an event.
Sent(event) ==
    [source EXCEPT
        !.begun = @ \/ event.kind = "MessageStart",
        !.ended = @ \/ event.kind = "MessageEnd",
        !.call = CASE event.kind = "ToolCallStart" -> event.index
                   [] event.kind = "ToolCallEnd" -> NoIndex
                   [] OTHER -> @,
        !.last = IF event.kind = "ToolCallStart" THEN event.index ELSE @,
        !.prose = @ \/ event.kind \in {"ThinkingDelta", "TextDelta"},
        !.calls_first =
            @ /\ (event.kind = "ToolCallStart" =>
                     ~source.prose /\ event.index = source.last + 1),
        !.fed = @ + 1]

Feed(event) ==
    /\ source.fed < MaxEvents
    /\ anthropic' = EmitAnthropic(anthropic, event)
    /\ openai' = EmitOpenAI(openai, event)
    /\ source' = Sent(event)

\* The transport sends MessageStart before it pulls the first event.
Begin ==
    /\ ~source.begun /\ ~anthropic.finished
    /\ Feed(Event("MessageStart"))

Running == source.begun /\ ~anthropic.finished
BetweenCalls == Running /\ source.call = NoIndex

Prose ==
    /\ BetweenCalls
    /\ \E kind \in {"ThinkingDelta", "TextDelta"}, blank \in BOOLEAN :
           Feed(Delta(kind, blank))

\* DSMLGrammar counts the fences it has seen and skips the index of one that
\* was no call; FreeTextGrammar has no count and numbers every call 0.
CallIndex(i) ==
    CASE source.grammar = "dsml" -> i > source.last
      [] source.grammar = "free_text" -> i = 0

CallStart ==
    /\ BetweenCalls
    /\ \E i \in ToolIndices : CallIndex(i) /\ Feed(ToolEvent("ToolCallStart", i))

CallArgs ==
    /\ Running /\ source.call # NoIndex
    /\ Feed(ToolEvent("ToolCallArgsDelta", source.call))

CallEnd ==
    /\ Running /\ source.call # NoIndex
    /\ Feed(ToolEvent("ToolCallEnd", source.call))

Finish == BetweenCalls /\ Feed(Event("MessageEnd"))
Fail   == BetweenCalls /\ Feed(Event("SinkError"))

\* The client goes away: the transport closes the emitter, which may be done.
Cancel ==
    /\ anthropic' = CloseAnthropic(anthropic)
    /\ openai' = CloseOpenAI(openai)
    /\ UNCHANGED source

Next ==
    Begin \/ Prose \/ CallStart \/ CallArgs \/ CallEnd \/ Finish \/ Fail \/ Cancel

Spec == Init /\ [][Next]_vars

(***************************************************************************)
(* Properties.                                                             *)
(***************************************************************************)
TypeOK ==
    /\ anthropic \in AnthropicStream
    /\ openai \in OpenAIStream
    /\ source \in Source

\* Whatever the grammar finds in the provider's text, an Anthropic client
\* never sees two open blocks, a delta or a stop outside its block, or a
\* frame after message_stop: the index a block carries is the only thing
\* that can be wrong.
OneBlockOpen == anthropic.client.errors \subseteq {"index"}

\* A stream that is over, by its end, by an error or because the client went
\* away, has no block left open.
FinishedIsClosed == anthropic.finished => anthropic.client.open = NoIndex

\* The two kinds of client agree on how a stream went: one has seen
\* message_stop exactly when the other has seen [DONE], both only after
\* MessageEnd, and neither is served any longer than the other.
FrontEndsAgree ==
    /\ anthropic.client.stopped = source.ended
    /\ openai.client.done = source.ended
    /\ openai.client.finish = source.ended
    /\ openai.finished = anthropic.finished

\* An OpenAI client gets its role first and once, one finish_reason with [DONE]
\* behind it, and, of a grammar that counts, calls whose indices grow; the
\* error object that is no chunk is the only other thing a validator objects to.
ChunksInOrder ==
    openai.client.errors \subseteq
        IF source.grammar = "dsml" THEN {"empty choices"}
        ELSE {"empty choices", "call index"}

\* With the calls in front, an Anthropic stream is valid to the last frame,
\* the block indices included.
ValidWhenCallsComeFirst ==
    source.calls_first =>
        /\ anthropic.client.errors = {}
        /\ source.ended => AnthropicVerdict(anthropic.client) = {}

(***************************************************************************)
(* What a comment says and the code does not do.                           *)
(***************************************************************************)

\* "Block indices monotonically increase" (emitter_anthropic.py:55).
BlockIndicesIncrease == "index" \notin anthropic.client.errors
=============================================================================
