--------------------------- MODULE AnthropicEmitter ---------------------------
(***************************************************************************)
(* v2/streaming/emitter_anthropic.py.  An emitter is a record of its       *)
(* attributes, with what the reader of its frames knows so far (client).   *)
(* A frame goes to the reader the moment it is yielded.  The argument      *)
(* buffers are left out: they are written and never read.  RuntimeErrors   *)
(* (an event after the end, a second MessageStart) change nothing.         *)
(***************************************************************************)
EXTENDS SSEValidators

BlockTypes == {"thinking", "text", "tool_use"}
NoBlock == "none"

AnthropicStream ==
    [block_index : Nat, open_block : BlockTypes \cup {NoBlock},
     open_block_index : Nat \cup {NoIndex}, started : BOOLEAN,
     finished : BOOLEAN, client : AnthropicReader]

NewAnthropicStream ==
    [block_index |-> 0, open_block |-> NoBlock, open_block_index |-> NoIndex,
     started |-> FALSE, finished |-> FALSE, client |-> NewAnthropicReader]

\* Mutants of close_open_block: the next index is the one that was closed,
\* or the one before.
close_and_reuse_index(s) ==
    IF s.open_block = NoBlock \/ s.open_block_index = NoIndex THEN s
    ELSE [s EXCEPT !.client = content_block_stop(@, s.open_block_index),
                   !.block_index = s.open_block_index,
                   !.open_block = NoBlock,
                   !.open_block_index = NoIndex]

close_and_step_back(s) ==
    IF s.open_block = NoBlock \/ s.open_block_index = NoIndex THEN s
    ELSE [s EXCEPT !.client = content_block_stop(@, s.open_block_index),
                   !.block_index = s.open_block_index - 1,
                   !.open_block = NoBlock,
                   !.open_block_index = NoIndex]

close_open_block(s) ==
    IF s.open_block = NoBlock \/ s.open_block_index = NoIndex THEN s
    ELSE [s EXCEPT !.client = content_block_stop(@, s.open_block_index),
                   !.block_index = s.open_block_index + 1,
                   !.open_block = NoBlock,
                   !.open_block_index = NoIndex]

open_block(s, type, i) ==
    [s EXCEPT !.client = content_block_start(@, i),
              !.open_block = type, !.open_block_index = i]

send_delta(s, i) == [s EXCEPT !.client = content_block_delta(@, i)]

emit_message_start(s) ==
    IF s.started THEN s
    ELSE [s EXCEPT !.started = TRUE, !.block_index = 0, !.open_block = NoBlock,
                   !.open_block_index = NoIndex, !.client = message_start(@)]

\* Opens a block of this type unless one is open, and sends what there is.
emit_prose(s, type, blank) ==
    LET opened == IF s.open_block = type THEN s
                  ELSE open_block(s, type, s.block_index)
    IN  IF blank THEN opened ELSE send_delta(opened, opened.open_block_index)

\* Mutant of emit_thinking_delta: the text block stays open.
emit_thinking_inside(s, blank) == emit_prose(s, "thinking", blank)

emit_thinking_delta(s, blank) ==
    emit_prose(IF s.open_block = "thinking" THEN s ELSE close_open_block(s),
               "thinking", blank)

\* Only a thinking block is closed first.
emit_text_delta(s, blank) ==
    emit_prose(IF s.open_block = "thinking" THEN close_open_block(s) ELSE s,
               "text", blank)

\* The block takes the index of the call, not the next one of the message.
emit_tool_call_start(s, i) ==
    LET opened == open_block(close_open_block(s), "tool_use", i)
    IN  [opened EXCEPT !.block_index = IF @ > i + 1 THEN @ ELSE i + 1]

\* Without a tool block open, one is taken to be open: no frame starts it.
emit_tool_call_args(s, i) ==
    LET inside == IF s.open_block = "tool_use" THEN s
                  ELSE [s EXCEPT !.open_block = "tool_use", !.open_block_index = i]
    IN  send_delta(inside, i)

emit_tool_call_end(s) ==
    IF s.open_block = "tool_use" THEN close_open_block(s) ELSE s

emit_message_end(s) ==
    [close_open_block(s) EXCEPT !.client = message_stop(@), !.finished = TRUE]

emit_error(s) ==
    [close_open_block(s) EXCEPT !.client = error_frame(@), !.finished = TRUE]

EmitAnthropic(s, event) ==
    IF s.finished THEN s
    ELSE CASE event.kind = "SinkError" -> emit_error(s)
           [] event.kind = "MessageStart" -> emit_message_start(s)
           [] event.kind = "ThinkingDelta" ->
                 emit_thinking_delta(s, event.blank)
           [] event.kind = "TextDelta" -> emit_text_delta(s, event.blank)
           [] event.kind = "ToolCallStart" ->
                 emit_tool_call_start(s, event.index)
           [] event.kind = "ToolCallArgsDelta" ->
                 emit_tool_call_args(s, event.index)
           [] event.kind = "ToolCallEnd" -> emit_tool_call_end(s)
           [] event.kind = "MessageEnd" -> emit_message_end(s)

\* Mutant of CloseAnthropic: it only marks the end.
CloseWithoutStop(s) == [s EXCEPT !.finished = TRUE]

\* close(), the cancel and abort path too.
CloseAnthropic(s) ==
    IF s.finished THEN s ELSE [close_open_block(s) EXCEPT !.finished = TRUE]
=============================================================================
