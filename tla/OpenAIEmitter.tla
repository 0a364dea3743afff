---------------------------- MODULE OpenAIEmitter ----------------------------
(***************************************************************************)
(* v2/streaming/emitter_openai.py, an emitter with the reader of its       *)
(* chunks as in AnthropicEmitter.  Which block is open decides nothing the *)
(* reader can see; it is kept because the code keeps it.                   *)
(***************************************************************************)
EXTENDS SSEValidators

ContentStreams == {"none", "text", "reasoning", "tool_call"}

OpenAIStream ==
    [role_emitted : BOOLEAN, open_block : ContentStreams, finished : BOOLEAN,
     client : OpenAIReader]

NewOpenAIStream ==
    [role_emitted |-> FALSE, open_block |-> "none", finished |-> FALSE,
     client |-> NewOpenAIReader]

emit_role(s) ==
    IF s.role_emitted THEN s
    ELSE [s EXCEPT !.role_emitted = TRUE, !.client = role_chunk(@)]

emit_content(s, block, blank) ==
    [s EXCEPT !.open_block = block,
              !.client = IF blank THEN @ ELSE delta_chunk(@)]

emit_call_start(s, i) ==
    [s EXCEPT !.open_block = "tool_call", !.client = tool_call_chunk(@, i)]

emit_call_args(s, i) ==
    [s EXCEPT !.open_block = "tool_call", !.client = arguments_chunk(@, i)]

\* Mutant of emit_finish: the sentinel is forgotten.
emit_finish_only(s) ==
    [s EXCEPT !.open_block = "none", !.finished = TRUE, !.client = finish_chunk(@)]

emit_finish(s) ==
    [s EXCEPT !.open_block = "none", !.finished = TRUE,
              !.client = done_chunk(finish_chunk(@))]

emit_error_object(s) ==
    [s EXCEPT !.open_block = "none", !.finished = TRUE, !.client = error_chunk(@)]

EmitOpenAI(s, event) ==
    IF s.finished THEN s
    ELSE CASE event.kind = "SinkError" -> emit_error_object(s)
           [] event.kind = "MessageStart" -> emit_role(s)
           [] event.kind = "ThinkingDelta" ->
                 emit_content(s, "reasoning", event.blank)
           [] event.kind = "TextDelta" ->
                 emit_content(s, "text", event.blank)
           [] event.kind = "ToolCallStart" ->
                 emit_call_start(s, event.index)
           [] event.kind = "ToolCallArgsDelta" ->
                 emit_call_args(s, event.index)
           [] event.kind = "ToolCallEnd" -> s
           [] event.kind = "MessageEnd" -> emit_finish(s)

CloseOpenAI(s) ==
    IF s.finished THEN s ELSE [s EXCEPT !.open_block = "none", !.finished = TRUE]
=============================================================================
