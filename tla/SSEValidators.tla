---------------------------- MODULE SSEValidators ----------------------------
(***************************************************************************)
(* v2/streaming/validate.py: what a strict reader has made of the frames   *)
(* it was sent so far, and the errors it has found.  Its header promises   *)
(* more than its code looks at; what it promises is checked here too (the  *)
(* errors marked +).                                                       *)
(***************************************************************************)
EXTENDS SinkEvents

Unless(ok, error) == IF ok THEN {} ELSE {error}

(***************************************************************************)
(* AnthropicValidator.                                                     *)
(***************************************************************************)
AnthropicErrors ==
    {"start twice", "block in block", "index", "delta outside",
     "delta elsewhere",            \* + the delta names another block
     "stop outside", "stop index", "stop without start",
     "after stop"}                 \* + a frame after message_stop

AnthropicReader ==
    [open : Nat \cup {NoIndex}, count : Nat, started : BOOLEAN,
     stopped : BOOLEAN, errors : SUBSET AnthropicErrors]

NewAnthropicReader ==
    [open |-> NoIndex, count |-> 0, started |-> FALSE, stopped |-> FALSE,
     errors |-> {}]

Late(r) == Unless(~r.stopped, "after stop")

message_start(r) ==
    [r EXCEPT !.started = TRUE, !.count = 0, !.open = NoIndex,
              !.errors = @ \cup Late(r) \cup Unless(~r.started, "start twice")]

content_block_start(r, i) ==
    [r EXCEPT !.open = i, !.count = @ + 1,
              !.errors = @ \cup Late(r)
                           \cup Unless(r.open = NoIndex, "block in block")
                           \cup Unless(i = r.count, "index")]

content_block_delta(r, i) ==
    [r EXCEPT !.errors = @ \cup Late(r)
                           \cup Unless(r.open # NoIndex, "delta outside")
                           \cup Unless(r.open = i, "delta elsewhere")]

content_block_stop(r, i) ==
    [r EXCEPT !.open = NoIndex,
              !.errors = @ \cup Late(r)
                           \cup Unless(r.open # NoIndex, "stop outside")
                           \cup Unless(r.open = i, "stop index")]

\* message_delta with the stop reason, and message_stop right behind it.
message_stop(r) ==
    [r EXCEPT !.stopped = TRUE,
              !.errors = @ \cup Late(r) \cup Unless(r.started, "stop without start")]

error_frame(r) == [r EXCEPT !.errors = @ \cup Late(r)]

\* What validate() adds when the stream is over.
AnthropicVerdict(r) ==
    r.errors \cup Unless(r.open = NoIndex, "unclosed block")
             \cup Unless(r.started => r.stopped, "no message_stop")

(***************************************************************************)
(* OpenAIValidator.                                                        *)
(***************************************************************************)
OpenAIErrors ==
    {"role twice", "finish twice", "done twice", "empty choices",
     "role late",                  \* + a delta comes before the role
     "after finish",               \* + a delta comes after finish_reason
     "call index"}                 \* + a call's index does not increase

OpenAIReader ==
    [role : BOOLEAN, finish : BOOLEAN, done : BOOLEAN,
     calls : SUBSET ToolIndices, errors : SUBSET OpenAIErrors]

NewOpenAIReader ==
    [role |-> FALSE, finish |-> FALSE, done |-> FALSE, calls |-> {}, errors |-> {}]

role_chunk(r) ==
    [r EXCEPT !.role = TRUE,
              !.errors = @ \cup Unless(~r.role, "role twice")
                           \cup Unless(~r.finish, "after finish")]

delta_chunk(r) ==
    [r EXCEPT !.errors = @ \cup Unless(r.role, "role late")
                           \cup Unless(~r.finish, "after finish")]

tool_call_chunk(r, i) ==
    [delta_chunk(r) EXCEPT
        !.calls = @ \cup {i},
        !.errors = @ \cup Unless(\A j \in r.calls : j < i, "call index")]

\* Arguments carry the index of a call already announced, or announce one.
arguments_chunk(r, i) == [delta_chunk(r) EXCEPT !.calls = @ \cup {i}]

finish_chunk(r) ==
    [r EXCEPT !.finish = TRUE,
              !.errors = @ \cup Unless(~r.finish, "finish twice")]

done_chunk(r) ==
    [r EXCEPT !.done = TRUE, !.errors = @ \cup Unless(~r.done, "done twice")]

\* An error object has no choices.
error_chunk(r) == [r EXCEPT !.errors = @ \cup {"empty choices"}]

OpenAIVerdict(r) ==
    r.errors \cup Unless(r.done, "no [DONE]")
             \cup Unless(r.role => r.finish, "no finish_reason")
=============================================================================
