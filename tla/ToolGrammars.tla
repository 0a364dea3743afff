----------------------------- MODULE ToolGrammars -----------------------------
(***************************************************************************)
(* v2/tools/grammar.py: the two scanners that find tool calls in the text  *)
(* a provider streams.  Text is a sequence of tokens: the fence marks, the *)
(* language tag that makes a fence a candidate, the two halves of the JSON *)
(* object of a call, and prose.  The object is complete, and names a tool, *)
(* when its halves stand next to each other with nothing else around them; *)
(* anything else is malformed.  The name stands under "name" or "function",*)
(* where every parser looks for it, or under "tool", where only a fence in *)
(* the stream is looked at.                                                *)
(***************************************************************************)
EXTENDS SinkEvents, Sequences, FiniteSetsExt

Opening == {"open", "open_tool"}
Tokens == {"prose", "fence", "json", "close"} \cup Opening
Text == Seq(Tokens)
CallObject == <<"open", "close">>
ToolObject == <<"open_tool", "close">>
Named == {CallObject, ToolObject}

Prefix(text, k) == SubSeq(text, 1, k)
Suffix(text, k) == SubSeq(text, k + 1, Len(text))

(***************************************************************************)
(* What a scanner yields: SinkEvents with the prose they carry.            *)
(***************************************************************************)
Yielded(event, text) == [event |-> event, text |-> text]

TextEvent(text) == Yielded(Delta("TextDelta", text = <<>>), text)

CallEvents(i) ==
    <<Yielded(ToolEvent("ToolCallStart", i), <<>>),
      Yielded(ToolEvent("ToolCallArgsDelta", i), <<>>),
      Yielded(ToolEvent("ToolCallEnd", i), <<>>)>>

\* Mutants of ParseContent: the name is not looked for; what is no call is
\* dropped.
ParseUnnamed(content, i) == IF content = <<>> THEN <<>> ELSE CallEvents(i)
ParseDropping(content, i) ==
    IF content \in Named THEN CallEvents(i) ELSE <<>>

\* A fence becomes a call, or is given back as text.
ParseContent(content, i) ==
    CASE content \in Named -> CallEvents(i)
      [] content = <<>> -> <<>>
      [] OTHER -> <<TextEvent(content)>>

(***************************************************************************)
(* A scanner: what it has not looked at (buffer), whether it is looking    *)
(* (scanning) or waits for more text, and whether it is inside a candidate.*)
(* DSMLGrammar also keeps the index of the next call and what a fence that *)
(* spans chunks held so far (accumulated) and whether it has a current     *)
(* tool; FreeTextGrammar the depth of the braces and where the outermost   *)
(* one stood.                                                              *)
(***************************************************************************)
NewScanner ==
    [buffer |-> <<>>, scanning |-> FALSE, in_fence |-> FALSE, index |-> 0,
     accumulated |-> <<>>, current_tool |-> FALSE, depth |-> 0, start |-> 0]

Heard(g, chunk) == [g EXCEPT !.buffer = @ \o chunk, !.scanning = chunk # <<>>]

\* The result of one turn of the loop in _scan_text.
Turn(g, out) == [scanner |-> g, out |-> out]

(***************************************************************************)
(* DSMLGrammar.                                                            *)
(***************************************************************************)
FenceStarts(text) ==
    {k \in 1 .. Len(text) - 1 : text[k] = "fence" /\ text[k + 1] = "json"}
FenceEnds(text) == {k \in 1 .. Len(text) : text[k] = "fence"}

\* Mutant of OutsideFence: prose that was sent stays in the buffer.
OutsideFenceKeeping(g) ==
    LET starts == FenceStarts(g.buffer)
        k == Min(starts)
    IN  IF starts = {}
        THEN Turn([g EXCEPT !.scanning = FALSE], <<TextEvent(g.buffer)>>)
        ELSE Turn([g EXCEPT !.buffer = Suffix(@, k + 1), !.in_fence = TRUE,
                            !.current_tool = TRUE, !.accumulated = <<>>,
                            !.scanning = k + 1 < Len(g.buffer)],
                  IF k = 1 THEN <<>> ELSE <<TextEvent(Prefix(g.buffer, k - 1))>>)

\* Outside a fence: all of it is prose, or the prose before the next fence.
OutsideFence(g) ==
    LET starts == FenceStarts(g.buffer)
        k == Min(starts)
    IN  IF starts = {}
        THEN Turn([g EXCEPT !.buffer = <<>>, !.scanning = FALSE],
                  <<TextEvent(g.buffer)>>)
        ELSE Turn([g EXCEPT !.buffer = Suffix(@, k + 1), !.in_fence = TRUE,
                            !.current_tool = TRUE, !.accumulated = <<>>,
                            !.scanning = k + 1 < Len(g.buffer)],
                  IF k = 1 THEN <<>> ELSE <<TextEvent(Prefix(g.buffer, k - 1))>>)

\* Mutant of InsideFence: calls are not counted.
InsideFenceUncounted(g) ==
    LET ends == FenceEnds(g.buffer)
        k == Min(ends)
    IN  IF ends = {}
        THEN Turn([g EXCEPT !.accumulated = @ \o g.buffer, !.buffer = <<>>,
                            !.scanning = FALSE],
                  <<>>)
        ELSE Turn([g EXCEPT !.buffer = Suffix(@, k), !.in_fence = FALSE,
                            !.current_tool = FALSE, !.accumulated = <<>>,
                            !.scanning = k < Len(g.buffer)],
                  ParseContent(Prefix(g.buffer, k - 1), g.index))

\* Inside: only what this chunk holds of the fence is parsed when it closes.
InsideFence(g) ==
    LET ends == FenceEnds(g.buffer)
        k == Min(ends)
    IN  IF ends = {}
        THEN Turn([g EXCEPT !.accumulated = @ \o g.buffer, !.buffer = <<>>,
                            !.scanning = FALSE],
                  <<>>)
        ELSE Turn([g EXCEPT !.buffer = Suffix(@, k), !.in_fence = FALSE,
                            !.index = @ + 1, !.current_tool = FALSE,
                            !.accumulated = <<>>, !.scanning = k < Len(g.buffer)],
                  ParseContent(Prefix(g.buffer, k - 1), g.index))

ScanDSML(g) == IF g.in_fence THEN InsideFence(g) ELSE OutsideFence(g)

\* _flush_tool_call gives back a fence that was never closed, and forgets
\* the current tool.
FlushDSML(g) ==
    Turn([g EXCEPT !.in_fence = FALSE, !.current_tool = FALSE,
                   !.accumulated = <<>>],
         IF g.in_fence /\ g.accumulated # <<>> THEN <<TextEvent(g.accumulated)>>
         ELSE <<>>)

\* The stop reason is chosen behind the flush.
StopReason(g) == IF g.current_tool THEN "TOOL_CALLS" ELSE "END_TURN"

(***************************************************************************)
(* FreeTextGrammar.  A chunk that ends inside braces stays in the buffer   *)
(* and is read again from its start, at the depth it ended with: it may    *)
(* close in front of where it was opened, on an empty text.                *)
(***************************************************************************)
TryParse(content) ==
    IF content = CallObject THEN CallEvents(0) ELSE <<TextEvent(content)>>

Depths(g) ==
    LET depth[k \in 0 .. Len(g.buffer)] ==
            IF k = 0 THEN g.depth
            ELSE CASE g.buffer[k] \in Opening -> depth[k - 1] + 1
                   [] g.buffer[k] = "close" /\ depth[k - 1] > 0 -> depth[k - 1] - 1
                   [] OTHER -> depth[k - 1]
    IN  depth

ScanFreeText(g) ==
    LET depth == Depths(g)
        size == Len(g.buffer)
        Opens(k) == depth[k - 1] = 0 /\ depth[k] = 1
        closing == {k \in 1 .. size : depth[k - 1] = 1 /\ depth[k] = 0}
        k == Min(closing)
        opened(limit) == {m \in 1 .. limit : Opens(m)}
        start(limit) == IF opened(limit) = {} THEN g.start ELSE Max(opened(limit))
    IN  CASE closing # {} ->
               Turn([g EXCEPT !.buffer = Suffix(@, k), !.depth = 0,
                              !.scanning = k < size],
                    TryParse(SubSeq(g.buffer, start(k), k)))
          [] closing = {} /\ depth[size] = 0 ->
               Turn([g EXCEPT !.buffer = <<>>, !.scanning = FALSE],
                    <<TextEvent(g.buffer)>>)
          [] OTHER ->
               Turn([g EXCEPT !.depth = depth[size], !.start = start(size),
                              !.scanning = FALSE],
                    <<>>)

(***************************************************************************)
(* DSMLGrammar.parse_final: how many calls the whole text holds.  It does  *)
(* not look for a name under "tool".                                       *)
(***************************************************************************)
\* How many fences of a text hold one of these objects.
CallsOf(text, objects) ==
    LET calls[n \in 0 .. Len(text)] ==   \* in the last n tokens
            LET rest == Suffix(text, Len(text) - n)
                starts == FenceStarts(rest)
                body == Suffix(rest, Min(starts) + 1)
                ends == FenceEnds(body)
            IN  IF starts = {} \/ ends = {} THEN 0
                ELSE (IF Prefix(body, Min(ends) - 1) \in objects THEN 1 ELSE 0)
                     + calls[Len(body) - Min(ends)]
    IN  calls[Len(text)]

CallsInFullText(text) == CallsOf(text, {CallObject})
=============================================================================
