----------------------------- MODULE TaggedText -----------------------------
(***************************************************************************)
(* What the gateway does to the text of an answer: StreamToolParser and    *)
(* parse_tools of functions.py, _hold_think_tags of app.py.                *)
(*                                                                         *)
(* A text is a sequence of marks.  A tag is two marks, "<" and the rest of *)
(* it, so that a chunk can end inside one and what is held back may turn   *)
(* out to be the start of any tag or of none.  Words stand for everything  *)
(* else; white space is left out.  Tool calls have the form the prompt     *)
(* teaches, a tag around one JSON object; a placeholder is an object that  *)
(* copies the example or names a tool that was not offered.                *)
(***************************************************************************)
EXTENDS Naturals, Sequences, FiniteSets, SequencesExt

Marks == {"word", "<", "think>", "/think>", "tool_call>", "/tool_call>",
          "{json}", "{placeholder}", "fence"}

Text == Seq(Marks)

Objects == {"{json}", "{placeholder}"}

\* The places where a tag stands in a text.
Tags(text, name) ==
    {i \in 1 .. Len(text) - 1 : text[i] = "<" /\ text[i + 1] = name}

Has(text, name) == Tags(text, name) # {}

\* The marks of a text at some of its places.
Select(text, places) ==
    LET chosen[i \in 0 .. Len(text)] ==
            IF i = 0 THEN <<>>
            ELSE chosen[i - 1] \o (IF i \in places THEN <<text[i]>> ELSE <<>>)
    IN  chosen[Len(text)]

\* The places of a text where no such tag stands.
Beside(text, tags) == {i \in 1 .. Len(text) : i \notin tags /\ i - 1 \notin tags}

\* Drops every tag of that name, and nothing of what it encloses.
Without(text, name) == Select(text, Beside(text, Tags(text, name)))

\* The first or the second of the pieces that text.split(tag) returns.
FirstPiece(text, name) ==
    IF Tags(text, name) = {} THEN text
    ELSE SubSeq(text, 1, Min(Tags(text, name)) - 1)

SecondPiece(text, name) ==
    LET tags == Tags(text, name)
    IN  IF tags = {} THEN <<>>
        ELSE FirstPiece(SubSeq(text, Min(tags) + 2, Len(text)), name)

(***************************************************************************)
(* re.sub("<open>.*?</close>"): a span runs from an opening tag to the     *)
(* first closing tag behind it.  Only the pattern of tool calls ends with  *)
(* "|$" and takes in a span that is never closed.                          *)
(***************************************************************************)
InSpan(text, opens, closes, unclosed, i) ==
    \E o \in opens :
       /\ o <= i
       /\ \A c \in closes : c > o => c + 1 >= i
       /\ unclosed \/ \E c \in closes : c > o

RemoveSpans(text, open, close, unclosed) ==
    LET opens  == Tags(text, open)
        closes == Tags(text, close)
    IN  Select(text, {i \in 1 .. Len(text) :
                          ~InSpan(text, opens, closes, unclosed, i)})

\* Mutant of Hold: the whole chunk is held back.
HoldAll(carry, chunk) ==
    LET text == carry \o chunk
    IN  IF text # <<>> /\ Last(text) = "<"
        THEN [passed |-> <<>>, carry |-> text]
        ELSE [passed |-> text, carry |-> <<>>]

\* Mutant of Hold: what was held back is forgotten.
HoldForgets(carry, chunk) ==
    IF chunk # <<>> /\ Last(chunk) = "<"
    THEN [passed |-> Front(chunk), carry |-> <<"<">>]
    ELSE [passed |-> chunk, carry |-> <<>>]

(***************************************************************************)
(* _hold_think_tags: the end of a chunk that may be the start of a think   *)
(* tag waits for the next chunk.                                           *)
(***************************************************************************)
Hold(carry, chunk) ==
    LET text == carry \o chunk
    IN  IF text # <<>> /\ Last(text) = "<"
        THEN [passed |-> Front(text), carry |-> <<"<">>]
        ELSE [passed |-> text, carry |-> <<>>]

(***************************************************************************)
(* StreamToolParser, mark by mark: outside a call it passes text on and    *)
(* holds back what may start one, inside it drops everything up to the     *)
(* closing tag.  The calls it finds are not used, parse_tools() finds them *)
(* again in the whole text.                                                *)
(***************************************************************************)
Parser == [in_tool : BOOLEAN, held : BOOLEAN]
NewParser == [in_tool |-> FALSE, held |-> FALSE]

\* Mutant of ReadMark: what was held back is dropped when it was text.
ReadMarkDropsHeld(run, mark) ==
    LET p == run.parser
        next(in_tool) == [in_tool |-> in_tool, held |-> mark = "<"]
    IN  CASE p.in_tool ->
               [run EXCEPT !.parser = next(~(p.held /\ mark = "/tool_call>"))]
          [] ~p.in_tool /\ p.held /\ mark = "tool_call>" ->
               [run EXCEPT !.parser = next(TRUE)]
          [] OTHER ->
               [parser |-> next(FALSE),
                text   |-> run.text \o (IF mark = "<" THEN <<>> ELSE <<mark>>)]

ReadMark(run, mark) ==
    LET p == run.parser
        pending == IF p.held /\ ~p.in_tool THEN <<"<">> ELSE <<>>
        next(in_tool) == [in_tool |-> in_tool, held |-> mark = "<"]
    IN  CASE p.in_tool ->
               [run EXCEPT !.parser = next(~(p.held /\ mark = "/tool_call>"))]
          [] ~p.in_tool /\ p.held /\ mark = "tool_call>" ->
               [run EXCEPT !.parser = next(TRUE)]
          [] OTHER ->
               [parser |-> next(FALSE),
                text   |-> run.text \o pending
                                    \o (IF mark = "<" THEN <<>> ELSE <<mark>>)]

feed(parser, chunk) ==
    LET run[k \in 0 .. Len(chunk)] ==
            IF k = 0 THEN [parser |-> parser, text |-> <<>>]
            ELSE ReadMark(run[k - 1], chunk[k])
    IN  run[Len(chunk)]

\* What flush() still hands out; an unfinished call is discarded.
flush(parser) == IF parser.held /\ ~parser.in_tool THEN <<"<">> ELSE <<>>

(***************************************************************************)
(* parse_tools on a whole answer.  Markup inside a code fence is no call;  *)
(* the object of a call is the first one anywhere behind its tag.          *)
(***************************************************************************)
Fenced(text, i) == Cardinality({j \in 1 .. i - 1 : text[j] = "fence"}) % 2 = 1

CallTags(text) == {i \in Tags(text, "tool_call>") : ~Fenced(text, i)}

\* The object at the place a call's tag leads to, 0 where there is none.
ObjectOf(text, i) ==
    LET behind == {j \in i + 1 .. Len(text) : text[j] \in Objects}
    IN  IF behind = {} THEN 0 ELSE Min(behind)

\* parse_tools() and _filter_placeholder_tool_calls(): how many calls an
\* answer makes.
Calls(text) ==
    Cardinality({i \in CallTags(text) :
                    LET j == ObjectOf(text, i) IN j # 0 /\ text[j] = "{json}"})

WithoutCallTags(text) ==
    Select(text, Beside(text, Tags(text, "tool_call>") \cup Tags(text, "/tool_call>")))

\* The spans go as soon as one tag outside a fence was looked at, whether it
\* made a call or not, fenced ones too; bare tags always go.
companion_text(text) ==
    WithoutCallTags(
        IF CallTags(text) = {} THEN text
        ELSE RemoveSpans(text, "tool_call>", "/tool_call>", TRUE))

\* Mutant of clean_text: the thinking stays in.
clean_textKeepsThinking(text) == companion_text(text)

\* What the encoders keep as the answer's text.
clean_text(text) ==
    WithoutCallTags(
        RemoveSpans(companion_text(text), "think>", "/think>", FALSE))
=============================================================================
