---------------------------- MODULE StreamProofs ----------------------------
(***************************************************************************)
(* What holds of the gateway's two stream encoders for every text a model  *)
(* may send and wherever it is cut: the frames an Anthropic client reads   *)
(* are in order, and a stream that broke off never looks complete          *)
(* (StreamsInv); of an orderly answer the thinking and the text are handed *)
(* out apart and in order (ApartInv); and the whole text, from which the   *)
(* calls and the binding are made, is the thoughts between their tags with *)
(* the answer behind them (WrittenInv).                                    *)
(***************************************************************************)
EXTENDS GatewayStreams, SequenceLemmas, FiniteSetTheorems

-----------------------------------------------------------------------------
(***************************************************************************)
(* What the operators of TaggedText return.  Its recursive definitions are *)
(* handled as the functions they are evaluated by.                         *)
(***************************************************************************)

\* Texts of one mark or none.
LEMMA ShortTexts ==
    /\ <<>> \in Text
    /\ \A mark \in Marks : <<mark>> \in Text
    /\ <<"<">> \in Text /\ "<" \in Marks
<1>1. "<" \in Marks
  BY DEF Marks
<1>2. <<>> \in Text /\ \A mark \in Marks : <<mark>> \in Text
  BY DEF Text
<1> QED
  BY <1>1, <1>2

\* Texts joined.
LEMMA Joined ==
    ASSUME NEW t \in Text, NEW w \in Text
    PROVE  /\ t \o w \in Text /\ <<>> \in Text
           /\ t \o <<>> = t /\ <<>> \o t = t
           /\ Len(t) \in Nat /\ Len(w) \in Nat /\ Len(t \o w) = Len(t) + Len(w)
           /\ \A i \in 1 .. Len(t) : (t \o w)[i] = t[i]
           /\ \A i \in 1 .. Len(w) : (t \o w)[Len(t) + i] = w[i]
<1>1. /\ t \o w \in Text /\ Len(t) \in Nat /\ Len(w) \in Nat
      /\ Len(t \o w) = Len(t) + Len(w)
      /\ \A i \in 1 .. Len(t) + Len(w) :
            (t \o w)[i] = IF i <= Len(t) THEN t[i] ELSE w[i - Len(t)]
  BY ConcatProperties DEF Text
<1>2. \A i \in 1 .. Len(t) : i \in 1 .. Len(t) + Len(w) /\ i <= Len(t)
  BY <1>1
<1>3. \A i \in 1 .. Len(w) : /\ Len(t) + i \in 1 .. Len(t) + Len(w)
                             /\ ~(Len(t) + i <= Len(t)) /\ (Len(t) + i) - Len(t) = i
  BY <1>1
<1>4. t \o <<>> = t /\ <<>> \o t = t /\ <<>> \in Text
  BY ConcatEmptySeq DEF Text
<1> QED
  BY <1>1, <1>2, <1>3, <1>4

\* The marks of a text.
LEMMA MarksOf ==
    ASSUME NEW t \in Text
    PROVE  /\ Len(t) \in Nat /\ \A i \in 1 .. Len(t) : t[i] \in Marks
           /\ t = <<>> <=> Len(t) = 0
           /\ \A w \in Text : Len(w) = Len(t) /\ (\A i \in 1 .. Len(t) : w[i] = t[i]) => w = t
<1>1. /\ Len(t) \in Nat /\ \A i \in 1 .. Len(t) : t[i] \in Marks
      /\ t = <<>> <=> Len(t) = 0
  BY DEF Text
<1>2. ASSUME NEW w \in Text, Len(w) = Len(t), \A i \in 1 .. Len(t) : w[i] = t[i]
      PROVE  w = t
  BY <1>2, SeqEqual DEF Text
<1> QED
  BY <1>1, <1>2

\* What a place adds to the marks chosen before it.
Taken(text, places, i) == IF i \in places THEN <<text[i]>> ELSE <<>>

LEMMA TakenIsText ==
    ASSUME NEW text \in Text, NEW places
    PROVE  Len(text) \in Nat /\ \A i \in 1 .. Len(text) : Taken(text, places, i) \in Text
BY MarksOf, ShortTexts DEF Taken

Picks(g, text, places) ==
    /\ g \in [0 .. Len(text) -> Text]
    /\ g[0] = <<>>
    /\ \A i \in 1 .. Len(text) : g[i] = g[i - 1] \o Taken(text, places, i)

\* Select() is evaluated by a function that picks the marks, place by place.
LEMMA SelectPicks ==
    ASSUME NEW text \in Text, NEW places
    PROVE  \E g : Picks(g, text, places) /\ Select(text, places) = g[Len(text)]
<1> DEFINE n == Len(text)
           part(i) == Taken(text, places, i)
           step == [i \in 1 .. n |-> [t \in Text |-> t \o part(i)]]
           Chosen(f) == f = [i \in 0 .. n |-> IF i = 0 THEN <<>> ELSE f[i - 1] \o part(i)]
<1>1. n \in Nat /\ <<>> \in Text /\ \A i \in 1 .. n : part(i) \in Text
  BY TakenIsText, ShortTexts
<1> HIDE DEF n, part
<1>2. step \in [1 .. n -> [Text -> Text]]
  <2>1. \A i \in 1 .. n, t \in Text : t \o part(i) \in Text
    BY <1>1 DEF Text
  <2> QED
    BY <2>1
<1>3. \A i \in 1 .. n, t \in Text : step[i][t] = t \o part(i)
  OBVIOUS
<1> HIDE DEF step
<1>4. PICK f \in [0 .. n -> Text] :
         f[0] = <<>> /\ \A i \in 1 .. n : f[i] = step[i][f[i - 1]]
  <2>1. n \in Nat
    BY <1>1
  <2>2. <<>> \in Text
    BY <1>1
  <2>3. RecursionSolved(Text, n, <<>>, step)
    BY <2>1, <2>2, <1>2, RecursionExists
  <2> QED
    BY <2>3 DEF RecursionSolved
<1>5. Chosen(f)
  <2>1. ASSUME NEW i \in 0 .. n
        PROVE  f[i] = IF i = 0 THEN <<>> ELSE f[i - 1] \o part(i)
    <3>1. CASE i = 0
      BY <1>4, <3>1
    <3>2. CASE i # 0
      <4>1. i \in 1 .. n /\ i - 1 \in 0 .. n
        BY <1>1, <3>2
      <4>2. f[i - 1] \in Text
        BY <4>1
      <4> QED
        BY <1>3, <1>4, <3>2, <4>1, <4>2
    <3> QED
      BY <3>1, <3>2
  <2>2. f = [i \in 0 .. n |-> f[i]]
    OBVIOUS
  <2> QED
    BY <2>1, <2>2
<1> DEFINE g == CHOOSE f1 : Chosen(f1)
<1>6. Chosen(g)
  BY <1>5
<1>7. Select(text, places) = g[n]
  BY DEF Select, n, part, Taken
<1>8. \A i \in 0 .. n : g[i] \in Text
  <2> DEFINE P == {i \in 0 .. n : g[i] \in Text}
  <2> HIDE DEF g
  <2>1. 0 \in P
    BY <1>1, <1>6
  <2>2. ASSUME NEW i \in 1 .. n, i - 1 \in P
        PROVE  i \in P
    <3>1. i \in 0 .. n /\ i # 0
      BY <1>1
    <3>2. g[i] = g[i - 1] \o part(i)
      BY <1>6, <3>1
    <3>3. g[i - 1] \in Text /\ part(i) \in Text
      BY <1>1, <2>2
    <3>4. g[i - 1] \o part(i) \in Text
      BY <3>3 DEF Text
    <3> QED
      BY <3>1, <3>2, <3>4
  <2>3. P \in SUBSET (0 .. n)
    OBVIOUS
  <2> HIDE DEF P
  <2>4. P = 0 .. n
    BY <1>1, <2>1, <2>2, <2>3, UpTo
  <2> QED
    BY <2>4 DEF P
<1> HIDE DEF g
<1>9. g \in [0 .. n -> Text] /\ g[0] = <<>>
  BY <1>1, <1>6, <1>8
<1>10. \A i \in 1 .. n : g[i] = g[i - 1] \o part(i)
  <2>1. \A i \in 1 .. n : i \in 0 .. n /\ i # 0
    BY <1>1
  <2> QED
    BY <1>6, <2>1
<1>11. Picks(g, text, places)
  BY <1>9, <1>10 DEF Picks, n, part
<1> QED
  BY <1>7, <1>11 DEF n

\* Marks of a text, whichever places are chosen, are a text.
LEMMA SelectIsText ==
    ASSUME NEW text \in Text, NEW places
    PROVE  Select(text, places) \in Text
<1>1. PICK g : Picks(g, text, places) /\ Select(text, places) = g[Len(text)]
  BY SelectPicks
<1>2. Len(text) \in Nat
  BY MarksOf
<1> QED
  BY <1>1, <1>2 DEF Picks

\* The places of tags.
LEMMA TagPlaces ==
    ASSUME NEW text \in Text, NEW name
    PROVE  /\ Tags(text, name) \in SUBSET Nat
           /\ Len(text) \in Nat
           /\ \A i \in Tags(text, name) : i \in 1 .. Len(text) /\ i + 1 \in 1 .. Len(text)
BY DEF Tags, Text

\* The pieces of a split text.
LEMMA PiecesAreText ==
    ASSUME NEW text \in Text, NEW name
    PROVE  FirstPiece(text, name) \in Text /\ SecondPiece(text, name) \in Text
<1>1. ASSUME NEW t \in Text
      PROVE  FirstPiece(t, name) \in Text
  <2>1. CASE Tags(t, name) = {}
    BY <2>1 DEF FirstPiece
  <2>2. CASE Tags(t, name) # {}
    <3>1. PICK m \in Tags(t, name) : m = Min(Tags(t, name))
      BY <2>2, TagPlaces, LeastMember
    <3>2. m \in 1 .. Len(t) /\ Len(t) \in Nat
      BY TagPlaces
    <3>3. SubSeq(t, 1, m - 1) \in Text
      BY <3>2, SubSeqProperties DEF Text
    <3> QED
      BY <2>2, <3>1, <3>3 DEF FirstPiece
  <2> QED
    BY <2>1, <2>2
<1>2. CASE Tags(text, name) = {}
  <2>1. <<>> \in Text
    BY DEF Text
  <2> QED
    BY <1>1, <1>2, <2>1 DEF SecondPiece
<1>3. CASE Tags(text, name) # {}
  <2>1. PICK m \in Tags(text, name) : m = Min(Tags(text, name))
    BY <1>3, TagPlaces, LeastMember
  <2>2. m \in 1 .. Len(text) /\ Len(text) \in Nat
    BY TagPlaces
  <2>3. SubSeq(text, m + 2, Len(text)) \in Text
    BY <2>2, SubSeqProperties DEF Text
  <2>4. SecondPiece(text, name) = FirstPiece(SubSeq(text, m + 2, Len(text)), name)
    BY <1>3, <2>1 DEF SecondPiece
  <2> QED
    BY <1>1, <2>3, <2>4
<1> QED
  BY <1>2, <1>3

\* What a think tag's hold-back passes on and what it keeps are the text it was
\* given, in order: nothing is lost and nothing is added.
LEMMA NothingIsLostInHold ==
    ASSUME NEW held \in {<<>>, <<"<">>}, NEW chunk \in Text
    PROVE  /\ Hold(held, chunk).passed \in Text
           /\ Hold(held, chunk).carry \in {<<>>, <<"<">>}
           /\ Hold(held, chunk).passed \o Hold(held, chunk).carry = held \o chunk
           /\ held \o chunk \in Text
<1> DEFINE text == held \o chunk
<1>1. held \in Text /\ <<"<">> \in Text /\ <<>> \in Text
  BY ShortTexts
<1>2. text \in Text
  BY <1>1 DEF Text
<1>3. text \o <<>> = text
  BY <1>2, ConcatEmptySeq DEF Text
<1> HIDE DEF text
<1>4. CASE text # <<>> /\ Last(text) = "<"
  <2>1. Len(text) \in Nat /\ Len(text) >= 1 /\ Last(text) = text[Len(text)]
    BY <1>2, <1>4 DEF Text, Last
  <2>2. Front(text) = SubSeq(text, 1, Len(text) - 1)
    BY DEF Front
  <2>3. Front(text) \in Text /\ Len(Front(text)) = Len(text) - 1
    <3>1. \A i \in 1 .. Len(text) - 1 : text[i] \in Marks
      BY <1>2, <2>1 DEF Text
    <3>2. SubSeq(text, 1, Len(text) - 1) \in Seq(Marks)
      BY <2>1, <3>1, SubSeqProperties
    <3>3. Len(SubSeq(text, 1, Len(text) - 1)) = Len(text) - 1
      BY <2>1
    <3> QED
      BY <2>2, <3>2, <3>3 DEF Text
  <2>4. SubSeq(text, 1, Len(text)) = SubSeq(text, 1, Len(text) - 1) \o <<text[Len(text)]>>
    <3>1. text \in Seq(Marks) /\ 1 \in 1 .. Len(text) /\ Len(text) \in 1 .. Len(text)
      BY <1>2, <2>1 DEF Text
    <3> QED
      BY <3>1, SubSeqRecursiveSecond
  <2>5. SubSeq(text, 1, Len(text)) = text
    BY <1>2, SubSeqFull DEF Text
  <2>6. Front(text) \o <<"<">> = text
    BY <1>4, <2>1, <2>2, <2>4, <2>5
  <2>7. Hold(held, chunk) = [passed |-> Front(text), carry |-> <<"<">>]
    BY <1>4 DEF Hold, text
  <2> QED
    BY <1>2, <2>3, <2>6, <2>7 DEF text
<1>5. CASE ~(text # <<>> /\ Last(text) = "<")
  <2>1. Hold(held, chunk) = [passed |-> text, carry |-> <<>>]
    BY <1>5 DEF Hold, text
  <2> QED
    BY <1>2, <1>3, <2>1 DEF text
<1> QED
  BY <1>4, <1>5

\* One mark leaves the parser in one of its states and adds marks to the text.
LEMMA ReadMarkTyped ==
    ASSUME NEW run \in [parser : Parser, text : Text], NEW mark \in Marks
    PROVE  ReadMark(run, mark) \in [parser : Parser, text : Text]
<1> DEFINE pending == IF run.parser.held /\ ~run.parser.in_tool THEN <<"<">> ELSE <<>>
           tail == IF mark = "<" THEN <<>> ELSE <<mark>>
           after(in_tool) == [in_tool |-> in_tool, held |-> mark = "<"]
<1>1. pending \in Text /\ tail \in Text /\ run.text \in Text
  BY ShortTexts
<1>2. \A b \in BOOLEAN : after(b) \in Parser
  BY DEF Parser
<1>3. run.text \o pending \o tail \in Text
  <2> HIDE DEF pending, tail
  <2>1. run.text \o pending \in Text
    BY <1>1 DEF Text
  <2> QED
    BY <1>1, <2>1 DEF Text
<1>4. \A p \in Parser : [run EXCEPT !.parser = p] \in [parser : Parser, text : Text]
  OBVIOUS
<1>5. PICK ends \in BOOLEAN : ends = ~(run.parser.held /\ mark = "/tool_call>")
  OBVIOUS
<1> DEFINE inside == run.parser.in_tool
           begins == ~run.parser.in_tool /\ run.parser.held /\ mark = "tool_call>"
<1>6. CASE inside
  <2>1. ReadMark(run, mark) = [run EXCEPT !.parser = after(ends)]
    BY <1>5, <1>6 DEF ReadMark
  <2> HIDE DEF after
  <2> QED
    BY <1>2, <1>4, <2>1
<1>7. CASE begins
  <2>1. ReadMark(run, mark) = [run EXCEPT !.parser = after(TRUE)]
    BY <1>7 DEF ReadMark
  <2> HIDE DEF after
  <2> QED
    BY <1>2, <1>4, <2>1
<1>8. CASE ~inside /\ ~begins
  <2>1. ReadMark(run, mark) = [parser |-> after(FALSE), text |-> run.text \o pending \o tail]
    BY <1>8 DEF ReadMark
  <2>2. PICK p \in Parser : p = after(FALSE)
    BY <1>2
  <2>3. PICK words \in Text : words = run.text \o pending \o tail
    BY <1>3
  <2>4. ReadMark(run, mark) = [parser |-> p, text |-> words]
    BY <2>1, <2>2, <2>3
  <2> QED
    BY <2>4
<1> QED
  BY <1>6, <1>7, <1>8

-----------------------------------------------------------------------------
(***************************************************************************)
(* The parser.                                                             *)
(***************************************************************************)
Runs == [parser : Parser, text : Text]

NewRun(parser) == [parser |-> parser, text |-> <<>>]

Reads(g, parser, chunk) ==
    /\ g \in [0 .. Len(chunk) -> Runs]
    /\ g[0] = NewRun(parser)
    /\ \A k \in 1 .. Len(chunk) : g[k] = ReadMark(g[k - 1], chunk[k])

LEMMA NewRunIsRun ==
    ASSUME NEW parser \in Parser
    PROVE  NewRun(parser) \in Runs
BY ShortTexts DEF NewRun, Runs

\* feed() is evaluated by a function that reads the chunk, mark by mark.
LEMMA FeedReads ==
    ASSUME NEW parser \in Parser, NEW chunk \in Text
    PROVE  \E g : Reads(g, parser, chunk) /\ feed(parser, chunk) = g[Len(chunk)]
<1> DEFINE n == Len(chunk)
           base == NewRun(parser)
           step == [k \in 1 .. n |-> [r \in Runs |-> ReadMark(r, chunk[k])]]
           Read(f) == f = [k \in 0 .. n |-> IF k = 0 THEN base ELSE ReadMark(f[k - 1], chunk[k])]
<1>1. n \in Nat /\ \A k \in 1 .. n : chunk[k] \in Marks
  BY MarksOf
<1>2. base \in Runs
  BY NewRunIsRun
<1> HIDE DEF n, base
<1>3. \A k \in 1 .. n, r \in Runs : ReadMark(r, chunk[k]) \in Runs
  BY <1>1, ReadMarkTyped DEF Runs
<1>4. step \in [1 .. n -> [Runs -> Runs]]
  BY <1>3
<1>5. \A k \in 1 .. n, r \in Runs : step[k][r] = ReadMark(r, chunk[k])
  OBVIOUS
<1> HIDE DEF step
<1>6. PICK f \in [0 .. n -> Runs] : f[0] = base /\ \A k \in 1 .. n : f[k] = step[k][f[k - 1]]
  <2>1. RecursionSolved(Runs, n, base, step)
    <3>1. n \in Nat
      BY <1>1
    <3> QED
      BY <3>1, <1>2, <1>4, RecursionExists
  <2> QED
    BY <2>1 DEF RecursionSolved
<1>7. Read(f)
  <2>1. ASSUME NEW k \in 0 .. n
        PROVE  f[k] = IF k = 0 THEN base ELSE ReadMark(f[k - 1], chunk[k])
    <3>1. CASE k = 0
      BY <1>6, <3>1
    <3>2. CASE k # 0
      <4>1. k \in 1 .. n /\ k - 1 \in 0 .. n
        BY <1>1, <3>2
      <4>2. f[k - 1] \in Runs
        BY <4>1
      <4> QED
        BY <1>5, <1>6, <3>2, <4>1, <4>2
    <3> QED
      BY <3>1, <3>2
  <2>2. f = [k \in 0 .. n |-> f[k]]
    OBVIOUS
  <2> QED
    BY <2>1, <2>2
<1> DEFINE g == CHOOSE f1 : Read(f1)
<1>8. Read(g)
  BY <1>7
<1>9. feed(parser, chunk) = g[n]
  BY DEF feed, n, base, NewRun
<1> DEFINE P == {k \in 0 .. n : g[k] \in Runs}
<1> HIDE DEF g
<1>10. 0 \in P
  BY <1>1, <1>2, <1>8
<1>11. ASSUME NEW k \in 1 .. n, k - 1 \in P
       PROVE  k \in P
  <2>1. k \in 0 .. n /\ k # 0
    BY <1>1
  <2>2. g[k] = ReadMark(g[k - 1], chunk[k])
    BY <1>8, <2>1
  <2>3. ReadMark(g[k - 1], chunk[k]) \in Runs
    BY <1>3, <1>11
  <2> QED
    BY <2>1, <2>2, <2>3
<1>12. P \in SUBSET (0 .. n)
  OBVIOUS
<1> HIDE DEF P
<1>13. P = 0 .. n
  BY <1>1, <1>10, <1>11, <1>12, UpTo
<1>14. \A k \in 0 .. n : g[k] \in Runs
  BY <1>13 DEF P
<1>15. g \in [0 .. n -> Runs] /\ g[0] = base
  BY <1>1, <1>8, <1>14
<1>16. \A k \in 1 .. n : g[k] = ReadMark(g[k - 1], chunk[k])
  <2>1. \A k \in 1 .. n : k \in 0 .. n /\ k # 0
    BY <1>1
  <2> QED
    BY <1>8, <2>1
<1>17. Reads(g, parser, chunk)
  BY <1>15, <1>16 DEF Reads, n, base
<1> QED
  BY <1>9, <1>17 DEF n

\* What the parser makes of a chunk, from whatever state it is in.
LEMMA FeedTyped ==
    ASSUME NEW parser \in Parser, NEW chunk \in Text
    PROVE  feed(parser, chunk).parser \in Parser /\ feed(parser, chunk).text \in Text
<1>1. PICK g : Reads(g, parser, chunk) /\ feed(parser, chunk) = g[Len(chunk)]
  BY FeedReads
<1>2. Len(chunk) \in Nat
  BY MarksOf
<1>3. feed(parser, chunk) \in Runs
  BY <1>1, <1>2 DEF Reads
<1> QED
  BY <1>3 DEF Runs

\* How many calls a text makes is a number.
LEMMA CallsAreCounted ==
    ASSUME NEW text \in Text
    PROVE  Calls(text) \in Nat
<1> DEFINE C == {i \in CallTags(text) : LET j == ObjectOf(text, i)
                                        IN  j # 0 /\ text[j] = "{json}"}
<1>1. C \subseteq 1 .. Len(text)
  BY TagPlaces DEF CallTags
<1>2. IsFiniteSet(1 .. Len(text))
  BY TagPlaces, FS_Interval
<1>3. IsFiniteSet(C)
  <2> HIDE DEF C
  <2> QED
    BY <1>1, <1>2, FS_Subset
<1>4. Cardinality(C) \in Nat
  <2> HIDE DEF C
  <2> QED
    BY <1>3, FS_CardinalityType
<1> QED
  BY <1>4 DEF Calls

\* The clean text of an answer is text.
LEMMA CleanTextIsText ==
    ASSUME NEW text \in Text
    PROVE  clean_text(text) \in Text
<1>1. ASSUME NEW t \in Text
      PROVE  WithoutCallTags(t) \in Text
  BY SelectIsText DEF WithoutCallTags
<1>2. ASSUME NEW t \in Text, NEW open, NEW close, NEW unclosed
      PROVE  RemoveSpans(t, open, close, unclosed) \in Text
  BY SelectIsText DEF RemoveSpans
<1>3. companion_text(text) \in Text
  BY <1>1, <1>2 DEF companion_text
<1> QED
  BY <1>1, <1>2, <1>3 DEF clean_text

\* What is left of a text without one kind of tag, and what a flush hands out.
LEMMA RestsAreText ==
    /\ \A text \in Text : \A name : Without(text, name) \in Text
    /\ \A parser \in Parser : flush(parser) \in Text
<1>1. \A text \in Text : \A name : Without(text, name) \in Text
  BY SelectIsText DEF Without
<1>2. \A parser \in Parser : flush(parser) \in Text
  BY ShortTexts DEF flush
<1> QED
  BY <1>1, <1>2

-----------------------------------------------------------------------------
(***************************************************************************)
(* What a strict reader has made of an Anthropic stream that is in order:  *)
(* as many blocks as the encoder counted are behind it, and the next one   *)
(* is open when the encoder says so.                                       *)
(***************************************************************************)
Reading(i, open) ==
    [open |-> IF open THEN i ELSE Frames!NoIndex,
     count |-> IF open THEN i + 1 ELSE i,
     started |-> TRUE, stopped |-> FALSE, errors |-> {}]

\* Blocks that are opened, filled and closed in turn leave no error behind.
LEMMA ReaderSteps ==
    ASSUME NEW i \in Nat
    PROVE  /\ Frames!content_block_start(Reading(i, FALSE), i) = Reading(i, TRUE)
           /\ Frames!content_block_delta(Reading(i, TRUE), i) = Reading(i, TRUE)
           /\ Frames!content_block_stop(Reading(i, TRUE), i) = Reading(i + 1, FALSE)
           /\ \A b \in BOOLEAN : Frames!error_frame(Reading(i, b)) = Reading(i, b)
<1>1. Frames!NoIndex # i
  BY DEF Frames!NoIndex
<1>2. Frames!content_block_start(Reading(i, FALSE), i) = Reading(i, TRUE)
  <2>0. PICK n \in Nat : n = i + 1
    OBVIOUS
  <2> DEFINE r == Reading(i, FALSE)
  <2>1. /\ r.open = Frames!NoIndex /\ r.count = i /\ r.errors = {} /\ ~r.stopped
        /\ r = [open |-> Frames!NoIndex, count |-> i, started |-> TRUE,
                stopped |-> FALSE, errors |-> {}]
    BY <2>0 DEF Reading
  <2> HIDE DEF r
  <2>2. r.errors \cup Frames!Late(r) \cup Frames!Unless(r.open = Frames!NoIndex, "block in block")
            \cup Frames!Unless(i = r.count, "index") = {}
    BY <2>1 DEF Frames!Late, Frames!Unless
  <2>3. Frames!content_block_start(r, i) = [r EXCEPT !.open = i, !.count = n, !.errors = {}]
    BY <2>0, <2>1, <2>2 DEF Frames!content_block_start
  <2>4. Reading(i, TRUE) = [open |-> i, count |-> n, started |-> TRUE,
                            stopped |-> FALSE, errors |-> {}]
    BY <2>0 DEF Reading
  <2>5. [r EXCEPT !.open = i, !.count = n, !.errors = {}]
            = [open |-> i, count |-> n, started |-> TRUE, stopped |-> FALSE, errors |-> {}]
    <3>0. PICK E : E = {{}} /\ {} \in E
      OBVIOUS
    <3> DEFINE y == [r EXCEPT !.open = i, !.count = n, !.errors = {}]
               R == [open : Int, count : Int, started : BOOLEAN, stopped : BOOLEAN,
                     errors : E]
    <3>1. r \in R
      BY <2>1, <3>0 DEF Frames!NoIndex
    <3>2. y \in R
      <4>1. {} \in E /\ i \in Int /\ n \in Int
        BY <3>0
      <4> QED
        BY <3>1, <4>1
    <3>3. y.open = i /\ y.count = n /\ y.started = TRUE /\ y.stopped = FALSE /\ y.errors = {}
      BY <2>1, <3>1
    <3> HIDE DEF y
    <3>4. y = [open |-> i, count |-> n, started |-> TRUE, stopped |-> FALSE, errors |-> {}]
      BY <3>2, <3>3
    <3> QED
      BY <3>4 DEF y
  <2>6. Frames!content_block_start(r, i) = Reading(i, TRUE)
    BY <2>3, <2>4, <2>5, Zenon
  <2> QED
    BY <2>6 DEF r
<1>3. Frames!content_block_delta(Reading(i, TRUE), i) = Reading(i, TRUE)
  BY <1>1 DEF Reading, Frames!content_block_delta, Frames!Late, Frames!Unless
<1>4. Frames!content_block_stop(Reading(i, TRUE), i) = Reading(i + 1, FALSE)
  <2>0. PICK n \in Nat : n = i + 1
    OBVIOUS
  <2> DEFINE r == Reading(i, TRUE)
  <2>1. /\ r.open = i /\ r.count = n /\ r.errors = {} /\ ~r.stopped
        /\ r = [open |-> i, count |-> n, started |-> TRUE,
                stopped |-> FALSE, errors |-> {}]
    BY <2>0 DEF Reading
  <2> HIDE DEF r
  <2>2. r.errors \cup Frames!Late(r) \cup Frames!Unless(r.open # Frames!NoIndex, "stop outside")
            \cup Frames!Unless(r.open = i, "stop index") = {}
    BY <1>1, <2>1 DEF Frames!Late, Frames!Unless
  <2>3. Frames!content_block_stop(r, i) = [r EXCEPT !.open = Frames!NoIndex, !.errors = {}]
    BY <2>2 DEF Frames!content_block_stop
  <2>4. Reading(i + 1, FALSE) = [open |-> Frames!NoIndex, count |-> n, started |-> TRUE,
                                 stopped |-> FALSE, errors |-> {}]
    BY <2>0 DEF Reading
  <2>5. [r EXCEPT !.open = Frames!NoIndex, !.errors = {}]
            = [open |-> Frames!NoIndex, count |-> n, started |-> TRUE,
               stopped |-> FALSE, errors |-> {}]
    <3>0. PICK E : E = {{}} /\ {} \in E
      OBVIOUS
    <3> DEFINE y == [r EXCEPT !.open = Frames!NoIndex, !.errors = {}]
               R == [open : Int, count : Int, started : BOOLEAN, stopped : BOOLEAN,
                     errors : E]
    <3>1. r \in R
      BY <2>1, <3>0
    <3>2. y \in R
      <4>1. {} \in E /\ Frames!NoIndex \in Int
        BY <3>0 DEF Frames!NoIndex
      <4> QED
        BY <3>1, <4>1
    <3>3. /\ y.open = Frames!NoIndex /\ y.count = n /\ y.started = TRUE
          /\ y.stopped = FALSE /\ y.errors = {}
      BY <2>1, <3>1
    <3> HIDE DEF y
    <3>4. y = [open |-> Frames!NoIndex, count |-> n, started |-> TRUE,
               stopped |-> FALSE, errors |-> {}]
      BY <3>2, <3>3
    <3> QED
      BY <3>4 DEF y
  <2>6. Frames!content_block_stop(r, i) = Reading(i + 1, FALSE)
    BY <2>3, <2>4, <2>5, Zenon
  <2> QED
    BY <2>6 DEF r
<1>5. \A b \in BOOLEAN : Frames!error_frame(Reading(i, b)) = Reading(i, b)
  BY DEF Reading, Frames!error_frame, Frames!Late, Frames!Unless
<1> QED
  BY <1>2, <1>3, <1>4, <1>5

\* A stream ends well behind its last block.
LEMMA ReaderEnds ==
    ASSUME NEW i \in Nat, NEW r, r = Frames!message_stop(Reading(i, FALSE))
    PROVE  r.stopped /\ r.errors = {} /\ Frames!AnthropicVerdict(r) = {}
BY DEF Reading, Frames!message_stop, Frames!AnthropicVerdict, Frames!Late, Frames!Unless

\* A stream begins with message_start.
LEMMA ReaderStarts ==
    Frames!message_start(Frames!NewAnthropicReader) = Reading(0, FALSE)
<1> DEFINE r == Frames!NewAnthropicReader
<1>1. /\ r = [open |-> Frames!NoIndex, count |-> 0, started |-> FALSE,
              stopped |-> FALSE, errors |-> {}]
      /\ ~r.started /\ ~r.stopped /\ r.errors = {}
  BY DEF Frames!NewAnthropicReader
<1> HIDE DEF r
<1>2. r.errors \cup Frames!Late(r) \cup Frames!Unless(~r.started, "start twice") = {}
  BY <1>1 DEF Frames!Late, Frames!Unless
<1>3. Frames!message_start(r) = [r EXCEPT !.started = TRUE, !.count = 0,
                                          !.open = Frames!NoIndex, !.errors = {}]
  BY <1>2 DEF Frames!message_start
<1>4. Reading(0, FALSE) = [open |-> Frames!NoIndex, count |-> 0, started |-> TRUE,
                           stopped |-> FALSE, errors |-> {}]
  BY DEF Reading
<1>5. Frames!message_start(r) = Reading(0, FALSE)
  BY <1>1, <1>3, <1>4
<1> QED
  BY <1>5 DEF r

-----------------------------------------------------------------------------
(***************************************************************************)
(* The encoders while a stream is under way.                               *)
(***************************************************************************)
OpenAIState ==
    [is_thinking : BOOLEAN, parser : Parser, reasoning : Text, shown : Text,
     calls : Nat, done : BOOLEAN]

\* The readers of a stream that is in order.
Readers == {Reading(i, b) : i \in Nat, b \in BOOLEAN}

AnthropicState ==
    [is_thinking : BOOLEAN, parser : Parser, reasoning : Text, shown : Text,
     calls : Nat, text_block_started : BOOLEAN, block_index : Nat,
     reader : Readers]

\* One block at most is open, and it is the one the encoder's flags name.
InOrder(a) ==
    /\ ~(a.is_thinking /\ a.text_block_started)
    /\ a.is_thinking \/ a.text_block_started => a.reader = Reading(a.block_index, TRUE)
    /\ ~a.is_thinking /\ ~a.text_block_started => a.reader = Reading(a.block_index, FALSE)

\* A chunk leaves the OpenAI encoder in one of its states and ends nothing.
LEMMA OpenAIChunkTyped ==
    ASSUME NEW o \in OpenAIState, NEW chunk \in Text
    PROVE  OpenAIChunk(o, chunk) \in OpenAIState /\ OpenAIChunk(o, chunk).done = o.done
<1> DEFINE within == o.is_thinking \/ Has(chunk, "think>")
           bare == Without(chunk, "think>")
           ends == Has(bare, "/think>")
           thought == IF ends THEN FirstPiece(bare, "/think>")
                      ELSE IF within THEN bare ELSE <<>>
           rest == IF ends THEN SecondPiece(bare, "/think>")
                   ELSE IF within THEN <<>> ELSE bare
           fed == feed(o.parser, rest)
<1>1. bare \in Text
  BY RestsAreText
<1>2. thought \in Text /\ rest \in Text
  <2> HIDE DEF bare
  <2> QED
    BY <1>1, PiecesAreText, ShortTexts
<1>3. fed.parser \in Parser /\ fed.text \in Text
  <2> HIDE DEF rest
  <2>1. o.parser \in Parser
    BY DEF OpenAIState
  <2> QED
    BY <1>2, <2>1, FeedTyped
<1>4. PICK thinks \in BOOLEAN : thinks = (within /\ ~ends)
  OBVIOUS
<1>5. o.reasoning \o thought \in Text /\ o.shown \o fed.text \in Text
  <2> HIDE DEF thought, fed
  <2>1. o.reasoning \in Text /\ o.shown \in Text
    BY DEF OpenAIState
  <2> QED
    BY <1>2, <1>3, <2>1 DEF Text
<1>6. OpenAIChunk(o, chunk) = [o EXCEPT !.is_thinking = thinks,
                                        !.reasoning = @ \o thought,
                                        !.parser = fed.parser,
                                        !.shown = @ \o fed.text]
  BY <1>4 DEF OpenAIChunk
<1> HIDE DEF thought, fed, within, ends
<1> QED
  BY <1>3, <1>5, <1>6 DEF OpenAIState

\* An encoder under way.
Streaming == {a \in AnthropicState : InOrder(a)}

\* Where a reader of a stream in order is.
LEMMA ReadersAre ==
    \A i \in Nat, b \in BOOLEAN : Reading(i, b) \in Readers
BY DEF Readers

\* A block of thinking opens where none is open.
LEMMA StartThinkingInOrder ==
    ASSUME NEW a \in Streaming, ~a.is_thinking, ~a.text_block_started
    PROVE  StartThinking(a) \in Streaming /\ StartThinking(a).is_thinking
<1>1. a \in AnthropicState /\ a.block_index \in Nat /\ a.reader = Reading(a.block_index, FALSE)
  BY DEF Streaming, InOrder, AnthropicState
<1>2. PICK r \in Readers : r = Reading(a.block_index, TRUE)
  BY <1>1, ReadersAre
<1>3. Frames!content_block_start(a.reader, a.block_index) = r
  BY <1>1, <1>2, ReaderSteps
<1>4. StartThinking(a) = [a EXCEPT !.is_thinking = TRUE, !.reader = r]
  BY <1>3 DEF StartThinking
<1> DEFINE b == [a EXCEPT !.is_thinking = TRUE, !.reader = r]
<1>5. b \in AnthropicState
  BY <1>1 DEF AnthropicState
<1>6. /\ b.is_thinking = TRUE /\ b.reader = r /\ b.block_index = a.block_index
      /\ b.text_block_started = a.text_block_started
  BY <1>1 DEF AnthropicState
<1> HIDE DEF b
<1>7. InOrder(b)
  BY <1>2, <1>6 DEF InOrder
<1> QED
  BY <1>4, <1>5, <1>6, <1>7 DEF Streaming, b

\* Thinking goes into the block that is open.
LEMMA ThinkInOrder ==
    ASSUME NEW a \in Streaming, a.is_thinking, NEW text \in Text
    PROVE  Think(a, text) \in Streaming /\ Think(a, text).is_thinking
<1>1. CASE text = <<>>
  BY <1>1 DEF Think
<1>2. CASE text # <<>>
  <2>1. /\ a \in AnthropicState /\ a.block_index \in Nat
        /\ a.reader = Reading(a.block_index, TRUE) /\ ~a.text_block_started
        /\ a.reasoning \in Text
    BY DEF Streaming, InOrder, AnthropicState
  <2>2. Frames!content_block_delta(a.reader, a.block_index) = a.reader
    <3>1. Frames!content_block_delta(Reading(a.block_index, TRUE), a.block_index)
              = Reading(a.block_index, TRUE)
      BY <2>1, ReaderSteps
    <3> QED
      BY <2>1, <3>1
  <2>3. PICK words \in Text : words = a.reasoning \o text
    <3>1. a.reasoning \o text \in Text
      <4> DEFINE before == a.reasoning
      <4>1. before \in Text
        BY <2>1
      <4> HIDE DEF before
      <4>2. before \o text \in Text
        BY <4>1 DEF Text
      <4> QED
        BY <4>2 DEF before
    <3> QED
      BY <3>1
  <2>4. PICK r \in Readers : r = a.reader
    BY <2>1, ReadersAre
  <2> DEFINE b == [a EXCEPT !.reasoning = words, !.reader = r]
  <2>5. Think(a, text) = b
    BY <1>2, <2>2, <2>3, <2>4 DEF Think
  <2>6. b \in AnthropicState
    BY <2>1 DEF AnthropicState
  <2>7. /\ b.is_thinking = a.is_thinking /\ b.reader = r /\ b.block_index = a.block_index
        /\ b.text_block_started = a.text_block_started
    BY <2>1 DEF AnthropicState
  <2> HIDE DEF b
  <2>8. InOrder(b)
    BY <2>1, <2>4, <2>7 DEF InOrder
  <2> QED
    BY <2>5, <2>6, <2>7, <2>8 DEF Streaming
<1> QED
  BY <1>1, <1>2

\* The block of thinking is closed and counted.
LEMMA StopThinkingInOrder ==
    ASSUME NEW a \in Streaming, a.is_thinking
    PROVE  /\ StopThinking(a) \in Streaming
           /\ ~StopThinking(a).is_thinking /\ ~StopThinking(a).text_block_started
<1>1. /\ a \in AnthropicState /\ a.block_index \in Nat
      /\ a.reader = Reading(a.block_index, TRUE) /\ ~a.text_block_started
  BY DEF Streaming, InOrder, AnthropicState
<1>2. PICK n \in Nat : n = a.block_index + 1
  BY <1>1
<1>3. PICK r \in Readers : r = Reading(n, FALSE)
  BY ReadersAre
<1>4. Frames!content_block_stop(a.reader, a.block_index) = r
  BY <1>1, <1>2, <1>3, ReaderSteps
<1> DEFINE b == [a EXCEPT !.is_thinking = FALSE, !.block_index = n, !.reader = r]
<1>5. StopThinking(a) = b
  BY <1>2, <1>4 DEF StopThinking
<1>6. b \in AnthropicState
  BY <1>1 DEF AnthropicState
<1>7. /\ b.is_thinking = FALSE /\ b.reader = r /\ b.block_index = n
      /\ b.text_block_started = a.text_block_started
  BY <1>1 DEF AnthropicState
<1> HIDE DEF b
<1>8. InOrder(b)
  BY <1>1, <1>3, <1>7 DEF InOrder
<1> QED
  BY <1>1, <1>5, <1>6, <1>7, <1>8 DEF Streaming

\* A block of text is opened when there is none, but for no thinking.
LEMMA StartTextInOrder ==
    ASSUME NEW a \in Streaming, ~a.is_thinking
    PROVE  /\ StartText(a) \in Streaming /\ StartText(a).text_block_started
           /\ ~StartText(a).is_thinking
<1>1. CASE a.text_block_started
  BY <1>1 DEF StartText
<1>2. CASE ~a.text_block_started
  <2>1. a \in AnthropicState /\ a.block_index \in Nat /\ a.reader = Reading(a.block_index, FALSE)
    BY <1>2 DEF Streaming, InOrder, AnthropicState
  <2>2. PICK r \in Readers : r = Reading(a.block_index, TRUE)
    BY <2>1, ReadersAre
  <2>3. Frames!content_block_start(a.reader, a.block_index) = r
    BY <2>1, <2>2, ReaderSteps
  <2> DEFINE b == [a EXCEPT !.text_block_started = TRUE, !.reader = r]
  <2>4. StartText(a) = b
    BY <1>2, <2>3 DEF StartText
  <2>5. b \in AnthropicState
    BY <2>1 DEF AnthropicState
  <2>6. /\ b.is_thinking = a.is_thinking /\ b.reader = r /\ b.block_index = a.block_index
        /\ b.text_block_started = TRUE
    BY <2>1 DEF AnthropicState
  <2> HIDE DEF b
  <2>7. InOrder(b)
    BY <2>2, <2>6 DEF InOrder
  <2> QED
    BY <2>4, <2>5, <2>6, <2>7 DEF Streaming
<1> QED
  BY <1>1, <1>2

\* What the parser lets through goes out as text, in a block of text.
LEMMA SayInOrder ==
    ASSUME NEW a \in Streaming, ~a.is_thinking, NEW text \in Text
    PROVE  Say(a, text) \in Streaming
<1>1. a \in AnthropicState /\ a.parser \in Parser
  BY DEF Streaming, AnthropicState
<1>2. PICK p \in Parser, words \in Text :
         p = feed(a.parser, text).parser /\ words = feed(a.parser, text).text
  BY <1>1, FeedTyped
<1> DEFINE b == [a EXCEPT !.parser = p]
<1>3. b \in AnthropicState
  BY <1>1 DEF AnthropicState
<1>4. /\ b.is_thinking = a.is_thinking /\ b.reader = a.reader
      /\ b.block_index = a.block_index /\ b.text_block_started = a.text_block_started
  BY <1>1 DEF AnthropicState
<1>5. b \in Streaming
  <2> HIDE DEF b
  <2> QED
    BY <1>3, <1>4 DEF Streaming, InOrder
<1>6. CASE words = <<>>
  <2>1. Say(a, text) = b
    BY <1>2, <1>6 DEF Say
  <2> QED
    BY <1>5, <2>1
<1>7. CASE words # <<>>
  <2>1. PICK c \in Streaming : c = StartText(b) /\ c.text_block_started /\ ~c.is_thinking
    <3> HIDE DEF b
    <3> QED
      BY <1>4, <1>5, StartTextInOrder
  <2>2. /\ c \in AnthropicState /\ c.block_index \in Nat /\ c.shown \in Text
        /\ c.reader = Reading(c.block_index, TRUE)
    BY <2>1 DEF Streaming, InOrder, AnthropicState
  <2>3. Frames!content_block_delta(c.reader, c.block_index) = c.reader
    <3>1. Frames!content_block_delta(Reading(c.block_index, TRUE), c.block_index)
              = Reading(c.block_index, TRUE)
      BY <2>2, ReaderSteps
    <3> QED
      BY <2>2, <3>1
  <2>4. PICK shown \in Text : shown = c.shown \o words
    <3> DEFINE before == c.shown
    <3>1. before \in Text
      BY <2>2
    <3> HIDE DEF before
    <3>2. before \o words \in Text
      BY <3>1 DEF Text
    <3> QED
      BY <3>2 DEF before
  <2>5. PICK r \in Readers : r = c.reader
    BY <2>2, ReadersAre
  <2>6. c.block_index = a.block_index
    BY <1>4, <2>1, <2>2 DEF StartText, AnthropicState
  <2>7. Say(a, text) = [c EXCEPT !.shown = shown, !.reader = r]
    BY <1>2, <1>7, <2>1, <2>3, <2>4, <2>5, <2>6 DEF Say
  <2> DEFINE d == [c EXCEPT !.shown = shown, !.reader = r]
  <2>8. d \in AnthropicState
    BY <2>2 DEF AnthropicState
  <2>9. /\ d.is_thinking = c.is_thinking /\ d.reader = r
        /\ d.block_index = c.block_index /\ d.text_block_started = c.text_block_started
    BY <2>2 DEF AnthropicState
  <2> HIDE DEF d
  <2>10. d \in Streaming
    BY <2>1, <2>5, <2>8, <2>9 DEF Streaming, InOrder
  <2> QED
    BY <2>7, <2>10 DEF d
<1> QED
  BY <1>6, <1>7

\* Whatever a chunk holds, its frames leave the stream in order.
LEMMA AnthropicChunkInOrder ==
    ASSUME NEW a \in Streaming, NEW chunk \in Text
    PROVE  AnthropicChunk(a, chunk) \in Streaming
<1>1. PICK b \in Streaming : b = IF Opens(a, chunk) THEN StartThinking(a) ELSE a
  BY StartThinkingInOrder DEF Opens
<1>2. PICK bare \in Text : bare = IF Opens(a, chunk) THEN Without(chunk, "think>") ELSE chunk
  BY RestsAreText
<1>3. FirstPiece(bare, "/think>") \in Text /\ SecondPiece(bare, "/think>") \in Text
  BY PiecesAreText
<1>4. CASE b.is_thinking /\ Has(bare, "/think>")
  <2>1. AnthropicChunk(a, chunk)
          = Say(StopThinking(Think(b, FirstPiece(bare, "/think>"))), SecondPiece(bare, "/think>"))
    BY <1>1, <1>2, <1>4 DEF AnthropicChunk
  <2>2. PICK c \in Streaming : c = Think(b, FirstPiece(bare, "/think>")) /\ c.is_thinking
    BY <1>3, <1>4, ThinkInOrder
  <2>3. PICK d \in Streaming : d = StopThinking(c) /\ ~d.is_thinking
    BY <2>2, StopThinkingInOrder
  <2>4. Say(d, SecondPiece(bare, "/think>")) \in Streaming
    BY <1>3, <2>3, SayInOrder
  <2> QED
    BY <2>1, <2>2, <2>3, <2>4
<1>5. CASE b.is_thinking /\ ~Has(bare, "/think>")
  <2>1. AnthropicChunk(a, chunk) = Think(b, bare)
    BY <1>1, <1>2, <1>5 DEF AnthropicChunk
  <2> QED
    BY <1>5, <2>1, ThinkInOrder
<1>6. CASE ~b.is_thinking
  <2>1. AnthropicChunk(a, chunk) = Say(b, bare)
    BY <1>1, <1>2, <1>6 DEF AnthropicChunk
  <2> QED
    BY <1>6, <2>1, SayInOrder
<1> QED
  BY <1>4, <1>5, <1>6

-----------------------------------------------------------------------------
(***************************************************************************)
(* The end of a stream.                                                    *)
(***************************************************************************)

\* An encoder under way between two blocks.
Between == {a \in Streaming : ~a.is_thinking /\ ~a.text_block_started}

\* Closing what is open leaves nothing open.
LEMMA CloseBlocksInOrder ==
    ASSUME NEW a \in Streaming
    PROVE  CloseBlocks(a) \in Between /\ CloseBlocks(a).reasoning = a.reasoning
<1>1. PICK b \in Streaming :
         /\ b = (IF a.is_thinking THEN StopThinking(a) ELSE a)
         /\ ~b.is_thinking /\ b.reasoning = a.reasoning
  <2>1. a.is_thinking => StopThinking(a).reasoning = a.reasoning
    BY DEF StopThinking, Streaming, AnthropicState
  <2> QED
    BY <2>1, StopThinkingInOrder
<1>2. CASE ~b.text_block_started
  <2>1. CloseBlocks(a) = b
    BY <1>1, <1>2 DEF CloseBlocks
  <2> QED
    BY <1>1, <1>2, <2>1 DEF Between
<1>3. CASE b.text_block_started
  <2>1. /\ b \in AnthropicState /\ b.block_index \in Nat
        /\ b.reader = Reading(b.block_index, TRUE)
    BY <1>3 DEF Streaming, InOrder, AnthropicState
  <2>2. PICK n \in Nat : n = b.block_index + 1
    BY <2>1
  <2>3. PICK r \in Readers : r = Reading(n, FALSE)
    BY ReadersAre
  <2>4. Frames!content_block_stop(b.reader, b.block_index) = r
    BY <2>1, <2>2, <2>3, ReaderSteps
  <2> DEFINE c == [b EXCEPT !.text_block_started = FALSE, !.block_index = n, !.reader = r]
  <2>5. CloseBlocks(a) = c
    BY <1>1, <1>3, <2>2, <2>4 DEF CloseBlocks
  <2>6. c \in AnthropicState
    BY <2>1 DEF AnthropicState
  <2>7. /\ c.is_thinking = b.is_thinking /\ c.reader = r /\ c.block_index = n
        /\ c.text_block_started = FALSE /\ c.reasoning = b.reasoning
    BY <2>1 DEF AnthropicState
  <2> HIDE DEF c
  <2> QED
    BY <1>1, <2>3, <2>5, <2>6, <2>7 DEF Between, Streaming, InOrder
<1> QED
  BY <1>2, <1>3

\* A block that is opened, filled and closed at once.
LEMMA WholeBlockInOrder ==
    ASSUME NEW a \in Between
    PROVE  WholeBlock(a) \in Between /\ WholeBlock(a).reasoning = a.reasoning
<1>1. /\ a \in AnthropicState /\ a.block_index \in Nat
      /\ a.reader = Reading(a.block_index, FALSE)
      /\ ~a.is_thinking /\ ~a.text_block_started
  BY DEF Between, Streaming, InOrder, AnthropicState
<1>2. PICK i \in Nat : i = a.block_index
  BY <1>1
<1>3. PICK n \in Nat : n = i + 1
  OBVIOUS
<1>4. PICK r \in Readers : r = Reading(n, FALSE)
  BY ReadersAre
<1>5. Frames!content_block_stop(
          Frames!content_block_delta(Frames!content_block_start(a.reader, i), i), i) = r
  <2>1. Frames!content_block_start(Reading(i, FALSE), i) = Reading(i, TRUE)
    BY ReaderSteps
  <2>2. Frames!content_block_delta(Reading(i, TRUE), i) = Reading(i, TRUE)
    BY ReaderSteps
  <2>3. Frames!content_block_stop(Reading(i, TRUE), i) = Reading(n, FALSE)
    BY <1>3, ReaderSteps
  <2> QED
    BY <1>1, <1>2, <1>4, <2>1, <2>2, <2>3
<1> DEFINE b == [a EXCEPT !.block_index = n, !.reader = r]
<1>6. WholeBlock(a) = b
  BY <1>2, <1>3, <1>5 DEF WholeBlock
<1>7. b \in AnthropicState
  BY <1>1 DEF AnthropicState
<1>8. /\ b.is_thinking = a.is_thinking /\ b.reader = r /\ b.block_index = n
      /\ b.text_block_started = a.text_block_started /\ b.reasoning = a.reasoning
  BY <1>1 DEF AnthropicState
<1> HIDE DEF b
<1> QED
  BY <1>1, <1>4, <1>6, <1>7, <1>8 DEF Between, Streaming, InOrder

\* As many of them as there are calls.
LEMMA WholeBlocksInOrder ==
    ASSUME NEW a \in Between, NEW n \in Nat
    PROVE  /\ WholeBlocks(a, n) \in Between
           /\ WholeBlocks(a, n).reasoning = a.reasoning
<1> DEFINE step == [k \in 1 .. n |-> [b \in Between |-> WholeBlock(b)]]
           Blocks(f) == f = [k \in 0 .. n |-> IF k = 0 THEN a ELSE WholeBlock(f[k - 1])]
<1>1. step \in [1 .. n -> [Between -> Between]]
  BY WholeBlockInOrder
<1>2. \A k \in 1 .. n, b \in Between : step[k][b] = WholeBlock(b)
  OBVIOUS
<1> HIDE DEF step
<1>3. PICK f \in [0 .. n -> Between] : f[0] = a /\ \A k \in 1 .. n : f[k] = step[k][f[k - 1]]
  <2>1. RecursionSolved(Between, n, a, step)
    BY <1>1, RecursionExists
  <2> QED
    BY <2>1 DEF RecursionSolved
<1>4. Blocks(f)
  <2>1. ASSUME NEW k \in 0 .. n
        PROVE  f[k] = IF k = 0 THEN a ELSE WholeBlock(f[k - 1])
    <3>1. CASE k = 0
      BY <1>3, <3>1
    <3>2. CASE k # 0
      <4>1. k \in 1 .. n /\ k - 1 \in 0 .. n
        BY <3>2
      <4>2. f[k - 1] \in Between
        BY <4>1
      <4> QED
        BY <1>2, <1>3, <3>2, <4>1, <4>2
    <3> QED
      BY <3>1, <3>2
  <2>2. f = [k \in 0 .. n |-> f[k]]
    OBVIOUS
  <2> QED
    BY <2>1, <2>2
<1> DEFINE g == CHOOSE f1 : Blocks(f1)
<1>5. Blocks(g)
  BY <1>4
<1>6. WholeBlocks(a, n) = g[n]
  BY DEF WholeBlocks
<1> DEFINE P == {k \in 0 .. n : g[k] \in Between /\ g[k].reasoning = a.reasoning}
<1> HIDE DEF g
<1>7. 0 \in P
  BY <1>5
<1>8. ASSUME NEW k \in 1 .. n, k - 1 \in P
      PROVE  k \in P
  <2>1. k \in 0 .. n /\ k # 0
    OBVIOUS
  <2>2. g[k] = WholeBlock(g[k - 1])
    BY <1>5, <2>1
  <2>3. PICK b \in Between : b = g[k - 1] /\ b.reasoning = a.reasoning
    BY <1>8
  <2>4. WholeBlock(b) \in Between /\ WholeBlock(b).reasoning = a.reasoning
    BY <2>3, WholeBlockInOrder
  <2> QED
    BY <2>1, <2>2, <2>3, <2>4
<1>9. P \in SUBSET (0 .. n)
  OBVIOUS
<1> HIDE DEF P
<1>10. P = 0 .. n
  BY <1>7, <1>8, <1>9, UpTo
<1> QED
  BY <1>6, <1>10 DEF P

\* An encoder that has ended: nothing is open, and message_stop was the last
\* frame of a stream in order.
Ended(a) ==
    /\ a.parser \in Parser /\ a.shown \in Text /\ a.block_index \in Nat
    /\ a.is_thinking = FALSE /\ a.text_block_started = FALSE
    /\ a.reader.stopped /\ a.reader.errors = {} /\ Frames!AnthropicVerdict(a.reader) = {}

\* Wherever the stream stands, its end is one a strict reader accepts.
LEMMA EndAnthropicEnds ==
    ASSUME NEW a \in Streaming, NEW full \in Text
    PROVE  /\ Ended(EndAnthropic(a, full))
           /\ EndAnthropic(a, full).reasoning = a.reasoning
           /\ EndAnthropic(a, full).calls = Calls(full)
<1>1. PICK closed \in Between : closed = CloseBlocks(a) /\ closed.reasoning = a.reasoning
  BY CloseBlocksInOrder
<1>2. PICK answer \in Text :
         answer = IF clean_text(full) # <<>> THEN clean_text(full) ELSE flush(a.parser)
  BY CleanTextIsText, RestsAreText DEF Streaming, AnthropicState
<1>3. PICK texts \in Between :
         /\ texts = IF Calls(full) = 0 /\ answer # <<>> /\ ~closed.text_block_started
                    THEN [WholeBlock(closed) EXCEPT !.shown = @ \o answer]
                    ELSE closed
         /\ texts.reasoning = a.reasoning
  <2>1. PICK b \in Between : b = WholeBlock(closed) /\ b.reasoning = closed.reasoning
    BY WholeBlockInOrder
  <2>2. b \in AnthropicState /\ b.shown \in Text
    BY DEF Between, Streaming, AnthropicState
  <2>3. PICK shown \in Text : shown = b.shown \o answer
    <3> DEFINE before == b.shown
    <3>1. before \in Text
      BY <2>2
    <3> HIDE DEF before
    <3>2. before \o answer \in Text
      BY <3>1 DEF Text
    <3> QED
      BY <3>2 DEF before
  <2> DEFINE c == [b EXCEPT !.shown = shown]
  <2>4. c \in AnthropicState
    BY <2>2 DEF AnthropicState
  <2>5. /\ c.is_thinking = b.is_thinking /\ c.reader = b.reader
        /\ c.block_index = b.block_index /\ c.text_block_started = b.text_block_started
        /\ c.reasoning = b.reasoning
    BY <2>2 DEF AnthropicState
  <2>6. c \in Between
    <3> HIDE DEF c
    <3> QED
      BY <2>4, <2>5 DEF Between, Streaming, InOrder
  <2>7. c = [WholeBlock(closed) EXCEPT !.shown = @ \o answer]
    BY <2>1, <2>3
  <2> HIDE DEF c
  <2> QED
    BY <1>1, <2>1, <2>5, <2>6, <2>7
<1>4. PICK n \in Nat : n = Calls(full)
  BY CallsAreCounted
<1>5. PICK d \in Between : d = WholeBlocks(texts, n) /\ d.reasoning = a.reasoning
  BY <1>3, WholeBlocksInOrder
<1>6. /\ d \in AnthropicState /\ d.block_index \in Nat
      /\ d.reader = Reading(d.block_index, FALSE)
      /\ ~d.is_thinking /\ ~d.text_block_started /\ d.shown \in Text /\ d.parser \in Parser
      /\ d.is_thinking \in BOOLEAN /\ d.text_block_started \in BOOLEAN
  BY DEF Between, Streaming, InOrder, AnthropicState
<1>7. PICK r : r = Frames!message_stop(d.reader)
  OBVIOUS
<1>8. r.stopped /\ r.errors = {} /\ Frames!AnthropicVerdict(r) = {}
  BY <1>6, <1>7, ReaderEnds
<1> DEFINE e == [d EXCEPT !.calls = n, !.reader = r]
<1>9. EndAnthropic(a, full) = e
  <2>1. EndAnthropic(a, full)
           = [WholeBlocks(texts, n) EXCEPT !.calls = n, !.reader = Frames!message_stop(@)]
    BY <1>1, <1>2, <1>3, <1>4 DEF EndAnthropic
  <2> QED
    BY <1>5, <1>7, <2>1
<1>10. /\ e.parser = d.parser /\ e.shown = d.shown /\ e.block_index = d.block_index
       /\ e.is_thinking = d.is_thinking /\ e.text_block_started = d.text_block_started
       /\ e.reader = r /\ e.calls = n /\ e.reasoning = d.reasoning
  BY <1>6 DEF AnthropicState
<1> HIDE DEF e
<1> QED
  BY <1>4, <1>5, <1>6, <1>8, <1>9, <1>10 DEF Ended

\* The OpenAI encoder's end is [DONE].
LEMMA EndOpenAIEnds ==
    ASSUME NEW o \in OpenAIState, NEW full \in Text
    PROVE  /\ EndOpenAI(o, full) \in OpenAIState /\ EndOpenAI(o, full).done = TRUE
           /\ EndOpenAI(o, full).reasoning = o.reasoning
           /\ EndOpenAI(o, full).calls = Calls(full)
           /\ EndOpenAI(o, full).shown
                 = IF Calls(full) > 0 THEN o.shown ELSE o.shown \o flush(o.parser)
<1>1. PICK n \in Nat : n = Calls(full)
  BY CallsAreCounted
<1>2. PICK rest \in Text : rest = flush(o.parser)
  BY RestsAreText DEF OpenAIState
<1>3. o.shown \in Text
  BY DEF OpenAIState
<1>4. PICK shown \in Text : shown = IF n > 0 THEN o.shown ELSE o.shown \o rest
  <2> DEFINE before == o.shown
  <2>1. before \in Text
    BY <1>3
  <2> HIDE DEF before
  <2>2. before \o rest \in Text
    BY <2>1 DEF Text
  <2> QED
    BY <2>1, <2>2 DEF before
<1>5. EndOpenAI(o, full) = [o EXCEPT !.calls = n, !.shown = shown, !.done = TRUE]
  BY <1>1, <1>2, <1>4 DEF EndOpenAI
<1> QED
  BY <1>1, <1>2, <1>4, <1>5 DEF OpenAIState

-----------------------------------------------------------------------------
(***************************************************************************)
(* A stream under way: what is held back and what both encoders were       *)
(* given.  Together they are all the text that came.                       *)
(***************************************************************************)
StreamState ==
    [carry : {<<>>, <<"<">>}, full : Text, openai : OpenAIState, anthropic : Streaming]

Words(s) == s.full \o s.carry

\* A chunk reaches both encoders and the text they were given, and ends nothing.
LEMMA EncodeKeeps ==
    ASSUME NEW s \in StreamState, NEW chunk \in Text
    PROVE  /\ Encode(s, chunk) \in StreamState
           /\ Encode(s, chunk).carry = s.carry
           /\ Encode(s, chunk).full = s.full \o chunk
           /\ Encode(s, chunk).openai.done = s.openai.done
<1>1. s.full \in Text /\ s.openai \in OpenAIState /\ s.anthropic \in Streaming
  BY DEF StreamState
<1>2. CASE chunk = <<>>
  <2>1. s.full \o <<>> = s.full
    BY <1>1, ConcatEmptySeq DEF Text
  <2> QED
    BY <1>2, <2>1 DEF Encode
<1>3. CASE chunk # <<>>
  <2>1. PICK full \in Text : full = s.full \o chunk
    <3> DEFINE before == s.full
    <3>1. before \in Text
      BY <1>1
    <3> HIDE DEF before
    <3>2. before \o chunk \in Text
      BY <3>1 DEF Text
    <3> QED
      BY <3>2 DEF before
  <2>2. PICK o \in OpenAIState : o = OpenAIChunk(s.openai, chunk) /\ o.done = s.openai.done
    BY <1>1, OpenAIChunkTyped
  <2>3. PICK a \in Streaming : a = AnthropicChunk(s.anthropic, chunk)
    BY <1>1, AnthropicChunkInOrder
  <2>4. Encode(s, chunk) = [s EXCEPT !.full = full, !.openai = o, !.anthropic = a]
    BY <1>3, <2>1, <2>2, <2>3 DEF Encode
  <2> QED
    BY <2>1, <2>2, <2>4 DEF StreamState
<1> QED
  BY <1>2, <1>3

\* Joining texts is associative.
LEMMA Associates ==
    \A x, y, z \in Text : (x \o y) \o z = x \o (y \o z)
<1>1. ASSUME NEW x \in Seq(Marks), NEW y \in Seq(Marks), NEW z \in Seq(Marks)
      PROVE  (x \o y) \o z = x \o (y \o z)
  BY ConcatAssociative
<1> QED
  BY <1>1 DEF Text

\* What was said stays said: a chunk leaves nothing of the words before it out,
\* and none of its own.
LEMMA YieldKeeps ==
    ASSUME NEW s \in StreamState, NEW chunk \in Text
    PROVE  /\ Yield(s, chunk) \in StreamState
           /\ Words(Yield(s, chunk)) = Words(s) \o chunk
           /\ Words(Yield(s, chunk)) = <<>> => Words(s) = <<>> /\ chunk = <<>>
           /\ Yield(s, chunk).openai.done = s.openai.done
<1>1. s.carry \in {<<>>, <<"<">>} /\ s.full \in Text /\ s.carry \in Text
  BY ShortTexts DEF StreamState
<1>2. PICK passed \in Text, held \in {<<>>, <<"<">>} :
         /\ passed = Hold(s.carry, chunk).passed /\ held = Hold(s.carry, chunk).carry
         /\ passed \o held = s.carry \o chunk /\ s.carry \o chunk \in Text
  <2>1. PICK c \in {<<>>, <<"<">>} : c = s.carry /\ c \in Text
    BY <1>1
  <2>2. /\ Hold(c, chunk).passed \in Text /\ Hold(c, chunk).carry \in {<<>>, <<"<">>}
        /\ Hold(c, chunk).passed \o Hold(c, chunk).carry = c \o chunk
    BY NothingIsLostInHold
  <2>3. c \o chunk \in Text
    BY <2>1, Joined
  <2> QED
    BY <2>1, <2>2, <2>3
<1>3. held \in Text
  BY ShortTexts
<1> DEFINE b == [s EXCEPT !.carry = held]
<1>4. b \in StreamState /\ b.carry = held /\ b.full = s.full /\ b.openai = s.openai
  BY DEF StreamState
<1> HIDE DEF b
<1>5. PICK t : t = Encode(b, passed)
  OBVIOUS
<1>6. Yield(s, chunk) = t
  BY <1>2, <1>5 DEF Yield, b
<1>7. /\ t \in StreamState /\ t.carry = held /\ t.full = s.full \o passed
      /\ t.openai.done = s.openai.done
  <2>1. PICK c \in StreamState : /\ c = b /\ c.carry = held /\ c.full = s.full
                                 /\ c.openai = s.openai
    BY <1>4
  <2>2. t = Encode(c, passed)
    BY <1>5, <2>1
  <2>3. /\ Encode(c, passed) \in StreamState /\ Encode(c, passed).carry = c.carry
        /\ Encode(c, passed).full = c.full \o passed
        /\ Encode(c, passed).openai.done = c.openai.done
    BY EncodeKeeps
  <2> QED
    BY <2>1, <2>2, <2>3
<1>8. Words(t) = Words(s) \o chunk
  <2>1. Words(t) = (s.full \o passed) \o held
    BY <1>7 DEF Words
  <2>2. (s.full \o passed) \o held = s.full \o (passed \o held)
    <3>1. s.full \in Text /\ passed \in Text /\ held \in Text
      BY <1>1, <1>3
    <3> QED
      BY <3>1, Associates, Zenon
  <2>3. s.full \o (s.carry \o chunk) = (s.full \o s.carry) \o chunk
    <3>1. s.full \in Text /\ s.carry \in Text /\ chunk \in Text
      BY <1>1
    <3> QED
      BY <3>1, Associates, Zenon
  <2> QED
    BY <1>2, <2>1, <2>2, <2>3 DEF Words
<1>9. Words(s) \o chunk = <<>> => Words(s) = <<>> /\ chunk = <<>>
  <2>1. Words(s) \in Text
    <3> DEFINE f == s.full
               c == s.carry
    <3>1. f \in Text /\ c \in Text
      BY <1>1
    <3> HIDE DEF f, c
    <3>2. f \o c \in Text
      BY <3>1 DEF Text
    <3> QED
      BY <3>2 DEF Words, f, c
  <2> QED
    BY <2>1, ConcatEqualIffEmpty DEF Text
<1> QED
  BY <1>6, <1>7, <1>8, <1>9

\* The tags send_message puts around the thinking, where it puts any.
LEMMA TagsKeep ==
    ASSUME NEW s \in StreamState
    PROVE  /\ Opening(s) \in StreamState /\ Closing(s) \in StreamState
           /\ Words(Opening(s)) = <<>> => Words(s) = <<>>
           /\ Words(Closing(s)) = <<>> => Words(s) = <<>>
           /\ Opening(s).openai.done = s.openai.done
           /\ Closing(s).openai.done = s.openai.done
<1>1. ThinkOpen \in Text /\ ThinkClose \in Text
  <2>1. "<" \in Marks /\ "think>" \in Marks /\ "/think>" \in Marks
    BY DEF Marks
  <2> QED
    BY <2>1 DEF ThinkOpen, ThinkClose, Text
<1> QED
  BY <1>1, YieldKeeps DEF Opening, Closing

-----------------------------------------------------------------------------
(***************************************************************************)
(* The inductive invariant.  Until the stream is finished the Anthropic    *)
(* frames are in order and nothing has said that it ended; what was not    *)
(* passed on yet is held back, so an answer looks empty only if no word    *)
(* came.                                                                   *)
(***************************************************************************)
UnderWay ==
    upstream # "finished" =>
        /\ anthropic \in Streaming
        /\ openai.done = FALSE
        /\ saved.kind = "none"

Over ==
    upstream = "finished" =>
        /\ Ended(anthropic)
        /\ openai.done = TRUE
        /\ saved.kind # "none"

NoWordIsLost ==
    /\ full_text \o carry = <<>> => thinking = <<>> /\ content = <<>>
    /\ saved.kind = "dropped" => full_text = <<>> /\ carry = <<>>

StreamsInv ==
    /\ StreamsTypeOK
    /\ openai \in OpenAIState
    /\ UnderWay
    /\ Over
    /\ NoWordIsLost

\* What the type invariant says of the encoders follows from their states.
LEMMA EncodersTyped ==
    /\ \A o \in OpenAIState :
          /\ o.parser \in Parser /\ o.is_thinking \in BOOLEAN
          /\ o.shown \in Text /\ o.calls \in Nat
    /\ \A a \in Streaming :
          /\ a.parser \in Parser /\ a.is_thinking \in BOOLEAN /\ a.shown \in Text
          /\ a.block_index \in Nat /\ a.text_block_started \in BOOLEAN
          /\ a.reader.errors = {} /\ a.reader.stopped = FALSE
<1>1. \A o \in OpenAIState :
          /\ o.parser \in Parser /\ o.is_thinking \in BOOLEAN
          /\ o.shown \in Text /\ o.calls \in Nat
  BY DEF OpenAIState
<1>2. ASSUME NEW a \in Streaming
      PROVE  /\ a.parser \in Parser /\ a.is_thinking \in BOOLEAN /\ a.shown \in Text
             /\ a.block_index \in Nat /\ a.text_block_started \in BOOLEAN
             /\ a.reader.errors = {} /\ a.reader.stopped = FALSE
  <2>1. /\ a.parser \in Parser /\ a.is_thinking \in BOOLEAN /\ a.shown \in Text
        /\ a.block_index \in Nat /\ a.text_block_started \in BOOLEAN
    BY DEF Streaming, AnthropicState
  <2>2. a.reader = Reading(a.block_index, TRUE) \/ a.reader = Reading(a.block_index, FALSE)
    BY <2>1 DEF Streaming, InOrder
  <2>3. a.reader.errors = {} /\ a.reader.stopped = FALSE
    BY <2>2 DEF Reading
  <2> QED
    BY <2>1, <2>3
<1> QED
  BY <1>1, <1>2

\* The invariant holds before the first line.
LEMMA StreamsInitEstablishes ==
    Init => StreamsInv
<1> SUFFICES ASSUME Init PROVE StreamsInv
  OBVIOUS
<1>1. NewParser \in Parser /\ <<>> \in Text
  BY ShortTexts DEF NewParser, Parser
<1>2. openai \in OpenAIState /\ openai.done = FALSE
  BY <1>1 DEF Init, NewOpenAI, OpenAIState
<1>3. anthropic \in Streaming
  <2>1. PICK r \in Readers : r = Reading(0, FALSE)
    BY ReadersAre
  <2>2. anthropic = [is_thinking |-> FALSE, parser |-> NewParser, reasoning |-> <<>>,
                     shown |-> <<>>, calls |-> 0, text_block_started |-> FALSE,
                     block_index |-> 0, reader |-> r]
    BY <2>1, ReaderStarts DEF Init, NewAnthropic
  <2>3. anthropic \in AnthropicState
    BY <1>1, <2>2 DEF AnthropicState
  <2>4. /\ ~anthropic.is_thinking /\ ~anthropic.text_block_started
        /\ anthropic.reader = Reading(0, FALSE) /\ anthropic.block_index = 0
    BY <2>1, <2>2
  <2> QED
    BY <2>3, <2>4 DEF Streaming, InOrder
<1>4. saved.kind = "none" /\ saved.text = <<>>
  BY DEF Init, NotSaved
<1>5. StreamsTypeOK
  <2>1. lines \in 0 .. MaxLines
    BY MaxLinesAssumption DEF Init
  <2>2. /\ upstream = "open" /\ think_open = FALSE /\ late = FALSE
        /\ carry = <<>> /\ full_text = <<>> /\ thinking = <<>> /\ content = <<>>
    BY DEF Init
  <2> QED
    BY <1>1, <1>2, <1>3, <1>4, <2>1, <2>2, EncodersTyped DEF StreamsTypeOK
<1> QED
  BY <1>2, <1>3, <1>4, <1>5 DEF Init, StreamsInv, UnderWay, Over, NoWordIsLost

\* While the stream is open, what Receive() takes over is a stream under way.
LEMMA OpenStream ==
    ASSUME StreamsInv, upstream = "open"
    PROVE  /\ Stream \in StreamState
           /\ Words(Stream) = full_text \o carry
           /\ Stream.openai.done = FALSE
           /\ Stream.carry = carry /\ Stream.full = full_text
BY DEF StreamsInv, StreamsTypeOK, UnderWay, Stream, StreamState, Words

\* A line adds its piece to the words, tags or not, and leaves the rest alone.
LEMMA LineKeeps ==
    ASSUME StreamsInv, Line, NEW piece \in Text, NEW s \in StreamState,
           s.openai.done = FALSE, Words(s) = <<>> => full_text \o carry = <<>>,
           Receive(Yield(s, piece)), think_open' \in BOOLEAN,
           Thought(piece) \/ Said(piece), UNCHANGED <<upstream, saved>>
    PROVE  StreamsInv'
<1>1. upstream = "open" /\ upstream' = "open" /\ saved' = saved /\ saved.kind = "none"
  BY DEF Line, StreamsInv, UnderWay
<1>2. PICK t \in StreamState :
         /\ t = Yield(s, piece)
         /\ Words(t) = <<>> => Words(s) = <<>> /\ piece = <<>>
         /\ t.openai.done = FALSE
  BY YieldKeeps
<1>3. carry' = t.carry /\ full_text' = t.full /\ openai' = t.openai /\ anthropic' = t.anthropic
  BY <1>2 DEF Receive
<1>4. /\ carry' \in {<<>>, <<"<">>} /\ full_text' \in Text
      /\ openai' \in OpenAIState /\ anthropic' \in Streaming /\ openai'.done = FALSE
  BY <1>2, <1>3 DEF StreamState
<1>5. lines' \in 0 .. MaxLines
  BY MaxLinesAssumption DEF Line, StreamsInv, StreamsTypeOK
<1>6. thinking \in Text /\ content \in Text /\ late \in BOOLEAN
  BY DEF StreamsInv, StreamsTypeOK
<1>7. thinking \o piece \in Text /\ content \o piece \in Text
  BY <1>6 DEF Text
<1>8. thinking' \in Text /\ content' \in Text /\ late' \in BOOLEAN
  BY <1>6, <1>7 DEF Thought, Said
<1>9. StreamsTypeOK'
  BY <1>1, <1>4, <1>5, <1>8, EncodersTyped DEF StreamsTypeOK, StreamsInv
<1>10. full_text' \o carry' = <<>> => thinking' = <<>> /\ content' = <<>>
  <2> SUFFICES ASSUME full_text' \o carry' = <<>> PROVE thinking' = <<>> /\ content' = <<>>
    OBVIOUS
  <2>1. piece = <<>> /\ full_text \o carry = <<>>
    BY <1>2, <1>3 DEF Words
  <2>2. thinking = <<>> /\ content = <<>>
    BY <2>1 DEF StreamsInv, NoWordIsLost
  <2>3. <<>> \o <<>> = <<>>
    OBVIOUS
  <2> QED
    BY <2>1, <2>2, <2>3 DEF Thought, Said
<1> QED
  BY <1>1, <1>4, <1>9, <1>10 DEF StreamsInv, UnderWay, Over, NoWordIsLost

\* A fragment of thinking.
LEMMA ThinkFragmentKeeps ==
    ASSUME StreamsInv, NEW piece \in Pieces, ThinkFragment(piece)
    PROVE  StreamsInv'
<1>1. PICK s \in StreamState :
         /\ s = Opening(Stream) /\ s.openai.done = FALSE
         /\ Words(s) = <<>> => full_text \o carry = <<>>
  BY OpenStream, TagsKeep DEF ThinkFragment, Line
<1>2. /\ Line /\ piece \in Text /\ Receive(Yield(s, piece)) /\ think_open' \in BOOLEAN
      /\ Thought(piece) /\ UNCHANGED <<upstream, saved>>
  BY <1>1, PiecesAssumption DEF ThinkFragment
<1> QED
  BY <1>1, <1>2, LineKeeps

\* A fragment of the response.
LEMMA ResponseFragmentKeeps ==
    ASSUME StreamsInv, NEW piece \in Pieces, ResponseFragment(piece)
    PROVE  StreamsInv'
<1>1. PICK s \in StreamState :
         /\ s = Closing(Stream) /\ s.openai.done = FALSE
         /\ Words(s) = <<>> => full_text \o carry = <<>>
  BY OpenStream, TagsKeep DEF ResponseFragment, Line
<1>2. /\ Line /\ piece \in Text /\ Receive(Yield(s, piece)) /\ think_open' \in BOOLEAN
      /\ Said(piece) /\ UNCHANGED <<upstream, saved>>
  BY <1>1, PiecesAssumption DEF ResponseFragment
<1> QED
  BY <1>1, <1>2, LineKeeps

\* More of the fragment that came last.
LEMMA MoreTextKeeps ==
    ASSUME StreamsInv, NEW piece \in Pieces, MoreText(piece)
    PROVE  StreamsInv'
<1>1. PICK s \in StreamState :
         /\ s = Stream /\ s.openai.done = FALSE
         /\ Words(s) = <<>> => full_text \o carry = <<>>
  BY OpenStream DEF MoreText, Line
<1>2. /\ Line /\ piece \in Text /\ Receive(Yield(s, piece)) /\ think_open' \in BOOLEAN
      /\ (Thought(piece) \/ Said(piece))
  BY <1>1, PiecesAssumption DEF MoreText, StreamsInv, StreamsTypeOK
<1>3. UNCHANGED <<upstream, saved>>
  BY DEF MoreText
<1> QED
  BY <1>1, <1>2, <1>3, LineKeeps

\* The end of an answer that was complete.
LEMMA FinishedKeeps ==
    ASSUME StreamsInv, Finished
    PROVE  StreamsInv'
<1>1. upstream = "open" /\ upstream' = "finished"
  BY DEF Finished
<1>2. PICK s \in StreamState :
         s = Closing(Stream) /\ (Words(s) = <<>> => full_text \o carry = <<>>)
  BY <1>1, OpenStream, TagsKeep
<1>3. s.carry \in Text /\ s.carry \in {<<>>, <<"<">>}
  BY ShortTexts DEF StreamState
<1> DEFINE b == [s EXCEPT !.carry = <<>>]
<1>4. b \in StreamState /\ b.carry = <<>> /\ b.full = s.full
  BY DEF StreamState
<1> HIDE DEF b
<1>5. PICK t \in StreamState : t = Encode(b, s.carry) /\ t.carry = <<>> /\ t.full = Words(s)
  <2>1. PICK more \in Text : more = s.carry
    BY <1>3
  <2>2. /\ Encode(b, more) \in StreamState /\ Encode(b, more).carry = b.carry
        /\ Encode(b, more).full = b.full \o more
    BY <1>4, EncodeKeeps
  <2> QED
    BY <1>4, <2>1, <2>2 DEF Words
<1>6. t.full \in Text /\ t.openai \in OpenAIState /\ t.anthropic \in Streaming
  BY DEF StreamState
<1>7. PICK o \in OpenAIState : o = EndOpenAI(t.openai, t.full) /\ o.done = TRUE
  BY <1>6, EndOpenAIEnds
<1>8. PICK a : a = EndAnthropic(t.anthropic, t.full) /\ Ended(a)
  BY <1>6, EndAnthropicEnds
<1> DEFINE u == [t EXCEPT !.openai = o, !.anthropic = a]
<1>9. /\ Receive(u) /\ saved' = Bound(t.full)
      /\ UNCHANGED <<think_open, lines, thinking, content, late>>
  BY <1>2, <1>5, <1>7, <1>8 DEF Finished, b
<1>10. u.carry = <<>> /\ u.full = t.full /\ u.openai = o /\ u.anthropic = a
  BY <1>5 DEF StreamState
<1> HIDE DEF u
<1>11. carry' = <<>> /\ full_text' = t.full /\ openai' = o /\ anthropic' = a
  BY <1>9, <1>10 DEF Receive
<1>12. /\ saved'.kind \in {"bound", "dropped"} /\ saved'.text \in Text
       /\ saved'.kind = "dropped" => t.full = <<>>
  <2>1. saved' = IF t.full = <<>> THEN [NotSaved EXCEPT !.kind = "dropped"]
                 ELSE [kind |-> "bound", calls |-> Calls(t.full),
                       text |-> IF Calls(t.full) > 0 THEN <<>> ELSE clean_text(t.full)]
    BY <1>9 DEF Bound
  <2>2. clean_text(t.full) \in Text /\ <<>> \in Text
    BY <1>6, CleanTextIsText, ShortTexts
  <2> QED
    BY <2>1, <2>2 DEF NotSaved
<1>13. /\ think_open' = think_open /\ lines' = lines /\ thinking' = thinking
       /\ content' = content /\ late' = late
  BY <1>9
<1>14. /\ think_open \in BOOLEAN /\ late \in BOOLEAN /\ thinking \in Text
       /\ content \in Text /\ lines \in 0 .. MaxLines
  BY DEF StreamsInv, StreamsTypeOK
<1>15. StreamsTypeOK'
  <2>1. /\ anthropic'.parser \in Parser /\ anthropic'.is_thinking \in BOOLEAN
        /\ anthropic'.shown \in Text /\ anthropic'.block_index \in Nat
        /\ anthropic'.text_block_started \in BOOLEAN
    BY <1>8, <1>11 DEF Ended
  <2> QED
    BY <1>1, <1>6, <1>7, <1>11, <1>12, <1>13, <1>14, <2>1, EncodersTyped DEF StreamsTypeOK
<1>16. full_text' \o carry' = <<>> => thinking' = <<>> /\ content' = <<>>
  <2> SUFFICES ASSUME full_text' \o carry' = <<>> PROVE thinking' = <<>> /\ content' = <<>>
    OBVIOUS
  <2>1. t.full = <<>>
    BY <1>6, <1>11, ConcatEmptySeq DEF Text
  <2>2. full_text \o carry = <<>>
    BY <1>2, <1>5, <2>1
  <2> QED
    BY <1>13, <2>2 DEF StreamsInv, NoWordIsLost
<1> QED
  BY <1>1, <1>7, <1>8, <1>11, <1>12, <1>15, <1>16
     DEF StreamsInv, UnderWay, Over, NoWordIsLost

\* A stream that breaks off: an error frame and nothing else.
LEMMA FailedKeeps ==
    ASSUME StreamsInv, Failed
    PROVE  StreamsInv'
<1>1. /\ upstream = "open" /\ upstream' = "failed"
      /\ UNCHANGED <<think_open, carry, full_text, openai, saved, lines, thinking,
                     content, late>>
  BY DEF Failed
<1>2. anthropic \in Streaming /\ saved.kind = "none" /\ openai.done = FALSE
  BY <1>1 DEF StreamsInv, UnderWay
<1>3. anthropic \in AnthropicState /\ anthropic.block_index \in Nat
  BY <1>2 DEF Streaming, AnthropicState
<1>4. Frames!error_frame(anthropic.reader) = anthropic.reader
  <2>1. /\ Frames!error_frame(Reading(anthropic.block_index, TRUE))
               = Reading(anthropic.block_index, TRUE)
        /\ Frames!error_frame(Reading(anthropic.block_index, FALSE))
               = Reading(anthropic.block_index, FALSE)
    BY <1>3, ReaderSteps
  <2> QED
    BY <1>2, <2>1 DEF Streaming, InOrder
<1>5. anthropic' = [anthropic EXCEPT !.reader = anthropic.reader]
  BY <1>4 DEF Failed
<1>6. anthropic' = anthropic
  BY <1>3, <1>5 DEF AnthropicState
<1> QED
  BY <1>1, <1>2, <1>6 DEF StreamsInv, StreamsTypeOK, UnderWay, Over, NoWordIsLost

\* The client leaves.
LEMMA ClientGoneKeeps ==
    ASSUME StreamsInv, ClientGone
    PROVE  StreamsInv'
BY DEF ClientGone, StreamsInv, StreamsTypeOK, UnderWay, Over, NoWordIsLost

\* No step disturbs the invariant.
LEMMA StreamsStepKeeps ==
    StreamsInv /\ [Next]_vars => StreamsInv'
<1> SUFFICES ASSUME StreamsInv, [Next]_vars PROVE StreamsInv'
  OBVIOUS
<1>1. ASSUME NEW piece \in Pieces, ThinkFragment(piece) PROVE StreamsInv'
  BY <1>1, ThinkFragmentKeeps
<1>2. ASSUME NEW piece \in Pieces, ResponseFragment(piece) PROVE StreamsInv'
  BY <1>2, ResponseFragmentKeeps
<1>3. ASSUME NEW piece \in Pieces, MoreText(piece) PROVE StreamsInv'
  BY <1>3, MoreTextKeeps
<1>4. CASE Finished
  BY <1>4, FinishedKeeps
<1>5. CASE Failed
  BY <1>5, FailedKeeps
<1>6. CASE ClientGone
  BY <1>6, ClientGoneKeeps
<1>7. CASE UNCHANGED vars
  BY <1>7 DEF vars, StreamsInv, StreamsTypeOK, UnderWay, Over, NoWordIsLost
<1> QED
  BY <1>1, <1>2, <1>3, <1>4, <1>5, <1>6, <1>7 DEF Next

-----------------------------------------------------------------------------
\* Whatever the model says and wherever it is cut, the invariant holds.
THEOREM StreamsInvariance == Spec => []StreamsInv
<1> QED
  BY StreamsInitEstablishes, StreamsStepKeeps, PTL DEF Spec

\* The variables of the encoders hold what the code can put there.
THEOREM StreamsTypeCorrect == Spec => []StreamsTypeOK
<1>1. StreamsInv => StreamsTypeOK
  BY DEF StreamsInv
<1> QED
  BY <1>1, StreamsInvariance, PTL

\* The frames of an Anthropic stream (stream_anthropic_response) are in order
\* at every moment, for every text and every cut, and a finished stream is one
\* a strict reader accepts.
THEOREM FramesInOrder == Spec => []BlocksWellFormed
<1>1. StreamsInv => BlocksWellFormed
  <2> SUFFICES ASSUME StreamsInv PROVE BlocksWellFormed
    OBVIOUS
  <2>1. CASE upstream = "finished"
    BY <2>1 DEF StreamsInv, Over, Ended, BlocksWellFormed
  <2>2. CASE upstream # "finished"
    BY <2>2, EncodersTyped DEF StreamsInv, UnderWay, BlocksWellFormed
  <2> QED
    BY <2>1, <2>2
<1> QED
  BY <1>1, StreamsInvariance, PTL

\* A stream that broke off looks complete neither to a client nor to the
\* session cache, and a chat is dropped only behind an answer without a word.
THEOREM BrokenOffIsNotOver == Spec => []FailureIsNotAnEnd
<1>1. StreamsInv => FailureIsNotAnEnd
  <2> SUFFICES ASSUME StreamsInv PROVE FailureIsNotAnEnd
    OBVIOUS
  <2>1. saved.kind = "dropped" => thinking = <<>> /\ content = <<>>
    <3>1. <<>> \o <<>> = <<>>
      OBVIOUS
    <3> QED
      BY <3>1 DEF StreamsInv, NoWordIsLost
  <2>2. CASE upstream = "finished"
    BY <2>1, <2>2 DEF StreamsInv, Over, Ended, FailureIsNotAnEnd
  <2>3. CASE upstream # "finished"
    BY <2>1, <2>3, EncodersTyped DEF StreamsInv, UnderWay, FailureIsNotAnEnd
  <2> QED
    BY <2>2, <2>3
<1> QED
  BY <1>1, StreamsInvariance, PTL

-----------------------------------------------------------------------------
(***************************************************************************)
(* What the operators of TaggedText make of two texts put together.  A     *)
(* lemma about a recursive one exhibits the function it is evaluated by.   *)
(***************************************************************************)

\* Select() is evaluated by any function that picks the marks.
LEMMA SelectIs ==
    ASSUME NEW text \in Text, NEW places, NEW h, Picks(h, text, places)
    PROVE  Select(text, places) = h[Len(text)]
<1>1. PICK g : Picks(g, text, places) /\ Select(text, places) = g[Len(text)]
  BY SelectPicks
<1> DEFINE n == Len(text)
           P == {k \in 0 .. n : g[k] = h[k]}
<1>2. n \in Nat
  BY MarksOf
<1>3. 0 \in P
  BY <1>1, <1>2 DEF Picks
<1>4. ASSUME NEW k \in 1 .. n, k - 1 \in P
      PROVE  k \in P
  <2>1. k \in 0 .. n /\ g[k - 1] = h[k - 1]
    BY <1>2, <1>4
  <2>2. /\ g[k] = g[k - 1] \o Taken(text, places, k)
        /\ h[k] = h[k - 1] \o Taken(text, places, k)
    BY <1>1 DEF Picks
  <2> QED
    BY <2>1, <2>2
<1>5. P \in SUBSET (0 .. n)
  OBVIOUS
<1> HIDE DEF P
<1>6. P = 0 .. n
  BY <1>2, <1>3, <1>4, <1>5, UpTo
<1> QED
  BY <1>1, <1>2, <1>6 DEF P

\* A choice of all places is the text.
LEMMA SelectAll ==
    ASSUME NEW text \in Text, NEW places, 1 .. Len(text) \subseteq places
    PROVE  Select(text, places) = text
<1> DEFINE n == Len(text)
           h == [i \in 0 .. n |-> SubSeq(text, 1, i)]
<1>1. n \in Nat /\ text \in Seq(Marks) /\ SubSeq(text, 1, n) = text
  BY MarksOf, SubSeqFull DEF Text
<1>2. ASSUME NEW i \in 0 .. n
      PROVE  SubSeq(text, 1, i) \in Text
  BY <1>1, SubSeqProperties DEF Text
<1>3. h \in [0 .. n -> Text]
  BY <1>2
<1>4. h[0] = <<>>
  <2>1. h[0] = SubSeq(text, 1, 0) /\ SubSeq(text, 1, 0) \in Text
    BY <1>1, <1>2
  <2>2. Len(SubSeq(text, 1, 0)) = 0
    BY <1>1, SubSeqProperties
  <2> QED
    BY <2>1, <2>2, MarksOf
<1>5. ASSUME NEW i \in 1 .. n
      PROVE  h[i] = h[i - 1] \o Taken(text, places, i)
  <2>1. i \in 0 .. n /\ i - 1 \in 0 .. n /\ 1 \in 1 .. n /\ i \in 1 .. n
    BY <1>1
  <2>2. h[i] = SubSeq(text, 1, i) /\ h[i - 1] = SubSeq(text, 1, i - 1)
    BY <2>1
  <2>3. SubSeq(text, 1, i) = SubSeq(text, 1, i - 1) \o <<text[i]>>
    BY <1>1, <2>1, SubSeqRecursiveSecond
  <2> QED
    BY <2>2, <2>3 DEF Taken
<1>6. Picks(h, text, places)
  BY <1>3, <1>4, <1>5 DEF Picks
<1>7. h[n] = text
  BY <1>1
<1> HIDE DEF h
<1> QED
  BY <1>6, <1>7, SelectIs

\* A choice of no place is nothing.
LEMMA SelectNone ==
    ASSUME NEW text \in Text, NEW places, \A i \in 1 .. Len(text) : i \notin places
    PROVE  Select(text, places) = <<>>
<1> DEFINE n == Len(text)
           h == [i \in 0 .. n |-> <<>>]
<1>1. n \in Nat /\ <<>> \in Text /\ <<>> \o <<>> = <<>>
  BY MarksOf, ShortTexts
<1>2. h \in [0 .. n -> Text] /\ h[0] = <<>> /\ h[n] = <<>>
  BY <1>1
<1>3. ASSUME NEW i \in 1 .. n
      PROVE  h[i] = h[i - 1] \o Taken(text, places, i)
  <2>1. h[i] = <<>> /\ h[i - 1] = <<>>
    BY <1>1
  <2> QED
    BY <1>1, <2>1 DEF Taken
<1>4. Picks(h, text, places)
  BY <1>2, <1>3 DEF Picks
<1> HIDE DEF h
<1> QED
  BY <1>2, <1>4, SelectIs

\* A choice from two texts is made in each of them.
LEMMA SelectJoined ==
    ASSUME NEW s \in Text, NEW t \in Text, NEW p, NEW q, NEW r,
           \A i \in 1 .. Len(s) : i \in p <=> i \in q,
           \A i \in 1 .. Len(t) : Len(s) + i \in p <=> i \in r
    PROVE  Select(s \o t, p) = Select(s, q) \o Select(t, r)
<1> DEFINE n == Len(s)
           m == Len(t)
           w == s \o t
<1>1. /\ w \in Text /\ n \in Nat /\ m \in Nat /\ Len(w) = n + m
      /\ \A i \in 1 .. n : w[i] = s[i]
      /\ \A i \in 1 .. m : w[n + i] = t[i]
  BY Joined
<1>2. PICK g : Picks(g, s, q) /\ Select(s, q) = g[n]
  BY SelectPicks
<1>3. PICK f : Picks(f, t, r) /\ Select(t, r) = f[m]
  BY SelectPicks
<1> HIDE DEF n, m, w
<1>4. /\ g \in [0 .. n -> Text] /\ g[0] = <<>> /\ f \in [0 .. m -> Text] /\ f[0] = <<>>
      /\ \A i \in 1 .. n : g[i] = g[i - 1] \o Taken(s, q, i)
      /\ \A i \in 1 .. m : f[i] = f[i - 1] \o Taken(t, r, i)
  BY <1>2, <1>3 DEF Picks, n, m
<1> DEFINE h == [i \in 0 .. n + m |-> IF i <= n THEN g[i] ELSE g[n] \o f[i - n]]
<1>5. n \in 0 .. n /\ g[n] \in Text
  BY <1>1, <1>4
<1>6. h \in [0 .. n + m -> Text]
  <2>1. ASSUME NEW i \in 0 .. n + m
        PROVE  (IF i <= n THEN g[i] ELSE g[n] \o f[i - n]) \in Text
    <3>1. CASE i <= n
      <4>1. i \in 0 .. n
        BY <1>1, <3>1
      <4> QED
        BY <1>4, <3>1, <4>1
    <3>2. CASE ~(i <= n)
      <4>1. i - n \in 0 .. m
        BY <1>1, <3>2
      <4>2. f[i - n] \in Text
        BY <1>4, <4>1
      <4>3. g[n] \o f[i - n] \in Text
        BY <1>5, <4>2, Joined
      <4> QED
        BY <3>2, <4>3
    <3> QED
      BY <3>1, <3>2
  <2> QED
    BY <2>1
<1>7. h[0] = <<>>
  BY <1>1, <1>4
<1>8. ASSUME NEW i \in 1 .. n + m
      PROVE  h[i] = h[i - 1] \o Taken(w, p, i)
  <2>1. i \in 0 .. n + m /\ i - 1 \in 0 .. n + m
    BY <1>1
  <2>2. CASE i <= n
    <3>1. i \in 1 .. n /\ i - 1 <= n
      BY <1>1, <2>2
    <3>2. h[i] = g[i] /\ h[i - 1] = g[i - 1]
      BY <2>1, <2>2, <3>1
    <3>3. Taken(w, p, i) = Taken(s, q, i)
      BY <1>1, <3>1 DEF Taken, n
    <3> QED
      BY <1>4, <3>1, <3>2, <3>3
  <2>3. CASE ~(i <= n)
    <3>1. i - n \in 1 .. m /\ (i - n) - 1 = (i - 1) - n /\ n + (i - n) = i
          /\ i - n \in 0 .. m /\ (i - n) - 1 \in 0 .. m
      BY <1>1, <2>3
    <3>2. Taken(w, p, i) = Taken(t, r, i - n)
      <4>1. w[n + (i - n)] = t[i - n] /\ (n + (i - n) \in p <=> i - n \in r)
        BY <1>1, <3>1 DEF n, m
      <4> QED
        BY <3>1, <4>1 DEF Taken
    <3>3. h[i - 1] = g[n] \o f[(i - n) - 1]
      <4>1. CASE i - 1 <= n
        <5>1. i - 1 = n /\ (i - n) - 1 = 0
          BY <1>1, <2>3, <4>1
        <5>2. g[n] \o <<>> = g[n]
          BY <1>5, Joined
        <5> QED
          BY <1>4, <2>1, <4>1, <5>1, <5>2
      <4>2. CASE ~(i - 1 <= n)
        BY <2>1, <3>1, <4>2
      <4> QED
        BY <4>1, <4>2
    <3>4. h[i] = g[n] \o f[i - n]
      BY <2>1, <2>3
    <3>5. f[i - n] = f[(i - n) - 1] \o Taken(t, r, i - n)
      BY <1>4, <3>1
    <3>6. f[(i - n) - 1] \in Text /\ Taken(t, r, i - n) \in Text
      BY <1>4, <3>1, TakenIsText DEF m
    <3>7. (g[n] \o f[(i - n) - 1]) \o Taken(t, r, i - n)
             = g[n] \o (f[(i - n) - 1] \o Taken(t, r, i - n))
      BY <1>5, <3>6, Associates, Zenon
    <3> QED
      BY <3>2, <3>3, <3>4, <3>5, <3>7
  <2> QED
    BY <2>2, <2>3
<1>9. h[n + m] = g[n] \o f[m]
  <2>1. n + m \in 0 .. n + m /\ (n + m) - n = m
    BY <1>1
  <2>2. CASE m = 0
    <3>1. g[n] \o <<>> = g[n] /\ n + m = n /\ n + m <= n
      BY <1>1, <1>5, <2>2, Joined
    <3> QED
      BY <1>4, <2>1, <2>2, <3>1
  <2>3. CASE m # 0
    <3>1. ~(n + m <= n)
      BY <1>1, <2>3
    <3> QED
      BY <2>1, <3>1
  <2> QED
    BY <2>2, <2>3
<1>10. Picks(h, w, p)
  <2> HIDE DEF h
  <2> QED
    BY <1>1, <1>6, <1>7, <1>8 DEF Picks
<1>11. Select(w, p) = h[Len(w)]
  <2> HIDE DEF h
  <2> QED
    BY <1>1, <1>10, SelectIs
<1> HIDE DEF h
<1> QED
  BY <1>1, <1>2, <1>3, <1>9, <1>11 DEF w

\* feed() is evaluated by any function that reads the chunk.
LEMMA FeedIs ==
    ASSUME NEW parser \in Parser, NEW chunk \in Text, NEW h, Reads(h, parser, chunk)
    PROVE  feed(parser, chunk) = h[Len(chunk)]
<1>1. PICK g : Reads(g, parser, chunk) /\ feed(parser, chunk) = g[Len(chunk)]
  BY FeedReads
<1> DEFINE n == Len(chunk)
           P == {k \in 0 .. n : g[k] = h[k]}
<1>2. n \in Nat
  BY MarksOf
<1>3. 0 \in P
  BY <1>1, <1>2 DEF Reads
<1>4. ASSUME NEW k \in 1 .. n, k - 1 \in P
      PROVE  k \in P
  <2>1. k \in 0 .. n /\ g[k - 1] = h[k - 1]
    BY <1>2, <1>4
  <2>2. g[k] = ReadMark(g[k - 1], chunk[k]) /\ h[k] = ReadMark(h[k - 1], chunk[k])
    BY <1>1 DEF Reads
  <2> QED
    BY <2>1, <2>2
<1>5. P \in SUBSET (0 .. n)
  OBVIOUS
<1> HIDE DEF P
<1>6. P = 0 .. n
  BY <1>2, <1>3, <1>4, <1>5, UpTo
<1> QED
  BY <1>1, <1>2, <1>6 DEF P

\* What the parser does with a mark depends on its state, not on the text that
\* it has passed on.
LEMMA ReadMarkAdds ==
    ASSUME NEW p \in Parser, NEW x \in Text, NEW y \in Text, NEW mark \in Marks
    PROVE  \E q \in Parser, z \in Text :
              /\ ReadMark([parser |-> p, text |-> y], mark) = [parser |-> q, text |-> z]
              /\ ReadMark([parser |-> p, text |-> x \o y], mark)
                     = [parser |-> q, text |-> x \o z]
<1> DEFINE pending == IF p.held /\ ~p.in_tool THEN <<"<">> ELSE <<>>
           tail == IF mark = "<" THEN <<>> ELSE <<mark>>
           after(in_tool) == [in_tool |-> in_tool, held |-> mark = "<"]
           inside == p.in_tool
           begins == ~p.in_tool /\ p.held /\ mark = "tool_call>"
<1>1. \A b \in BOOLEAN : after(b) \in Parser
  BY DEF Parser
<1>2. CASE inside
  <2>1. PICK ends \in BOOLEAN : ends = ~(p.held /\ mark = "/tool_call>")
    OBVIOUS
  <2>2. /\ ReadMark([parser |-> p, text |-> y], mark)
               = [parser |-> after(ends), text |-> y]
        /\ ReadMark([parser |-> p, text |-> x \o y], mark)
               = [parser |-> after(ends), text |-> x \o y]
    BY <1>2, <2>1 DEF ReadMark
  <2> HIDE DEF after
  <2> QED
    BY <1>1, <2>2
<1>3. CASE begins
  <2>1. /\ ReadMark([parser |-> p, text |-> y], mark)
               = [parser |-> after(TRUE), text |-> y]
        /\ ReadMark([parser |-> p, text |-> x \o y], mark)
               = [parser |-> after(TRUE), text |-> x \o y]
    BY <1>3 DEF ReadMark
  <2> HIDE DEF after
  <2> QED
    BY <1>1, <2>1
<1>4. CASE ~inside /\ ~begins
  <2>1. /\ ReadMark([parser |-> p, text |-> y], mark)
               = [parser |-> after(FALSE), text |-> y \o pending \o tail]
        /\ ReadMark([parser |-> p, text |-> x \o y], mark)
               = [parser |-> after(FALSE), text |-> (x \o y) \o pending \o tail]
    BY <1>4 DEF ReadMark
  <2>2. pending \in Text /\ tail \in Text
    BY ShortTexts
  <2> HIDE DEF pending, tail, after
  <2>3. y \o pending \in Text /\ (y \o pending) \o tail \in Text
    BY <2>2, Joined
  <2>4. (x \o y) \o pending \o tail = x \o (y \o pending \o tail)
    <3>1. (x \o y) \o pending = x \o (y \o pending)
      BY <2>2, Associates, Zenon
    <3>2. (x \o (y \o pending)) \o tail = x \o ((y \o pending) \o tail)
      BY <2>2, <2>3, Associates, Zenon
    <3> QED
      BY <3>1, <3>2, Zenon
  <2>5. after(FALSE) \in Parser
    BY <1>1
  <2> QED
    BY <2>1, <2>3, <2>4, <2>5
<1> QED
  BY <1>2, <1>3, <1>4

\* Nothing is made of no chunk.
LEMMA FeedNone ==
    ASSUME NEW p \in Parser
    PROVE  feed(p, <<>>) = NewRun(p)
<1> DEFINE h == [k \in 0 .. 0 |-> NewRun(p)]
<1>1. <<>> \in Text /\ Len(<<>>) = 0 /\ 1 .. 0 = {} /\ NewRun(p) \in Runs
  BY ShortTexts, NewRunIsRun
<1>2. Reads(h, p, <<>>)
  BY <1>1 DEF Reads
<1>3. feed(p, <<>>) = h[0]
  <2> HIDE DEF h
  <2> QED
    BY <1>1, <1>2, FeedIs
<1> QED
  BY <1>3

\* Where a text is cut makes no difference to the parser.
LEMMA FeedJoined ==
    ASSUME NEW p \in Parser, NEW s \in Text, NEW t \in Text
    PROVE  LET first  == feed(p, s)
               second == feed(first.parser, t)
           IN  /\ feed(p, s \o t).parser = second.parser
               /\ feed(p, s \o t).text = first.text \o second.text
<1> DEFINE n == Len(s)
           m == Len(t)
           w == s \o t
           first == feed(p, s)
<1>1. /\ w \in Text /\ n \in Nat /\ m \in Nat /\ Len(w) = n + m
      /\ \A i \in 1 .. n : w[i] = s[i]
      /\ \A i \in 1 .. m : w[n + i] = t[i] /\ t[i] \in Marks
  BY Joined, MarksOf
<1>2. PICK g : Reads(g, p, s) /\ first = g[n]
  BY FeedReads
<1>3. first.parser \in Parser /\ first.text \in Text
  BY FeedTyped
<1> HIDE DEF first
<1>4. PICK f : Reads(f, first.parser, t) /\ feed(first.parser, t) = f[m]
  BY <1>3, FeedReads
<1> HIDE DEF n, m, w
<1>5. /\ g \in [0 .. n -> Runs] /\ g[0] = NewRun(p)
      /\ \A k \in 1 .. n : g[k] = ReadMark(g[k - 1], s[k])
      /\ f \in [0 .. m -> Runs] /\ f[0] = NewRun(first.parser)
      /\ \A k \in 1 .. m : f[k] = ReadMark(f[k - 1], t[k])
  BY <1>2, <1>4 DEF Reads, n, m
<1> DEFINE Behind(k) == [parser |-> f[k].parser, text |-> first.text \o f[k].text]
           h == [k \in 0 .. n + m |-> IF k <= n THEN g[k] ELSE Behind(k - n)]
<1>6. \A k \in 0 .. m : Behind(k) \in Runs
  <2>1. \A x, y \in Text : x \o y \in Text
    BY Joined
  <2> QED
    BY <1>3, <1>5, <2>1 DEF Runs
<1>7. Behind(0) = first
  <2>1. f[0].parser = first.parser /\ f[0].text = <<>>
    BY <1>5 DEF NewRun
  <2>2. first.text \o <<>> = first.text
    BY <1>3, Joined
  <2>3. first \in Runs
    BY <1>1, <1>2, <1>5
  <2> QED
    BY <2>1, <2>2, <2>3 DEF Runs
<1>8. ASSUME NEW k \in 1 .. m
      PROVE  Behind(k) = ReadMark(Behind(k - 1), t[k])
  <2>1. PICK q \in Parser, y \in Text : f[k - 1] = [parser |-> q, text |-> y]
    <3>1. k - 1 \in 0 .. m
      BY <1>1
    <3> QED
      BY <1>5, <3>1 DEF Runs
  <2>2. f[k] = ReadMark([parser |-> q, text |-> y], t[k])
    BY <1>5, <2>1
  <2>3. PICK q2 \in Parser, z \in Text :
           /\ ReadMark([parser |-> q, text |-> y], t[k]) = [parser |-> q2, text |-> z]
           /\ ReadMark([parser |-> q, text |-> first.text \o y], t[k])
                  = [parser |-> q2, text |-> first.text \o z]
    <3>1. PICK mark \in Marks, heard \in Text : mark = t[k] /\ heard = first.text
      BY <1>1, <1>3
    <3>2. \E q2 \in Parser, z \in Text :
             /\ ReadMark([parser |-> q, text |-> y], mark) = [parser |-> q2, text |-> z]
             /\ ReadMark([parser |-> q, text |-> heard \o y], mark)
                    = [parser |-> q2, text |-> heard \o z]
      BY ReadMarkAdds
    <3> QED
      BY <3>1, <3>2
  <2>4. f[k] = [parser |-> q2, text |-> z]
    BY <2>2, <2>3
  <2>5. Behind(k) = [parser |-> q2, text |-> first.text \o z]
    BY <2>4
  <2>6. Behind(k - 1) = [parser |-> q, text |-> first.text \o y]
    BY <2>1
  <2> QED
    BY <2>3, <2>5, <2>6, Zenon
<1> HIDE DEF Behind
<1>9. h \in [0 .. n + m -> Runs]
  <2>1. ASSUME NEW k \in 0 .. n + m
        PROVE  (IF k <= n THEN g[k] ELSE Behind(k - n)) \in Runs
    <3>1. k <= n => k \in 0 .. n
      BY <1>1
    <3>2. ~(k <= n) => k - n \in 0 .. m
      BY <1>1
    <3> QED
      BY <1>5, <1>6, <3>1, <3>2
  <2> QED
    BY <2>1
<1>10. h[0] = NewRun(p)
  BY <1>1, <1>5
<1>11. ASSUME NEW k \in 1 .. n + m
       PROVE  h[k] = ReadMark(h[k - 1], w[k])
  <2>1. k \in 0 .. n + m /\ k - 1 \in 0 .. n + m
    BY <1>1
  <2>2. CASE k <= n
    <3>1. k \in 1 .. n /\ k - 1 <= n
      BY <1>1, <2>2
    <3>2. h[k] = g[k] /\ h[k - 1] = g[k - 1]
      BY <2>1, <2>2, <3>1
    <3> QED
      BY <1>1, <1>5, <3>1, <3>2
  <2>3. CASE ~(k <= n)
    <3>1. k - n \in 1 .. m /\ n + (k - n) = k
      BY <1>1, <2>3
    <3>2. w[k] = t[k - n]
      BY <1>1, <3>1
    <3>3. h[k] = Behind(k - n)
      BY <2>1, <2>3
    <3>4. h[k - 1] = Behind((k - n) - 1)
      <4>1. CASE k - 1 <= n
        <5>1. k - 1 = n /\ (k - n) - 1 = 0
          BY <1>1, <2>3, <4>1
        <5> QED
          BY <1>2, <1>7, <2>1, <4>1, <5>1
      <4>2. CASE ~(k - 1 <= n)
        <5>1. (k - 1) - n = (k - n) - 1
          BY <1>1
        <5> QED
          BY <2>1, <4>2, <5>1
      <4> QED
        BY <4>1, <4>2
    <3> QED
      BY <1>8, <3>1, <3>2, <3>3, <3>4
  <2> QED
    BY <2>2, <2>3
<1>12. h[n + m] = Behind(m)
  <2>1. n + m \in 0 .. n + m /\ (n + m) - n = m
    BY <1>1
  <2>2. CASE m = 0
    <3>1. n + m = n /\ n + m <= n
      BY <1>1, <2>2
    <3> QED
      BY <1>2, <1>7, <2>1, <2>2, <3>1
  <2>3. CASE m # 0
    <3>1. ~(n + m <= n)
      BY <1>1, <2>3
    <3> QED
      BY <2>1, <3>1
  <2> QED
    BY <2>2, <2>3
<1>13. feed(p, w) = h[Len(w)]
  <2> HIDE DEF h
  <2>1. Reads(h, p, w)
    BY <1>1, <1>9, <1>10, <1>11 DEF Reads
  <2> QED
    BY <1>1, <2>1, FeedIs
<1>14. feed(p, w) = Behind(m)
  <2> HIDE DEF h
  <2> QED
    BY <1>1, <1>12, <1>13
<1>15. /\ feed(p, w).parser = feed(first.parser, t).parser
       /\ feed(p, w).text = first.text \o feed(first.parser, t).text
  <2>1. feed(p, w) = [parser |-> f[m].parser, text |-> first.text \o f[m].text]
    BY <1>14 DEF Behind
  <2>2. /\ feed(p, w).parser = f[m].parser
        /\ feed(p, w).text = first.text \o f[m].text
    <3> DEFINE a == f[m].parser
               b == first.text \o f[m].text
    <3>1. feed(p, w) = [parser |-> a, text |-> b]
      BY <2>1
    <3> HIDE DEF a, b
    <3>2. feed(p, w).parser = a /\ feed(p, w).text = b
      BY <3>1
    <3> QED
      BY <3>2 DEF a, b
  <2> QED
    BY <1>4, <2>2, Zenon
<1> QED
  BY <1>15 DEF w, first

\* A mark outside a call is passed on, after what was held back; one inside is
\* dropped.
LEMMA ReadMarkCases ==
    ASSUME NEW run \in Runs, NEW mark \in Marks, NEW r, r = ReadMark(run, mark)
    PROVE  /\ r.parser.held <=> mark = "<"
           /\ run.parser.in_tool =>
                 /\ r.text = run.text
                 /\ r.parser.in_tool <=> ~(run.parser.held /\ mark = "/tool_call>")
           /\ ~run.parser.in_tool /\ run.parser.held /\ mark = "tool_call>" =>
                 r.text = run.text /\ r.parser.in_tool
           /\ ~run.parser.in_tool /\ ~(run.parser.held /\ mark = "tool_call>") =>
                 /\ ~r.parser.in_tool
                 /\ r.text = run.text \o (IF run.parser.held THEN <<"<">> ELSE <<>>)
                                      \o (IF mark = "<" THEN <<>> ELSE <<mark>>)
<1>1. PICK p \in Parser, x \in Text : run = [parser |-> p, text |-> x]
  BY DEF Runs
<1>2. PICK inside \in BOOLEAN, holds \in BOOLEAN : p = [in_tool |-> inside, held |-> holds]
  BY DEF Parser
<1>3. PICK starts \in BOOLEAN : starts = (mark = "<")
  OBVIOUS
<1>4. PICK stays \in BOOLEAN : stays = ~(holds /\ mark = "/tool_call>")
  OBVIOUS
<1>5. run.parser.in_tool = inside /\ run.parser.held = holds /\ run.text = x
  BY <1>1, <1>2
<1>6. CASE inside
  <2>1. r = [run EXCEPT !.parser = [in_tool |-> ~(run.parser.held /\ mark = "/tool_call>"),
                                    held |-> mark = "<"]]
    BY <1>5, <1>6 DEF ReadMark
  <2>2. r = [parser |-> [in_tool |-> stays, held |-> starts], text |-> x]
    BY <1>1, <1>3, <1>4, <1>5, <2>1
  <2>3. r.parser.held = starts /\ r.parser.in_tool = stays /\ r.text = x
    BY <2>2
  <2> QED
    BY <1>3, <1>4, <1>5, <1>6, <2>3
<1>7. CASE ~inside /\ holds /\ mark = "tool_call>"
  <2>1. r = [run EXCEPT !.parser = [in_tool |-> TRUE, held |-> mark = "<"]]
    BY <1>5, <1>7 DEF ReadMark
  <2>2. r = [parser |-> [in_tool |-> TRUE, held |-> starts], text |-> x]
    BY <1>1, <1>3, <2>1
  <2>3. r.parser.held = starts /\ r.parser.in_tool = TRUE /\ r.text = x
    BY <2>2
  <2> QED
    BY <1>3, <1>5, <1>7, <2>3
<1>8. CASE ~inside /\ ~(holds /\ mark = "tool_call>")
  <2> DEFINE pending == IF run.parser.held THEN <<"<">> ELSE <<>>
             tail == IF mark = "<" THEN <<>> ELSE <<mark>>
             text == x \o pending \o tail
  <2>1. (IF run.parser.held /\ ~run.parser.in_tool THEN <<"<">> ELSE <<>>) = pending
    BY <1>5, <1>8
  <2>2. r = [parser |-> [in_tool |-> FALSE, held |-> mark = "<"],
             text |-> run.text
                        \o (IF run.parser.held /\ ~run.parser.in_tool THEN <<"<">> ELSE <<>>)
                        \o tail]
    BY <1>5, <1>8 DEF ReadMark
  <2>3. r = [parser |-> [in_tool |-> FALSE, held |-> starts], text |-> text]
    <3> HIDE DEF pending, tail
    <3> QED
      BY <1>3, <1>5, <2>1, <2>2
  <2>4. r.parser.held = starts /\ r.parser.in_tool = FALSE /\ r.text = text
    <3> HIDE DEF text
    <3> QED
      BY <2>3
  <2>5. r.text = run.text \o pending \o tail
    BY <1>5, <2>4
  <2> HIDE DEF text
  <2> QED
    BY <1>3, <1>5, <1>8, <2>4, <2>5
<1> QED
  BY <1>5, <1>6, <1>7, <1>8

\* What a text says besides its calls, and what the parser passes on of it
\* once it is flushed, are the same.
LEMMA SpokenIsFed ==
    ASSUME NEW t \in Text
    PROVE  Spoken(t) = feed(NewParser, t).text \o flush(feed(NewParser, t).parser)
<1> DEFINE n == Len(t)
           opens == Tags(t, "tool_call>")
           closes == Tags(t, "/tool_call>")
           Gone(i) == \E o \in opens : o <= i /\ \A c \in closes : c > o => c + 1 >= i
           Inside(k) == \E o \in opens : o + 1 <= k /\ \A c \in closes : c > o => c + 1 > k
           Holding(k) == k >= 1 /\ t[k] = "<"
           D == {i \in 1 .. n : ~InSpan(t, opens, closes, TRUE, i)}
<1>1. /\ n \in Nat
      /\ \A i \in 1 .. n : t[i] \in Marks
      /\ \A o \in opens : o \in Nat /\ o >= 1 /\ o + 1 <= n /\ t[o] = "<" /\ t[o + 1] = "tool_call>"
      /\ \A c \in closes : c \in Nat /\ c >= 1 /\ c + 1 <= n /\ t[c] = "<" /\ t[c + 1] = "/tool_call>"
      /\ \A i \in Nat : i >= 1 /\ i + 1 <= n /\ t[i] = "<" /\ t[i + 1] = "tool_call>" => i \in opens
      /\ \A i \in Nat : i >= 1 /\ i + 1 <= n /\ t[i] = "<" /\ t[i + 1] = "/tool_call>" => i \in closes
  BY MarksOf DEF Tags
<1>2. NewParser \in Parser
  BY DEF NewParser, Parser
<1>3. PICK g : Reads(g, NewParser, t) /\ feed(NewParser, t) = g[n]
  BY <1>2, FeedReads
<1>4. PICK h : Picks(h, t, D) /\ Select(t, D) = h[n]
  BY SelectPicks
<1>5. Spoken(t) = h[n]
  BY <1>4 DEF Spoken, RemoveSpans
<1>6. \A i \in 1 .. n : i \in D <=> ~Gone(i)
  BY DEF InSpan
<1> HIDE DEF D, n, opens, closes
<1>7. /\ g \in [0 .. n -> Runs] /\ g[0] = NewRun(NewParser)
      /\ \A k \in 1 .. n : g[k] = ReadMark(g[k - 1], t[k])
      /\ h \in [0 .. n -> Text] /\ h[0] = <<>>
      /\ \A k \in 1 .. n : h[k] = h[k - 1] \o Taken(t, D, k)
  BY <1>3, <1>4 DEF Reads, Picks, n
<1>8. ASSUME NEW k \in 1 .. n
      PROVE  /\ Inside(k - 1) => Gone(k)
             /\ Inside(k - 1) =>
                   (Inside(k) <=> ~(Holding(k - 1) /\ t[k] = "/tool_call>"))
             /\ Holding(k - 1) /\ t[k] = "tool_call>" => Gone(k - 1) /\ Gone(k) /\ Inside(k)
             /\ ~Inside(k - 1) /\ ~(Holding(k - 1) /\ t[k] = "tool_call>") =>
                   /\ ~Inside(k)
                   /\ t[k] # "<" => ~Gone(k)
                   /\ Holding(k - 1) => ~Gone(k - 1)
  <2>1. k \in Nat /\ k >= 1 /\ k <= n /\ k - 1 \in Nat /\ (k - 1) + 1 = k
    BY <1>1
  <2>2. ASSUME Inside(k - 1) PROVE Gone(k)
    BY <1>1, <2>1, <2>2
  <2>3. ASSUME Inside(k - 1), Holding(k - 1), t[k] = "/tool_call>" PROVE ~Inside(k)
    <3>1. k - 1 \in closes
      BY <1>1, <2>1, <2>3
    <3> SUFFICES ASSUME NEW o \in opens, o + 1 <= k, \A c \in closes : c > o => c + 1 > k
                 PROVE  FALSE
      OBVIOUS
    <3>2. o # k - 1
      BY <1>1, <2>1, <2>3
    <3> QED
      BY <1>1, <2>1, <3>1, <3>2
  <2>4. ASSUME Inside(k - 1), ~(Holding(k - 1) /\ t[k] = "/tool_call>") PROVE Inside(k)
    <3>1. PICK o \in opens : o + 1 <= k - 1 /\ \A c \in closes : c > o => c + 1 > k - 1
      BY <2>4
    <3>2. ASSUME NEW c \in closes, c > o PROVE c + 1 > k
      <4>1. c # k - 1
        BY <1>1, <2>1, <2>4
      <4> QED
        BY <1>1, <2>1, <3>1, <3>2, <4>1
    <3> QED
      BY <1>1, <2>1, <3>1, <3>2
  <2>5. ASSUME Holding(k - 1), t[k] = "tool_call>"
        PROVE  Gone(k - 1) /\ Gone(k) /\ Inside(k)
    <3>1. k - 1 \in opens
      BY <1>1, <2>1, <2>5
    <3>2. \A c \in closes : c > k - 1 => c + 1 > k
      BY <1>1, <2>1
    <3> QED
      BY <1>1, <2>1, <3>1, <3>2
  <2>6. ASSUME ~Inside(k - 1), ~(Holding(k - 1) /\ t[k] = "tool_call>")
        PROVE  /\ ~Inside(k)
               /\ t[k] # "<" => ~Gone(k)
               /\ Holding(k - 1) => ~Gone(k - 1)
    <3>1. k - 1 \notin opens
      BY <1>1, <2>1, <2>6
    <3>2. \A o \in opens : o + 1 <= k - 1 => \E c \in closes : c > o /\ c + 1 <= k - 1
      BY <1>1, <2>1, <2>6
    <3>3. \A o \in opens : o <= k - 1 => o + 1 <= k - 1
      BY <1>1, <2>1, <3>1
    <3>4. ~Inside(k)
      BY <1>1, <2>1, <3>2, <3>3
    <3>5. Holding(k - 1) => ~Gone(k - 1)
      <4>1. Holding(k - 1) => \A c \in closes : c + 1 # k - 1
        BY <1>1, <2>1
      <4> QED
        BY <1>1, <2>1, <3>2, <3>3, <4>1
    <3>6. t[k] # "<" => ~Gone(k)
      <4>1. t[k] # "<" => \A o \in opens : o <= k => o <= k - 1
        BY <1>1, <2>1
      <4> QED
        BY <1>1, <2>1, <3>2, <3>3, <4>1
    <3> QED
      BY <3>4, <3>5, <3>6
  <2> QED
    BY <2>2, <2>3, <2>4, <2>5, <2>6
<1>9. ~Inside(n) /\ Holding(n) => n \in 1 .. n /\ ~Gone(n)
  <2> SUFFICES ASSUME ~Inside(n), Holding(n) PROVE n \in 1 .. n /\ ~Gone(n)
    OBVIOUS
  <2>1. \A o \in opens : \E c \in closes : c > o /\ c + 1 <= n
    BY <1>1
  <2>2. \A c \in closes : c + 1 # n
    BY <1>1
  <2> QED
    BY <1>1, <2>1, <2>2
<1>10. ~Inside(0) /\ ~Holding(0)
  BY <1>1
<1> HIDE DEF Gone, Inside, Holding
<1> DEFINE Tells(k) ==
              /\ g[k].parser.held <=> Holding(k)
              /\ g[k].parser.in_tool <=> Inside(k)
              /\ g[k].text = IF Holding(k) /\ ~Inside(k) THEN h[k - 1] ELSE h[k]
           P == {k \in 0 .. n : Tells(k)}
<1>11. 0 \in P
  <2>1. ~g[0].parser.held /\ ~g[0].parser.in_tool /\ g[0].text = h[0]
    BY <1>7 DEF NewRun, NewParser
  <2> QED
    BY <1>1, <1>10, <2>1
<1>12. ASSUME NEW k \in 1 .. n, Tells(k - 1)
       PROVE  Tells(k)
  <2>1. /\ k - 1 \in 0 .. n /\ k \in 0 .. n /\ k \in Nat
        /\ Holding(k) <=> t[k] = "<"
    BY <1>1 DEF Holding
  <2>2. /\ g[k - 1] \in Runs /\ t[k] \in Marks /\ g[k] = ReadMark(g[k - 1], t[k])
        /\ h[k - 1] \in Text /\ h[k] = h[k - 1] \o Taken(t, D, k)
    BY <1>1, <1>7, <2>1
  <2>3. /\ g[k].parser.held <=> t[k] = "<"
        /\ g[k - 1].parser.in_tool =>
              /\ g[k].text = g[k - 1].text
              /\ g[k].parser.in_tool <=> ~(g[k - 1].parser.held /\ t[k] = "/tool_call>")
        /\ ~g[k - 1].parser.in_tool /\ g[k - 1].parser.held /\ t[k] = "tool_call>" =>
              g[k].text = g[k - 1].text /\ g[k].parser.in_tool
        /\ ~g[k - 1].parser.in_tool /\ ~(g[k - 1].parser.held /\ t[k] = "tool_call>") =>
              /\ ~g[k].parser.in_tool
              /\ g[k].text = g[k - 1].text
                                \o (IF g[k - 1].parser.held THEN <<"<">> ELSE <<>>)
                                \o (IF t[k] = "<" THEN <<>> ELSE <<t[k]>>)
    <3> DEFINE before == g[k - 1]
               after == g[k]
               mark == t[k]
    <3>1. before \in Runs /\ mark \in Marks /\ after = ReadMark(before, mark)
      BY <2>2
    <3> HIDE DEF before, after, mark
    <3>2. /\ after.parser.held <=> mark = "<"
          /\ before.parser.in_tool =>
                /\ after.text = before.text
                /\ after.parser.in_tool <=> ~(before.parser.held /\ mark = "/tool_call>")
          /\ ~before.parser.in_tool /\ before.parser.held /\ mark = "tool_call>" =>
                after.text = before.text /\ after.parser.in_tool
          /\ ~before.parser.in_tool /\ ~(before.parser.held /\ mark = "tool_call>") =>
                /\ ~after.parser.in_tool
                /\ after.text = before.text
                                  \o (IF before.parser.held THEN <<"<">> ELSE <<>>)
                                  \o (IF mark = "<" THEN <<>> ELSE <<mark>>)
      BY <3>1, ReadMarkCases
    <3> QED
      BY <3>2 DEF before, after, mark
  <2>4. Gone(k) => h[k] = h[k - 1]
    BY <1>6, <2>2, Joined DEF Taken
  <2>5. ~Gone(k) => h[k] = h[k - 1] \o <<t[k]>>
    BY <1>6, <2>2 DEF Taken
  <2>6. CASE Inside(k - 1)
    <3>1. g[k - 1].text = h[k - 1]
      BY <1>12, <2>6
    <3> QED
      BY <1>8, <1>12, <2>1, <2>3, <2>4, <2>6, <3>1
  <2>7. CASE ~Inside(k - 1) /\ Holding(k - 1)
    <3>1. k - 1 \in 1 .. n /\ t[k - 1] = "<" /\ (k - 1) - 1 \in 0 .. n
      BY <1>1, <2>7 DEF Holding
    <3>2. g[k - 1].text = h[(k - 1) - 1] /\ h[(k - 1) - 1] \in Text
      BY <1>7, <1>12, <2>7, <3>1
    <3>3. h[k - 1] = h[(k - 1) - 1] \o Taken(t, D, k - 1)
      BY <1>7, <3>1
    <3>4. CASE t[k] = "tool_call>"
      <4>1. Gone(k - 1) /\ Gone(k) /\ Inside(k)
        BY <1>8, <2>7, <3>4
      <4>2. h[k - 1] = h[(k - 1) - 1]
        BY <1>6, <3>1, <3>2, <3>3, <4>1, Joined DEF Taken
      <4> QED
        BY <1>12, <2>1, <2>3, <2>4, <2>7, <3>2, <3>4, <4>1, <4>2
    <3>5. CASE t[k] # "tool_call>"
      <4>1. ~Inside(k) /\ ~Gone(k - 1) /\ (t[k] # "<" => ~Gone(k))
        BY <1>8, <2>7, <3>5
      <4>2. h[k - 1] = h[(k - 1) - 1] \o <<"<">>
        BY <1>6, <3>1, <3>3, <4>1 DEF Taken
      <4>3. /\ ~g[k].parser.in_tool
            /\ g[k].text = h[k - 1] \o (IF t[k] = "<" THEN <<>> ELSE <<t[k]>>)
        BY <1>12, <2>3, <2>7, <3>2, <3>5, <4>2
      <4>4. h[k - 1] \o <<>> = h[k - 1]
        BY <2>2, Joined
      <4> QED
        BY <2>1, <2>3, <2>5, <4>1, <4>3, <4>4
    <3> QED
      BY <3>4, <3>5
  <2>8. CASE ~Inside(k - 1) /\ ~Holding(k - 1)
    <3>1. ~Inside(k) /\ (t[k] # "<" => ~Gone(k))
      BY <1>8, <2>8
    <3>2. g[k - 1].text = h[k - 1]
      BY <1>12, <2>8
    <3>3. h[k - 1] \o <<>> = h[k - 1]
      BY <2>2, Joined
    <3>4. /\ ~g[k].parser.in_tool
          /\ g[k].text = h[k - 1] \o (IF t[k] = "<" THEN <<>> ELSE <<t[k]>>)
      <4>1. g[k].text = h[k - 1] \o <<>> \o (IF t[k] = "<" THEN <<>> ELSE <<t[k]>>)
        BY <1>12, <2>3, <2>8, <3>2
      <4> QED
        BY <1>12, <2>3, <2>8, <3>3, <4>1
    <3> QED
      BY <2>1, <2>3, <2>5, <3>1, <3>3, <3>4
  <2> QED
    BY <2>6, <2>7, <2>8
<1>13. P \in SUBSET (0 .. n)
  OBVIOUS
<1>14. \A k \in 1 .. n : k - 1 \in P => k \in P
  <2> HIDE DEF Tells
  <2>1. \A k \in 1 .. n : k \in 0 .. n
    BY <1>1
  <2> QED
    BY <1>12, <2>1
<1> HIDE DEF P, Tells
<1>15. P = 0 .. n
  BY <1>1, <1>11, <1>13, <1>14, UpTo
<1>16. Tells(n)
  BY <1>1, <1>15 DEF P
<1>17. g[n] \in Runs /\ h[n] \in Text
  BY <1>1, <1>7
<1>18. h[n] = g[n].text \o flush(g[n].parser)
  <2>1. CASE Holding(n) /\ ~Inside(n)
    <3>1. n \in 1 .. n /\ ~Gone(n) /\ t[n] = "<"
      BY <1>9, <2>1 DEF Holding
    <3>2. h[n] = h[n - 1] \o <<"<">>
      BY <1>6, <1>7, <3>1 DEF Taken
    <3> QED
      BY <1>16, <2>1, <3>2 DEF Tells, flush
  <2>2. CASE ~(Holding(n) /\ ~Inside(n))
    <3>1. g[n].text = h[n] /\ flush(g[n].parser) = <<>>
      BY <1>16, <2>2 DEF Tells, flush
    <3>2. h[n] \o <<>> = h[n]
      BY <1>17, Joined
    <3> QED
      BY <3>1, <3>2
  <2> QED
    BY <2>1, <2>2
<1> QED
  BY <1>3, <1>5, <1>18

-----------------------------------------------------------------------------
(***************************************************************************)
(* Think tags in a text and in a chunk.                                    *)
(***************************************************************************)

\* A tag of two texts is in one of them, or it is where they meet.
LEMMA TagsJoined ==
    ASSUME NEW t \in Text, NEW w \in Text, NEW name
    PROVE  /\ \A i \in Tags(t, name) : i \in Tags(t \o w, name)
           /\ \A i \in Tags(w, name) : Len(t) + i \in Tags(t \o w, name)
           /\ \A i \in Tags(t \o w, name) :
                 \/ i \in Tags(t, name)
                 \/ i - Len(t) \in Tags(w, name)
                 \/ i = Len(t) /\ t # <<>> /\ t[Len(t)] = "<" /\ w # <<>> /\ w[1] = name
<1> DEFINE n == Len(t)
           m == Len(w)
           u == t \o w
<1>1. /\ u \in Text /\ n \in Nat /\ m \in Nat /\ Len(u) = n + m
      /\ \A i \in 1 .. n : u[i] = t[i]
      /\ \A i \in 1 .. m : u[n + i] = w[i]
      /\ t = <<>> <=> n = 0
      /\ w = <<>> <=> m = 0
  BY Joined, MarksOf
<1> HIDE DEF n, m, u
<1>2. ASSUME NEW i \in Tags(t, name)
      PROVE  i \in Tags(u, name)
  <2>1. i \in 1 .. n - 1 /\ t[i] = "<" /\ t[i + 1] = name
    BY DEF Tags, n
  <2>2. i \in 1 .. n /\ i + 1 \in 1 .. n /\ i \in 1 .. (n + m) - 1
    BY <1>1, <2>1
  <2> QED
    BY <1>1, <2>1, <2>2 DEF Tags
<1>3. ASSUME NEW i \in Tags(w, name)
      PROVE  n + i \in Tags(u, name)
  <2>1. i \in 1 .. m - 1 /\ w[i] = "<" /\ w[i + 1] = name
    BY DEF Tags, m
  <2>2. /\ i \in 1 .. m /\ i + 1 \in 1 .. m /\ n + i \in 1 .. (n + m) - 1
        /\ (n + i) + 1 = n + (i + 1)
    BY <1>1, <2>1
  <2> QED
    BY <1>1, <2>1, <2>2 DEF Tags
<1>4. ASSUME NEW i \in Tags(u, name)
      PROVE  \/ i \in Tags(t, name)
             \/ i - n \in Tags(w, name)
             \/ i = n /\ t # <<>> /\ t[n] = "<" /\ w # <<>> /\ w[1] = name
  <2>1. i \in 1 .. (n + m) - 1 /\ u[i] = "<" /\ u[i + 1] = name
    BY <1>1 DEF Tags
  <2>2. CASE i < n
    <3>1. i \in 1 .. n /\ i + 1 \in 1 .. n /\ i \in 1 .. n - 1
      BY <1>1, <2>1, <2>2
    <3> QED
      BY <1>1, <2>1, <3>1 DEF Tags, n
  <2>3. CASE i = n
    <3>1. n \in 1 .. n /\ 1 \in 1 .. m /\ n # 0 /\ m # 0
      BY <1>1, <2>1, <2>3
    <3> QED
      BY <1>1, <2>1, <2>3, <3>1
  <2>4. CASE i > n
    <3>1. /\ i - n \in 1 .. m /\ (i - n) + 1 \in 1 .. m /\ i - n \in 1 .. m - 1
          /\ n + (i - n) = i /\ n + ((i - n) + 1) = i + 1
      BY <1>1, <2>1, <2>4
    <3>2. w[i - n] = "<" /\ w[(i - n) + 1] = name
      BY <1>1, <2>1, <3>1
    <3> QED
      BY <3>1, <3>2 DEF Tags, m
  <2> QED
    BY <1>1, <2>1, <2>2, <2>3, <2>4
<1> QED
  BY <1>2, <1>3, <1>4 DEF n, m, u

\* A text without think tags has none in any part of it.
Plain(text) == ~Has(text, "think>") /\ ~Has(text, "/think>")

LEMMA PlainParts ==
    ASSUME NEW t \in Text, NEW w \in Text, Plain(t \o w)
    PROVE  Plain(t) /\ Plain(w)
<1>1. ASSUME NEW name, Tags(t \o w, name) = {}
      PROVE  Tags(t, name) = {} /\ Tags(w, name) = {}
  BY <1>1, TagsJoined
<1> QED
  BY <1>1 DEF Plain, Has

\* Where there is no tag none is dropped.
LEMMA WithoutNone ==
    ASSUME NEW text \in Text, NEW name, ~Has(text, name)
    PROVE  Without(text, name) = text
<1>1. 1 .. Len(text) \subseteq Beside(text, Tags(text, name))
  BY DEF Has, Beside
<1> QED
  BY <1>1, SelectAll DEF Without

\* The tags send_message puts around the thinking.
LEMMA OpeningTag ==
    /\ ThinkOpen \in Text /\ ThinkOpen # <<>>
    /\ Tags(ThinkOpen, "think>") = {1}
    /\ \A name : name # "think>" => Tags(ThinkOpen, name) = {}
    /\ Without(ThinkOpen, "think>") = <<>>
<1>1. /\ ThinkOpen \in Text /\ Len(ThinkOpen) = 2
      /\ ThinkOpen[1] = "<" /\ ThinkOpen[2] = "think>"
  BY DEF ThinkOpen, Text, Marks
<1>2. 1 .. 2 - 1 = {1}
  OBVIOUS
<1>3. Tags(ThinkOpen, "think>") = {1} /\ \A name : name # "think>" => Tags(ThinkOpen, name) = {}
  BY <1>1, <1>2 DEF Tags
<1>4. \A i \in 1 .. Len(ThinkOpen) : i \notin Beside(ThinkOpen, {1})
  <2>1. 2 - 1 = 1 /\ 1 .. 2 = {1, 2}
    OBVIOUS
  <2> QED
    BY <1>1, <2>1 DEF Beside
<1>5. Without(ThinkOpen, "think>") = <<>>
  BY <1>1, <1>3, <1>4, SelectNone DEF Without
<1> QED
  BY <1>1, <1>3, <1>5, MarksOf

LEMMA ClosingTag ==
    /\ ThinkClose \in Text /\ ThinkClose # <<>> /\ Len(ThinkClose) = 2
    /\ ThinkClose[1] = "<" /\ ThinkClose[2] = "/think>"
    /\ Tags(ThinkClose, "/think>") = {1}
    /\ \A name : name # "/think>" => Tags(ThinkClose, name) = {}
<1>1. /\ ThinkClose \in Text /\ Len(ThinkClose) = 2
      /\ ThinkClose[1] = "<" /\ ThinkClose[2] = "/think>"
  BY DEF ThinkClose, Text, Marks
<1>2. 1 .. 2 - 1 = {1}
  OBVIOUS
<1>3. Tags(ThinkClose, "/think>") = {1} /\ \A name : name # "/think>" => Tags(ThinkClose, name) = {}
  BY <1>1, <1>2 DEF Tags
<1> QED
  BY <1>1, <1>3, MarksOf

\* The tag that closes the thinking, behind what was held back.
LEMMA ClosingChunk ==
    ASSUME NEW x \in {<<>>, <<"<">>}
    PROVE  LET chunk == x \o ThinkClose
           IN  /\ chunk \in Text /\ chunk # <<>> /\ Last(chunk) # "<"
               /\ ~Has(chunk, "think>") /\ Has(chunk, "/think>")
               /\ FirstPiece(chunk, "/think>") = x
               /\ SecondPiece(chunk, "/think>") = <<>>
<1> DEFINE chunk == x \o ThinkClose
           n == Len(x)
<1>1. x \in Text /\ n \in {0, 1} /\ \A i \in 1 .. n : x[i] = "<"
  BY ShortTexts
<1>2. /\ chunk \in Text /\ Len(chunk) = n + 2
      /\ \A i \in 1 .. n : chunk[i] = "<"
      /\ chunk[n + 1] = "<" /\ chunk[n + 2] = "/think>"
  <2>1. /\ chunk \in Text /\ Len(chunk) = n + 2
        /\ \A i \in 1 .. n : chunk[i] = x[i]
        /\ \A i \in 1 .. 2 : chunk[n + i] = ThinkClose[i]
    <3>1. x \in Text /\ ThinkClose \in Text /\ Len(ThinkClose) = 2
      BY <1>1, ClosingTag
    <3>2. /\ x \o ThinkClose \in Text /\ Len(x \o ThinkClose) = Len(x) + Len(ThinkClose)
          /\ \A i \in 1 .. Len(x) : (x \o ThinkClose)[i] = x[i]
          /\ \A i \in 1 .. Len(ThinkClose) : (x \o ThinkClose)[Len(x) + i] = ThinkClose[i]
      BY <3>1, Joined
    <3> QED
      BY <3>1, <3>2
  <2>2. 1 \in 1 .. 2 /\ 2 \in 1 .. 2
    OBVIOUS
  <2> QED
    BY <1>1, <2>1, <2>2, ClosingTag
<1> HIDE DEF chunk
<1>3. Tags(chunk, "/think>") = {n + 1} /\ Tags(chunk, "think>") = {}
  <2>1. ASSUME NEW i \in 1 .. Len(chunk) - 1, chunk[i + 1] # "<"
        PROVE  i = n + 1 /\ chunk[i + 1] = "/think>"
    <3>1. i \in 1 .. n + 1
      BY <1>1, <1>2
    <3>2. i + 1 \notin 1 .. n /\ i + 1 # n + 1
      BY <1>2, <2>1
    <3>3. i = n + 1 /\ i + 1 = n + 2
      BY <1>1, <3>1, <3>2
    <3> QED
      BY <1>2, <3>3
  <2>2. n + 1 \in 1 .. Len(chunk) - 1 /\ (n + 1) + 1 = n + 2
    BY <1>1, <1>2
  <2> QED
    BY <1>2, <2>1, <2>2 DEF Tags
<1>4. Min(Tags(chunk, "/think>")) = n + 1
  <2>1. {n + 1} \in SUBSET Nat /\ {n + 1} # {}
    BY <1>1
  <2>2. Min({n + 1}) \in {n + 1}
    BY <2>1, LeastMember
  <2> QED
    BY <1>3, <2>2
<1>5. FirstPiece(chunk, "/think>") = x
  <2>1. FirstPiece(chunk, "/think>") = SubSeq(chunk, 1, n)
    <3>1. (n + 1) - 1 = n
      BY <1>1
    <3> QED
      BY <1>3, <1>4, <3>1 DEF FirstPiece
  <2>2. SubSeq(chunk, 1, n) \in Text /\ Len(SubSeq(chunk, 1, n)) = n
        /\ \A i \in 1 .. n : SubSeq(chunk, 1, n)[i] = chunk[i]
    <3>1. chunk \in Seq(Marks) /\ n \in Nat /\ n <= Len(chunk) /\ Len(chunk) \in Nat
      BY <1>1, <1>2 DEF Text
    <3>2. \A i \in 1 .. n : chunk[i] \in Marks
      BY <1>2, ShortTexts
    <3>3. SubSeq(chunk, 1, n) \in Seq(Marks)
      BY <3>1, <3>2, SubSeqProperties
    <3> QED
      BY <3>1, <3>3, SubSeqProperties DEF Text
  <2> QED
    BY <1>1, <1>2, <2>1, <2>2, MarksOf
<1>6. SecondPiece(chunk, "/think>") = <<>>
  <2> DEFINE behind == SubSeq(chunk, (n + 1) + 2, Len(chunk))
  <2>1. SecondPiece(chunk, "/think>") = FirstPiece(behind, "/think>")
    BY <1>3, <1>4 DEF SecondPiece
  <2>2. behind \in Text /\ Len(behind) = 0
    BY <1>1, <1>2, SubSeqProperties DEF Text
  <2>3. behind = <<>>
    <3> HIDE DEF behind
    <3> QED
      BY <2>2, MarksOf
  <2>4. Tags(<<>>, "/think>") = {}
    BY DEF Tags
  <2> QED
    BY <2>1, <2>3, <2>4 DEF FirstPiece
<1>7. chunk # <<>> /\ Last(chunk) = "/think>"
  BY <1>1, <1>2, MarksOf DEF Last
<1> QED
  BY <1>2, <1>3, <1>5, <1>6, <1>7 DEF chunk, Has

-----------------------------------------------------------------------------
(***************************************************************************)
(* What a chunk does to an encoder: which of it is thinking and what the   *)
(* parser is fed.                                                          *)
(***************************************************************************)
Effect(e, f, thought, rest) ==
    /\ f.reasoning = e.reasoning \o thought
    /\ f.parser = feed(e.parser, rest).parser
    /\ f.shown = e.shown \o feed(e.parser, rest).text

\* A chunk without a tag, while the model thinks and while it speaks; the tag
\* that opens the thinking; the tag that closes it.
Continues(chunk, e, f) ==
    /\ f.is_thinking <=> e.is_thinking
    /\ e.is_thinking => Effect(e, f, chunk, <<>>)
    /\ ~e.is_thinking => Effect(e, f, <<>>, chunk)

Begins(e, f) == f.is_thinking /\ Effect(e, f, <<>>, <<>>)

Stops(x, e, f) == ~f.is_thinking /\ Effect(e, f, x, <<>>)

\* A chunk in stream_response.
LEMMA OpenAIChunkDoes ==
    ASSUME NEW o \in OpenAIState, NEW chunk \in Text
    PROVE  /\ Plain(chunk) => Continues(chunk, o, OpenAIChunk(o, chunk))
           /\ chunk = ThinkOpen => Begins(o, OpenAIChunk(o, chunk))
           /\ \A x \in {<<>>, <<"<">>} :
                 chunk = x \o ThinkClose /\ o.is_thinking =>
                     Stops(x, o, OpenAIChunk(o, chunk))
<1> DEFINE within == o.is_thinking \/ Has(chunk, "think>")
           bare   == Without(chunk, "think>")
           ends   == Has(bare, "/think>")
           thought == IF ends THEN FirstPiece(bare, "/think>")
                      ELSE IF within THEN bare ELSE <<>>
           rest    == IF ends THEN SecondPiece(bare, "/think>")
                      ELSE IF within THEN <<>> ELSE bare
           f == OpenAIChunk(o, chunk)
<1>1. PICK thinks \in BOOLEAN : thinks = (within /\ ~ends)
  OBVIOUS
<1>2. bare \in Text
  BY RestsAreText
<1>3. thought \in Text /\ rest \in Text
  <2> HIDE DEF bare
  <2> QED
    BY <1>2, PiecesAreText, ShortTexts
<1>4. PICK th \in Text, re \in Text : th = thought /\ re = rest
  BY <1>3
<1>5. f.is_thinking = thinks /\ Effect(o, f, th, re)
  <2> DEFINE p == feed(o.parser, re).parser
             r == o.reasoning \o th
             s == o.shown \o feed(o.parser, re).text
  <2>1. f = [o EXCEPT !.is_thinking = thinks, !.reasoning = r, !.parser = p, !.shown = s]
    BY <1>1, <1>4 DEF OpenAIChunk
  <2> HIDE DEF f, p, r, s
  <2>2. f.is_thinking = thinks /\ f.reasoning = r /\ f.parser = p /\ f.shown = s
    BY <2>1 DEF OpenAIState
  <2> QED
    BY <2>2 DEF Effect, p, r, s
<1>6. ASSUME Plain(chunk)
      PROVE  Continues(chunk, o, f)
  <2>1. bare = chunk
    BY <1>6, WithoutNone DEF Plain
  <2>2. ~ends /\ (within <=> o.is_thinking)
    BY <1>6, <2>1 DEF Plain
  <2>3. /\ o.is_thinking => th = chunk /\ re = <<>>
        /\ ~o.is_thinking => th = <<>> /\ re = chunk
    BY <1>4, <2>1, <2>2
  <2>4. f.is_thinking <=> o.is_thinking
    <3> HIDE DEF f, ends, within
    <3> QED
      BY <1>1, <1>5, <2>2
  <2> HIDE DEF f
  <2> QED
    BY <1>5, <2>3, <2>4 DEF Continues
<1>7. ASSUME chunk = ThinkOpen
      PROVE  Begins(o, f)
  <2>1. bare = <<>> /\ Has(chunk, "think>")
    BY <1>7, OpeningTag DEF Has
  <2>2. ~Has(<<>>, "/think>")
    BY DEF Has, Tags
  <2>3. ~ends /\ within /\ th = <<>> /\ re = <<>>
    BY <1>4, <2>1, <2>2
  <2>4. f.is_thinking
    <3> HIDE DEF f, ends, within
    <3> QED
      BY <1>1, <1>5, <2>3
  <2> HIDE DEF f
  <2> QED
    BY <1>5, <2>3, <2>4 DEF Begins
<1>8. ASSUME NEW x \in {<<>>, <<"<">>}, chunk = x \o ThinkClose, o.is_thinking
      PROVE  Stops(x, o, f)
  <2>1. bare = chunk
    BY <1>8, ClosingChunk, WithoutNone
  <2>2. ends /\ th = x /\ re = <<>>
    BY <1>4, <1>8, <2>1, ClosingChunk
  <2>3. ~f.is_thinking
    <3> HIDE DEF f, ends, within
    <3> QED
      BY <1>1, <1>5, <2>2
  <2> HIDE DEF f
  <2> QED
    BY <1>5, <2>2, <2>3 DEF Stops
<1> QED
  BY <1>6, <1>7, <1>8

\* What nothing does.
LEMMA NothingFed ==
    /\ \A p \in Parser : feed(p, <<>>).parser = p /\ feed(p, <<>>).text = <<>>
    /\ \A x \in Text : x \o <<>> = x
<1>1. ASSUME NEW p \in Parser
      PROVE  feed(p, <<>>).parser = p /\ feed(p, <<>>).text = <<>>
  <2>1. feed(p, <<>>) = [parser |-> p, text |-> <<>>]
    BY FeedNone DEF NewRun
  <2> QED
    BY <2>1
<1>2. ASSUME NEW x \in Text
      PROVE  x \o <<>> = x
  BY Joined
<1> QED
  BY <1>1, <1>2

\* The parts of stream_anthropic_response.
LEMMA ThinkDoes ==
    ASSUME NEW a \in Streaming, a.is_thinking, NEW text \in Text
    PROVE  /\ Think(a, text).is_thinking /\ Effect(a, Think(a, text), text, <<>>)
           /\ Think(a, text) \in Streaming
<1>1. /\ a \in AnthropicState /\ a.parser \in Parser /\ a.reasoning \in Text
      /\ a.shown \in Text
  BY DEF Streaming, AnthropicState
<1>2. /\ feed(a.parser, <<>>).parser = a.parser /\ a.shown \o feed(a.parser, <<>>).text = a.shown
      /\ a.reasoning \o <<>> = a.reasoning
  BY <1>1, NothingFed
<1>3. CASE text = <<>>
  BY <1>2, <1>3 DEF Think, Effect
<1>4. CASE text # <<>>
  <2> DEFINE r == a.reasoning \o text
             e == Frames!content_block_delta(a.reader, a.block_index)
             b == Think(a, text)
  <2>1. b = [a EXCEPT !.reasoning = r, !.reader = e]
    BY <1>4 DEF Think
  <2> HIDE DEF r, e, b
  <2>2. /\ b.reasoning = r /\ b.parser = a.parser /\ b.shown = a.shown
        /\ b.is_thinking = a.is_thinking
    BY <1>1, <2>1 DEF AnthropicState
  <2>3. b.is_thinking /\ Effect(a, b, text, <<>>)
    BY <1>2, <2>2 DEF Effect, r
  <2> QED
    BY <2>3, ThinkInOrder DEF b
<1> QED
  BY <1>3, <1>4, ThinkInOrder

LEMMA StartThinkingDoes ==
    ASSUME NEW a \in Streaming, ~a.is_thinking, ~a.text_block_started
    PROVE  Begins(a, StartThinking(a)) /\ StartThinking(a) \in Streaming
<1>1. /\ a \in AnthropicState /\ a.parser \in Parser /\ a.reasoning \in Text
      /\ a.shown \in Text
  BY DEF Streaming, AnthropicState
<1>2. /\ feed(a.parser, <<>>).parser = a.parser /\ a.shown \o feed(a.parser, <<>>).text = a.shown
      /\ a.reasoning \o <<>> = a.reasoning
  BY <1>1, NothingFed
<1> DEFINE e == Frames!content_block_start(a.reader, a.block_index)
           b == StartThinking(a)
<1>3. b = [a EXCEPT !.is_thinking = TRUE, !.reader = e]
  BY DEF StartThinking
<1> HIDE DEF e, b
<1>4. /\ b.reasoning = a.reasoning /\ b.parser = a.parser /\ b.shown = a.shown
      /\ b.is_thinking = TRUE
  BY <1>1, <1>3 DEF AnthropicState
<1>5. Begins(a, b)
  BY <1>2, <1>4 DEF Begins, Effect
<1> QED
  BY <1>5, StartThinkingInOrder DEF b

LEMMA StopThinkingDoes ==
    ASSUME NEW a \in Streaming, a.is_thinking
    PROVE  Stops(<<>>, a, StopThinking(a)) /\ StopThinking(a) \in Streaming
           /\ ~StopThinking(a).text_block_started
<1>1. /\ a \in AnthropicState /\ a.parser \in Parser /\ a.reasoning \in Text
      /\ a.shown \in Text
  BY DEF Streaming, AnthropicState
<1>2. /\ feed(a.parser, <<>>).parser = a.parser /\ a.shown \o feed(a.parser, <<>>).text = a.shown
      /\ a.reasoning \o <<>> = a.reasoning
  BY <1>1, NothingFed
<1> DEFINE e == Frames!content_block_stop(a.reader, a.block_index)
           n == a.block_index + 1
           b == StopThinking(a)
<1>3. b = [a EXCEPT !.is_thinking = FALSE, !.block_index = n, !.reader = e]
  BY DEF StopThinking
<1> HIDE DEF e, n, b
<1>4. /\ b.reasoning = a.reasoning /\ b.parser = a.parser /\ b.shown = a.shown
      /\ b.is_thinking = FALSE
  BY <1>1, <1>3 DEF AnthropicState
<1>5. Stops(<<>>, a, b)
  BY <1>2, <1>4 DEF Stops, Effect
<1> QED
  BY <1>5, StopThinkingInOrder DEF b

\* A block of text is open only if something was shown.
Opened(a) == a.text_block_started => a.shown # <<>>

LEMMA SayDoes ==
    ASSUME NEW a \in Streaming, ~a.is_thinking, NEW text \in Text
    PROVE  /\ ~Say(a, text).is_thinking /\ Effect(a, Say(a, text), <<>>, text)
           /\ Say(a, text) \in Streaming
           /\ Opened(a) => Opened(Say(a, text))
<1>1. /\ a \in AnthropicState /\ a.parser \in Parser /\ a.reasoning \in Text
      /\ a.shown \in Text /\ a.reasoning \o <<>> = a.reasoning
      /\ a.shown \o <<>> = a.shown
  BY Joined DEF Streaming, AnthropicState
<1>2. PICK p \in Parser, words \in Text :
         p = feed(a.parser, text).parser /\ words = feed(a.parser, text).text
  BY <1>1, FeedTyped
<1> DEFINE b == [a EXCEPT !.parser = p]
<1>3. /\ b.is_thinking = a.is_thinking /\ b.parser = p /\ b.shown = a.shown
      /\ b.reasoning = a.reasoning /\ b.text_block_started = a.text_block_started
      /\ b \in AnthropicState
  BY <1>1 DEF AnthropicState
<1>4. CASE words = <<>>
  <2>1. Say(a, text) = b
    BY <1>2, <1>4 DEF Say
  <2> HIDE DEF b
  <2>2. ~b.is_thinking /\ Effect(a, b, <<>>, text) /\ (Opened(a) => Opened(b))
    BY <1>1, <1>2, <1>3, <1>4 DEF Effect, Opened
  <2> QED
    BY <2>1, <2>2, SayInOrder
<1>5. CASE words # <<>>
  <2> HIDE DEF b
  <2>1. PICK c : c = StartText(b)
    OBVIOUS
  <2>2. /\ c \in [is_thinking : BOOLEAN, parser : Parser, reasoning : Text, shown : Text,
                  calls : Nat, text_block_started : BOOLEAN, block_index : Nat,
                  reader : {c.reader}]
        /\ c.is_thinking = a.is_thinking /\ c.parser = p /\ c.shown = a.shown
        /\ c.reasoning = a.reasoning
    <3>1. CASE b.text_block_started
      BY <1>3, <2>1, <3>1 DEF StartText, AnthropicState
    <3>2. CASE ~b.text_block_started
      <4> DEFINE e == Frames!content_block_start(b.reader, b.block_index)
      <4>1. c = [b EXCEPT !.text_block_started = TRUE, !.reader = e]
        BY <2>1, <3>2 DEF StartText
      <4> HIDE DEF e
      <4> QED
        BY <1>3, <4>1 DEF AnthropicState
    <3> QED
      BY <3>1, <3>2
  <2> DEFINE s == c.shown \o words
             e == Frames!content_block_delta(c.reader, b.block_index)
             d == Say(a, text)
  <2>3. d = [c EXCEPT !.shown = s, !.reader = e]
    <3>1. b = [a EXCEPT !.parser = feed(a.parser, text).parser]
      BY <1>2 DEF b
    <3>2. c.block_index = a.block_index /\ b.block_index = a.block_index
      <4>1. b.block_index = a.block_index
        BY <1>1 DEF b, AnthropicState
      <4>2. c.block_index = b.block_index
        BY <1>3, <2>1 DEF StartText, AnthropicState
      <4> QED
        BY <4>1, <4>2
    <3> QED
      BY <1>2, <1>5, <2>1, <3>1, <3>2 DEF Say
  <2> HIDE DEF s, e, d
  <2>4. /\ d.reasoning = c.reasoning /\ d.parser = c.parser /\ d.shown = s
        /\ d.is_thinking = c.is_thinking
    BY <2>2, <2>3
  <2>5. s = a.shown \o words /\ s # <<>>
    <3>1. s = a.shown \o words
      BY <2>2 DEF s
    <3>2. a.shown \o words # <<>>
      <4> DEFINE x == a.shown
      <4>1. x \in Text /\ Len(words) # 0 /\ Len(words) \in Nat
        BY <1>1, <1>5, MarksOf
      <4> HIDE DEF x
      <4>2. Len(x \o words) = Len(x) + Len(words) /\ Len(x) \in Nat /\ x \o words \in Text
        BY <4>1, Joined
      <4>3. x \o words # <<>>
        BY <4>1, <4>2, MarksOf
      <4> QED
        BY <4>3 DEF x
    <3> QED
      BY <3>1, <3>2
  <2>6. ~d.is_thinking /\ Effect(a, d, <<>>, text) /\ Opened(d)
    BY <1>1, <1>2, <2>2, <2>4, <2>5 DEF Effect, Opened
  <2> QED
    BY <2>6, SayInOrder DEF d
<1> QED
  BY <1>4, <1>5

\* An effect that feeds the parser nothing.
LEMMA QuietEffect ==
    ASSUME NEW e, e.parser \in Parser, e.shown \in Text, NEW f, NEW x
    PROVE  Effect(e, f, x, <<>>) <=>
              /\ f.reasoning = e.reasoning \o x
              /\ f.parser = e.parser /\ f.shown = e.shown
<1>1. /\ feed(e.parser, <<>>).parser = e.parser
      /\ e.shown \o feed(e.parser, <<>>).text = e.shown
  <2>1. feed(e.parser, <<>>).parser = e.parser /\ feed(e.parser, <<>>).text = <<>>
    BY NothingFed
  <2>2. e.shown \o <<>> = e.shown
    BY NothingFed
  <2> QED
    BY <2>1, <2>2
<1> QED
  BY <1>1 DEF Effect

LEMMA AnthropicChunkDoes ==
    ASSUME NEW a \in Streaming, NEW chunk \in Text
    PROVE  /\ Plain(chunk) =>
                 /\ Continues(chunk, a, AnthropicChunk(a, chunk))
                 /\ Opened(a) => Opened(AnthropicChunk(a, chunk))
           /\ chunk = ThinkOpen /\ ~a.is_thinking /\ ~a.text_block_started =>
                 Begins(a, AnthropicChunk(a, chunk))
           /\ \A x \in {<<>>, <<"<">>} :
                 chunk = x \o ThinkClose /\ a.is_thinking =>
                     /\ Stops(x, a, AnthropicChunk(a, chunk))
                     /\ Opened(AnthropicChunk(a, chunk))
<1>1. \A b \in Streaming : /\ b.parser \in Parser /\ b.shown \in Text
                           /\ b.reasoning \in Text
                           /\ b.is_thinking => ~b.text_block_started
  BY DEF Streaming, InOrder, AnthropicState
<1>2. ASSUME Plain(chunk)
      PROVE  /\ Continues(chunk, a, AnthropicChunk(a, chunk))
             /\ Opened(a) => Opened(AnthropicChunk(a, chunk))
  <2>1. ~Opens(a, chunk) /\ ~Has(chunk, "/think>")
    BY <1>2 DEF Plain, Opens
  <2>2. CASE a.is_thinking
    <3>1. AnthropicChunk(a, chunk) = Think(a, chunk)
      BY <2>1, <2>2 DEF AnthropicChunk
    <3>2. /\ Think(a, chunk).is_thinking /\ Effect(a, Think(a, chunk), chunk, <<>>)
          /\ Think(a, chunk) \in Streaming
      BY <2>2, ThinkDoes
    <3>3. Opened(Think(a, chunk))
      BY <1>1, <3>2 DEF Opened
    <3> QED
      BY <2>2, <3>1, <3>2, <3>3 DEF Continues
  <2>3. CASE ~a.is_thinking
    <3>1. AnthropicChunk(a, chunk) = Say(a, chunk)
      BY <2>1, <2>3 DEF AnthropicChunk
    <3> QED
      BY <2>3, <3>1, SayDoes DEF Continues
  <2> QED
    BY <2>2, <2>3
<1>3. ASSUME chunk = ThinkOpen, ~a.is_thinking, ~a.text_block_started
      PROVE  Begins(a, AnthropicChunk(a, chunk))
  <2>1. Opens(a, chunk) /\ Without(chunk, "think>") = <<>>
    BY <1>3, OpeningTag DEF Opens, Has
  <2>2. PICK b \in Streaming : b = StartThinking(a) /\ Begins(a, b)
    BY <1>3, StartThinkingDoes
  <2>3. b.is_thinking /\ ~Has(<<>>, "/think>")
    BY <2>2 DEF Begins, Has, Tags
  <2>4. AnthropicChunk(a, chunk) = Think(b, <<>>)
    BY <2>1, <2>2, <2>3 DEF AnthropicChunk
  <2>5. Think(b, <<>>) = b
    BY DEF Think
  <2> QED
    BY <2>2, <2>4, <2>5
<1>4. ASSUME NEW x \in {<<>>, <<"<">>}, chunk = x \o ThinkClose, a.is_thinking
      PROVE  Stops(x, a, AnthropicChunk(a, chunk)) /\ Opened(AnthropicChunk(a, chunk))
  <2>1. /\ Has(chunk, "/think>") /\ ~Opens(a, chunk)
        /\ FirstPiece(chunk, "/think>") = x /\ SecondPiece(chunk, "/think>") = <<>>
    BY <1>4, ClosingChunk DEF Opens
  <2>2. x \in Text /\ <<>> \in Text
    BY ShortTexts
  <2>3. PICK c \in Streaming : c = Think(a, x) /\ c.is_thinking /\ Effect(a, c, x, <<>>)
    BY <1>4, <2>2, ThinkDoes
  <2>4. PICK d \in Streaming : /\ d = StopThinking(c) /\ Stops(<<>>, c, d)
                               /\ ~d.text_block_started
    BY <2>3, StopThinkingDoes
  <2>5. PICK e \in Streaming : /\ e = Say(d, <<>>) /\ ~e.is_thinking
                               /\ Effect(d, e, <<>>, <<>>) /\ Opened(e)
    <3>1. ~d.is_thinking /\ Opened(d)
      BY <2>4 DEF Stops, Opened
    <3> QED
      BY <2>2, <3>1, SayDoes
  <2>6. AnthropicChunk(a, chunk) = e
    BY <1>4, <2>1, <2>3, <2>4, <2>5 DEF AnthropicChunk
  <2>7. c.reasoning = a.reasoning \o x /\ c.parser = a.parser /\ c.shown = a.shown
    BY <1>1, <2>3, QuietEffect
  <2>8. d.reasoning = c.reasoning \o <<>> /\ d.parser = c.parser /\ d.shown = c.shown
    BY <1>1, <2>4, QuietEffect DEF Stops
  <2>9. e.reasoning = d.reasoning \o <<>> /\ e.parser = d.parser /\ e.shown = d.shown
    BY <1>1, <2>5, QuietEffect
  <2>10. e.reasoning = c.reasoning
    <3>1. d.reasoning = c.reasoning
      BY <1>1, <2>8, NothingFed
    <3> QED
      BY <1>1, <2>9, <3>1, NothingFed
  <2>11. Effect(a, e, x, <<>>)
    <3>1. e.reasoning = a.reasoning \o x /\ e.parser = a.parser /\ e.shown = a.shown
      BY <2>7, <2>8, <2>9, <2>10
    <3> QED
      BY <1>1, <3>1, QuietEffect
  <2> QED
    BY <2>5, <2>6, <2>11 DEF Stops
<1> QED
  BY <1>2, <1>3, <1>4

-----------------------------------------------------------------------------
(***************************************************************************)
(* What both encoders have made of the thinking th and of the words S that *)
(* they were given.                                                        *)
(***************************************************************************)
Heard(e, th, S) ==
    /\ e.reasoning = th
    /\ e.parser = feed(NewParser, S).parser
    /\ e.shown = feed(NewParser, S).text

\* The model thinks: the encoders show no text, and what they have not shown of
\* the thinking is held back.
InThought(s, th) ==
    \E R \in Text :
       /\ R \o s.carry = th
       /\ s.openai.is_thinking /\ Heard(s.openai, R, <<>>)
       /\ s.anthropic.is_thinking /\ Heard(s.anthropic, R, <<>>)

\* The model speaks: all of the thinking was shown.
InSpeech(s, th, said) ==
    \E S \in Text :
       /\ S \o s.carry = said
       /\ ~s.openai.is_thinking /\ Heard(s.openai, th, S)
       /\ ~s.anthropic.is_thinking /\ Heard(s.anthropic, th, S)
       /\ Opened(s.anthropic)

LEMMA HeardMore ==
    ASSUME NEW e, NEW f, NEW R \in Text, NEW S \in Text, NEW x \in Text, NEW y \in Text,
           Heard(e, R, S), Effect(e, f, x, y)
    PROVE  Heard(f, R \o x, S \o y)
<1>1. NewParser \in Parser
  BY DEF NewParser, Parser
<1>2. /\ feed(NewParser, S \o y).parser = feed(feed(NewParser, S).parser, y).parser
      /\ feed(NewParser, S \o y).text
             = feed(NewParser, S).text \o feed(feed(NewParser, S).parser, y).text
  BY <1>1, FeedJoined
<1> QED
  BY <1>2 DEF Heard, Effect

\* A chunk for both encoders.
LEMMA EncodeDoes ==
    ASSUME NEW s \in StreamState, NEW chunk \in Text, NEW t, t = Encode(s, chunk)
    PROVE  /\ t \in StreamState /\ t.carry = s.carry
           /\ Plain(chunk) =>
                 /\ Continues(chunk, s.openai, t.openai)
                 /\ Continues(chunk, s.anthropic, t.anthropic)
                 /\ Opened(s.anthropic) => Opened(t.anthropic)
           /\ chunk # <<>> => /\ t.openai = OpenAIChunk(s.openai, chunk)
                              /\ t.anthropic = AnthropicChunk(s.anthropic, chunk)
<1>1. /\ s.full \in Text /\ s.openai \in OpenAIState /\ s.anthropic \in Streaming
      /\ s.openai.parser \in Parser /\ s.openai.shown \in Text /\ s.openai.reasoning \in Text
      /\ s.anthropic.parser \in Parser /\ s.anthropic.shown \in Text
      /\ s.anthropic.reasoning \in Text
  BY DEF StreamState, Streaming, AnthropicState, OpenAIState
<1>2. t \in StreamState /\ t.carry = s.carry
  BY EncodeKeeps
<1>3. CASE chunk = <<>>
  <2>1. t = s
    BY <1>3 DEF Encode
  <2>2. /\ Effect(s.openai, s.openai, <<>>, <<>>)
        /\ Effect(s.anthropic, s.anthropic, <<>>, <<>>)
    <3>1. /\ s.openai.reasoning = s.openai.reasoning \o <<>>
          /\ s.anthropic.reasoning = s.anthropic.reasoning \o <<>>
      BY <1>1, NothingFed
    <3> QED
      BY <1>1, <3>1, QuietEffect
  <2>3. Continues(chunk, s.openai, t.openai) /\ Continues(chunk, s.anthropic, t.anthropic)
    BY <1>3, <2>1, <2>2 DEF Continues
  <2> QED
    BY <1>2, <1>3, <2>1, <2>3
<1>4. CASE chunk # <<>>
  <2> DEFINE o == OpenAIChunk(s.openai, chunk)
             a == AnthropicChunk(s.anthropic, chunk)
             w == s.full \o chunk
  <2>1. t = [s EXCEPT !.full = w, !.openai = o, !.anthropic = a]
    BY <1>4 DEF Encode
  <2> HIDE DEF o, a, w
  <2>2. t.openai = o /\ t.anthropic = a
    BY <2>1 DEF StreamState
  <2>3. Plain(chunk) =>
           /\ Continues(chunk, s.openai, o) /\ Continues(chunk, s.anthropic, a)
           /\ Opened(s.anthropic) => Opened(a)
    BY <1>1, OpenAIChunkDoes, AnthropicChunkDoes DEF o, a
  <2> QED
    BY <1>2, <1>4, <2>2, <2>3 DEF o, a
<1> QED
  BY <1>3, <1>4

\* A chunk on its way through _hold_think_tags into the encoders: what is passed
\* on, what is held back, and the encoders that wait for it.
Passes(s, chunk, b, passed, held) ==
    /\ passed = Hold(s.carry, chunk).passed /\ held = Hold(s.carry, chunk).carry
    /\ passed \o held = s.carry \o chunk /\ held \in Text /\ s.carry \in Text
    /\ b.carry = held /\ b.openai = s.openai /\ b.anthropic = s.anthropic
    /\ Yield(s, chunk) = Encode(b, passed)

LEMMA YieldEncodes ==
    ASSUME NEW s \in StreamState, NEW chunk \in Text
    PROVE  \E b \in StreamState, passed \in Text, held \in {<<>>, <<"<">>} :
              Passes(s, chunk, b, passed, held)
<1>1. s.carry \in {<<>>, <<"<">>} /\ s.carry \in Text
  BY ShortTexts DEF StreamState
<1> DEFINE p == Hold(s.carry, chunk).passed
           h == Hold(s.carry, chunk).carry
<1>0. p \in Text /\ h \in {<<>>, <<"<">>} /\ p \o h = s.carry \o chunk
  BY <1>1, NothingIsLostInHold
<1>2. PICK passed \in Text, held \in {<<>>, <<"<">>} : passed = p /\ held = h
  BY <1>0
<1> DEFINE b == [s EXCEPT !.carry = held]
<1>3. /\ b \in StreamState /\ b.carry = held /\ b.openai = s.openai
      /\ b.anthropic = s.anthropic
  BY DEF StreamState
<1>4. Yield(s, chunk) = Encode(b, passed)
  BY <1>2 DEF Yield
<1>5. held \in Text
  BY ShortTexts
<1>6. Passes(s, chunk, b, passed, held)
  <2> HIDE DEF b
  <2> QED
    BY <1>0, <1>1, <1>2, <1>3, <1>4, <1>5 DEF Passes
<1> HIDE DEF b
<1> QED
  BY <1>3, <1>6

\* What is passed on of a text without think tags has none.
LEMMA PassedPlain ==
    ASSUME NEW R \in Text, NEW passed \in Text, NEW held \in Text,
           Plain((R \o passed) \o held)
    PROVE  R \o passed \in Text /\ Plain(passed)
<1>1. PICK w \in Text : w = R \o passed
  BY Joined
<1>2. Plain(w \o held)
  BY <1>1
<1>3. Plain(w)
  BY <1>2, PlainParts
<1>4. Plain(passed)
  BY <1>1, <1>3, PlainParts
<1> QED
  BY <1>1, <1>4

\* The model thinks on.
LEMMA YieldThought ==
    ASSUME NEW s \in StreamState, NEW chunk \in Text, NEW th, InThought(s, th),
           Plain(th \o chunk)
    PROVE  InThought(Yield(s, chunk), th \o chunk)
<1>1. PICK b \in StreamState, passed \in Text, held \in {<<>>, <<"<">>} :
         Passes(s, chunk, b, passed, held)
  BY YieldEncodes
<1>2. PICK R \in Text :
         /\ R \o s.carry = th
         /\ s.openai.is_thinking /\ Heard(s.openai, R, <<>>)
         /\ s.anthropic.is_thinking /\ Heard(s.anthropic, R, <<>>)
  BY DEF InThought
<1>3. /\ R \o passed \in Text /\ (R \o passed) \o held = th \o chunk
      /\ Plain(passed)
  <2>1. PICK before \in Text : before = s.carry /\ R \o before = th
    BY <1>1, <1>2 DEF Passes
  <2>2. passed \o held = before \o chunk /\ held \in Text
    BY <1>1, <2>1 DEF Passes
  <2>3. before \in Text /\ R \in Text /\ passed \in Text
    BY <1>1, <1>2, <2>1
  <2>4. (R \o passed) \o held = (R \o before) \o chunk
    <3>1. (R \o passed) \o held = R \o (passed \o held)
      BY <2>2, <2>3, Associates, Zenon
    <3>2. R \o (before \o chunk) = (R \o before) \o chunk
      BY <2>3, Associates, Zenon
    <3> QED
      BY <2>2, <3>1, <3>2
  <2>5. (R \o passed) \o held = th \o chunk
    BY <2>1, <2>4
  <2>6. Plain((R \o passed) \o held)
    BY <2>5
  <2>7. R \o passed \in Text /\ Plain(passed)
    BY <2>2, <2>3, <2>6, PassedPlain
  <2> QED
    BY <2>5, <2>7
<1>4. PICK t : t = Encode(b, passed)
  OBVIOUS
<1>5. /\ t.carry = held
      /\ Continues(passed, s.openai, t.openai) /\ Continues(passed, s.anthropic, t.anthropic)
  <2>1. b.carry = held /\ b.openai = s.openai /\ b.anthropic = s.anthropic
    BY <1>1 DEF Passes
  <2> QED
    BY <1>3, <1>4, <2>1, EncodeDoes
<1>6. <<>> \in Text /\ <<>> \o <<>> = <<>>
  BY ShortTexts, Joined
<1>7. t.openai.is_thinking /\ Heard(t.openai, R \o passed, <<>>)
  <2>1. t.openai.is_thinking /\ Effect(s.openai, t.openai, passed, <<>>)
    BY <1>2, <1>5 DEF Continues
  <2>2. Heard(t.openai, R \o passed, <<>> \o <<>>)
    BY <1>2, <1>6, <2>1, HeardMore
  <2> QED
    BY <1>6, <2>1, <2>2
<1>8. t.anthropic.is_thinking /\ Heard(t.anthropic, R \o passed, <<>>)
  <2>1. t.anthropic.is_thinking /\ Effect(s.anthropic, t.anthropic, passed, <<>>)
    BY <1>2, <1>5 DEF Continues
  <2>2. Heard(t.anthropic, R \o passed, <<>> \o <<>>)
    BY <1>2, <1>6, <2>1, HeardMore
  <2> QED
    BY <1>6, <2>1, <2>2
<1> QED
  BY <1>1, <1>3, <1>4, <1>5, <1>7, <1>8 DEF InThought, Passes

\* The model speaks on.
LEMMA YieldSpeech ==
    ASSUME NEW s \in StreamState, NEW chunk \in Text, NEW th \in Text, NEW said,
           InSpeech(s, th, said), Plain(said \o chunk)
    PROVE  InSpeech(Yield(s, chunk), th, said \o chunk)
<1>1. PICK b \in StreamState, passed \in Text, held \in {<<>>, <<"<">>} :
         Passes(s, chunk, b, passed, held)
  BY YieldEncodes
<1>2. PICK S \in Text :
         /\ S \o s.carry = said
         /\ ~s.openai.is_thinking /\ Heard(s.openai, th, S)
         /\ ~s.anthropic.is_thinking /\ Heard(s.anthropic, th, S)
         /\ Opened(s.anthropic)
  BY DEF InSpeech
<1>3. /\ S \o passed \in Text /\ (S \o passed) \o held = said \o chunk
      /\ Plain(passed)
  <2>1. PICK before \in Text : before = s.carry /\ S \o before = said
    BY <1>1, <1>2 DEF Passes
  <2>2. passed \o held = before \o chunk /\ held \in Text
    BY <1>1, <2>1 DEF Passes
  <2>3. before \in Text /\ S \in Text /\ passed \in Text
    BY <1>1, <1>2, <2>1
  <2>4. (S \o passed) \o held = (S \o before) \o chunk
    <3>1. (S \o passed) \o held = S \o (passed \o held)
      BY <2>2, <2>3, Associates, Zenon
    <3>2. S \o (before \o chunk) = (S \o before) \o chunk
      BY <2>3, Associates, Zenon
    <3> QED
      BY <2>2, <3>1, <3>2
  <2>5. (S \o passed) \o held = said \o chunk
    BY <2>1, <2>4
  <2>6. Plain((S \o passed) \o held)
    BY <2>5
  <2>7. S \o passed \in Text /\ Plain(passed)
    BY <2>2, <2>3, <2>6, PassedPlain
  <2> QED
    BY <2>5, <2>7
<1>4. PICK t : t = Encode(b, passed)
  OBVIOUS
<1>5. /\ t.carry = held /\ Opened(t.anthropic)
      /\ Continues(passed, s.openai, t.openai) /\ Continues(passed, s.anthropic, t.anthropic)
  <2>1. /\ b.carry = held /\ b.openai = s.openai /\ b.anthropic = s.anthropic
        /\ Opened(b.anthropic)
    BY <1>1, <1>2 DEF Passes
  <2> QED
    BY <1>3, <1>4, <2>1, EncodeDoes
<1>6. <<>> \in Text /\ th \o <<>> = th
  BY ShortTexts, Joined
<1>7. ~t.openai.is_thinking /\ Heard(t.openai, th, S \o passed)
  <2>1. ~t.openai.is_thinking /\ Effect(s.openai, t.openai, <<>>, passed)
    BY <1>2, <1>5 DEF Continues
  <2>2. Heard(t.openai, th \o <<>>, S \o passed)
    BY <1>2, <1>6, <2>1, HeardMore
  <2> QED
    BY <1>6, <2>1, <2>2
<1>8. ~t.anthropic.is_thinking /\ Heard(t.anthropic, th, S \o passed)
  <2>1. ~t.anthropic.is_thinking /\ Effect(s.anthropic, t.anthropic, <<>>, passed)
    BY <1>2, <1>5 DEF Continues
  <2>2. Heard(t.anthropic, th \o <<>>, S \o passed)
    BY <1>2, <1>6, <2>1, HeardMore
  <2> QED
    BY <1>6, <2>1, <2>2
<1> QED
  BY <1>1, <1>3, <1>4, <1>5, <1>7, <1>8 DEF InSpeech, Passes

\* The model begins to think, before it has said a word.
LEMMA YieldOpen ==
    ASSUME NEW s \in StreamState, NEW th \in Text, InSpeech(s, th, <<>>)
    PROVE  InThought(Yield(s, ThinkOpen), th)
<1>1. PICK S \in Text :
         /\ S \o s.carry = <<>>
         /\ ~s.openai.is_thinking /\ Heard(s.openai, th, S)
         /\ ~s.anthropic.is_thinking /\ Heard(s.anthropic, th, S)
         /\ Opened(s.anthropic)
  BY DEF InSpeech
<1>2. PICK b \in StreamState, passed \in Text, held \in {<<>>, <<"<">>} :
         Passes(s, ThinkOpen, b, passed, held)
  BY OpeningTag, YieldEncodes
<1>3. S = <<>> /\ s.carry = <<>>
  BY <1>1, <1>2, ConcatEqualIffEmpty DEF Text, Passes
<1>4. passed = ThinkOpen /\ held = <<>>
  <2>1. <<>> \o ThinkOpen = ThinkOpen /\ ThinkOpen # <<>> /\ Last(ThinkOpen) # "<"
    BY OpeningTag, Joined DEF Last, ThinkOpen
  <2> QED
    BY <1>2, <1>3, <2>1 DEF Hold, Passes
<1>5. PICK t : t = Encode(b, ThinkOpen)
  OBVIOUS
<1>6. /\ t.carry = <<>> /\ t.openai = OpenAIChunk(s.openai, ThinkOpen)
      /\ t.anthropic = AnthropicChunk(s.anthropic, ThinkOpen)
  <2>1. b.carry = <<>> /\ b.openai = s.openai /\ b.anthropic = s.anthropic
    BY <1>2, <1>4 DEF Passes
  <2>2. ThinkOpen \in Text /\ ThinkOpen # <<>>
    BY OpeningTag
  <2>3. /\ t.carry = b.carry /\ t.openai = OpenAIChunk(b.openai, ThinkOpen)
        /\ t.anthropic = AnthropicChunk(b.anthropic, ThinkOpen)
    BY <1>5, <2>2, EncodeDoes
  <2> QED
    BY <2>1, <2>3
<1>7. /\ s.openai \in OpenAIState /\ s.anthropic \in Streaming
  BY DEF StreamState
<1>8. ~s.anthropic.text_block_started
  <2>1. s.anthropic.shown = <<>>
    <3>1. NewParser \in Parser
      BY DEF NewParser, Parser
    <3> QED
      BY <1>1, <1>3, <3>1, NothingFed DEF Heard
  <2>2. s.anthropic.text_block_started \in BOOLEAN
    BY <1>7 DEF Streaming, AnthropicState
  <2> QED
    BY <1>1, <2>1, <2>2 DEF Opened
<1>9. Begins(s.openai, t.openai) /\ Begins(s.anthropic, t.anthropic)
  <2>1. ThinkOpen \in Text
    BY OpeningTag
  <2>2. Begins(s.openai, t.openai)
    BY <1>6, <1>7, <2>1, OpenAIChunkDoes
  <2>3. Begins(s.anthropic, t.anthropic)
    BY <1>1, <1>6, <1>7, <1>8, <2>1, AnthropicChunkDoes
  <2> QED
    BY <2>2, <2>3
<1>10. Heard(t.openai, th, <<>>) /\ Heard(t.anthropic, th, <<>>)
  <2>1. <<>> \in Text /\ th \o <<>> = th /\ <<>> \o <<>> = <<>>
    BY ShortTexts, Joined
  <2>2. Heard(t.openai, th \o <<>>, <<>> \o <<>>)
    BY <1>1, <1>3, <1>9, <2>1, HeardMore DEF Begins
  <2>3. Heard(t.anthropic, th \o <<>>, <<>> \o <<>>)
    BY <1>1, <1>3, <1>9, <2>1, HeardMore DEF Begins
  <2> QED
    BY <2>1, <2>2, <2>3
<1>11. th \o <<>> = th
  BY Joined
<1> QED
  BY <1>2, <1>4, <1>5, <1>6, <1>9, <1>10, <1>11 DEF InThought, Begins, Passes

\* The model stops to think: what was held back was no tag.
LEMMA YieldClose ==
    ASSUME NEW s \in StreamState, NEW th \in Text, InThought(s, th)
    PROVE  InSpeech(Yield(s, ThinkClose), th, <<>>)
<1>1. PICK R \in Text :
         /\ R \o s.carry = th
         /\ s.openai.is_thinking /\ Heard(s.openai, R, <<>>)
         /\ s.anthropic.is_thinking /\ Heard(s.anthropic, R, <<>>)
  BY DEF InThought
<1>2. PICK b \in StreamState, passed \in Text, held \in {<<>>, <<"<">>} :
         Passes(s, ThinkClose, b, passed, held)
  BY ClosingTag, YieldEncodes
<1>3. PICK x \in {<<>>, <<"<">>} : x = s.carry
  BY DEF StreamState
<1> DEFINE chunk == x \o ThinkClose
<1>4. chunk \in Text /\ chunk # <<>> /\ Last(chunk) # "<"
  BY ClosingChunk
<1> HIDE DEF chunk
<1>5. passed = chunk /\ held = <<>>
  BY <1>2, <1>3, <1>4 DEF Hold, Passes, chunk
<1>6. PICK t : t = Encode(b, chunk)
  OBVIOUS
<1>7. /\ t.carry = <<>> /\ t.openai = OpenAIChunk(s.openai, chunk)
      /\ t.anthropic = AnthropicChunk(s.anthropic, chunk)
  <2>1. b.carry = <<>> /\ b.openai = s.openai /\ b.anthropic = s.anthropic
    BY <1>2, <1>5 DEF Passes
  <2>2. /\ t.carry = b.carry /\ t.openai = OpenAIChunk(b.openai, chunk)
        /\ t.anthropic = AnthropicChunk(b.anthropic, chunk)
    BY <1>4, <1>6, EncodeDoes
  <2> QED
    BY <2>1, <2>2
<1>8. /\ s.openai \in OpenAIState /\ s.anthropic \in Streaming
  BY DEF StreamState
<1>9. /\ Stops(x, s.openai, t.openai) /\ Stops(x, s.anthropic, t.anthropic)
      /\ Opened(t.anthropic)
  <2>1. Stops(x, s.openai, t.openai)
    BY <1>1, <1>4, <1>7, <1>8, OpenAIChunkDoes DEF chunk
  <2>2. Stops(x, s.anthropic, t.anthropic) /\ Opened(t.anthropic)
    BY <1>1, <1>4, <1>7, <1>8, AnthropicChunkDoes DEF chunk
  <2> QED
    BY <2>1, <2>2
<1>10. Heard(t.openai, th, <<>>) /\ Heard(t.anthropic, th, <<>>)
  <2>1. <<>> \in Text /\ R \o x = th /\ <<>> \o <<>> = <<>> /\ x \in Text
    BY <1>1, <1>3, ShortTexts, Joined
  <2>2. Heard(t.openai, R \o x, <<>> \o <<>>)
    BY <1>1, <1>9, <2>1, HeardMore DEF Stops
  <2>3. Heard(t.anthropic, R \o x, <<>> \o <<>>)
    BY <1>1, <1>9, <2>1, HeardMore DEF Stops
  <2> QED
    BY <2>1, <2>2, <2>3
<1>11. <<>> \in Text /\ <<>> \o <<>> = <<>>
  BY ShortTexts, Joined
<1> QED
  BY <1>2, <1>5, <1>6, <1>7, <1>9, <1>10, <1>11 DEF InSpeech, Stops, Passes

-----------------------------------------------------------------------------
(***************************************************************************)
(* What an orderly stream has come to: what the encoders were given is     *)
(* what the model thought and said, and until it speaks it has said        *)
(* nothing.                                                                *)
(***************************************************************************)
Apart ==
    upstream # "finished" =>
        IF think_open THEN content = <<>> /\ InThought(Stream, thinking)
        ELSE InSpeech(Stream, thinking, content)

ApartToTheEnd ==
    upstream = "finished" =>
        LET read == feed(NewParser, content)
        IN  /\ openai.reasoning = thinking /\ anthropic.reasoning = thinking
            /\ openai.calls = Calls(full_text) /\ anthropic.calls = Calls(full_text)
            /\ openai.shown = IF Calls(full_text) > 0 THEN read.text
                              ELSE read.text \o flush(read.parser)

ApartInv == Orderly => Apart /\ ApartToTheEnd

\* Orderly is what was orderly before, and no more is thought once the model
\* has spoken.
LEMMA OrderlyBefore ==
    ASSUME StreamsInv, NEW piece \in Text, Thought(piece) \/ Said(piece), Orderly'
    PROVE  /\ Orderly /\ Plain(thinking) /\ Plain(content)
           /\ Plain(thinking') /\ Plain(content')
           /\ Thought(piece) => content = <<>>
<1>1. thinking \in Text /\ content \in Text /\ late \in BOOLEAN
  BY DEF StreamsInv, StreamsTypeOK
<1>2. ~late' /\ Plain(thinking') /\ Plain(content')
  BY DEF Orderly, Plain
<1>3. /\ thinking' = thinking \o piece \/ thinking' = thinking
      /\ content' = content \o piece \/ content' = content
      /\ late' = late \/ late' = (late \/ content # <<>>)
  BY DEF Thought, Said
<1>4. Plain(thinking)
  BY <1>1, <1>2, <1>3, PlainParts
<1>5. Plain(content)
  BY <1>1, <1>2, <1>3, PlainParts
<1>6. ~late
  BY <1>1, <1>2, <1>3
<1>7. Thought(piece) => content = <<>>
  BY <1>2 DEF Thought
<1> QED
  BY <1>2, <1>4, <1>5, <1>6, <1>7 DEF Orderly, Plain

\* What the encoders are given is what the variables then hold.
LEMMA Received ==
    ASSUME NEW s \in StreamState, Receive(s)
    PROVE  /\ \A th : InThought(s, th) => InThought(Stream', th)
           /\ \A th, said : InSpeech(s, th, said) => InSpeech(Stream', th, said)
<1>1. Stream'.carry = s.carry /\ Stream'.openai = s.openai /\ Stream'.anthropic = s.anthropic
  BY DEF Receive, Stream
<1> QED
  BY <1>1 DEF InThought, InSpeech

\* The stream where a fragment of thinking begins, and where one of the
\* response does.
LEMMA OpeningThinks ==
    ASSUME NEW s \in StreamState, NEW th \in Text,
           IF think_open THEN InThought(s, th) ELSE InSpeech(s, th, <<>>)
    PROVE  InThought(Opening(s), th)
BY YieldOpen DEF Opening

LEMMA ClosingSpeaks ==
    ASSUME NEW s \in StreamState, NEW th \in Text, NEW said,
           IF think_open THEN said = <<>> /\ InThought(s, th) ELSE InSpeech(s, th, said)
    PROVE  InSpeech(Closing(s), th, said)
BY YieldClose DEF Closing

\* A fragment of thinking.
LEMMA ThinkFragmentApart ==
    ASSUME StreamsInv, ApartInv, NEW piece \in Pieces, ThinkFragment(piece)
    PROVE  ApartInv'
<1> SUFFICES ASSUME Orderly' PROVE Apart' /\ ApartToTheEnd'
  BY DEF ApartInv
<1>1. /\ piece \in Text /\ upstream = "open" /\ upstream' = "open" /\ think_open'
      /\ Receive(Yield(Opening(Stream), piece)) /\ Thought(piece)
  BY PiecesAssumption DEF ThinkFragment, Line
<1>2. Orderly /\ Plain(thinking') /\ content = <<>> /\ content' = <<>>
  BY <1>1, OrderlyBefore DEF Thought
<1>3. PICK th \in Text : th = thinking /\ Plain(th \o piece) /\ thinking' = th \o piece
  BY <1>1, <1>2 DEF StreamsInv, StreamsTypeOK, Thought
<1>4. Stream \in StreamState
  BY <1>1, OpenStream
<1>5. IF think_open THEN InThought(Stream, th) ELSE InSpeech(Stream, th, <<>>)
  BY <1>1, <1>2, <1>3 DEF ApartInv, Apart
<1>6. PICK s \in StreamState : s = Opening(Stream) /\ InThought(s, th)
  BY <1>4, <1>5, OpeningThinks, TagsKeep
<1>7. PICK t \in StreamState : t = Yield(s, piece) /\ InThought(t, th \o piece)
  BY <1>1, <1>3, <1>6, YieldThought, YieldKeeps
<1>8. InThought(Stream', th \o piece)
  BY <1>1, <1>6, <1>7, Received
<1> QED
  BY <1>1, <1>2, <1>3, <1>8 DEF Apart, ApartToTheEnd

\* A fragment of the response.
LEMMA ResponseFragmentApart ==
    ASSUME StreamsInv, ApartInv, NEW piece \in Pieces, ResponseFragment(piece)
    PROVE  ApartInv'
<1> SUFFICES ASSUME Orderly' PROVE Apart' /\ ApartToTheEnd'
  BY DEF ApartInv
<1>1. /\ piece \in Text /\ upstream = "open" /\ upstream' = "open" /\ think_open' = FALSE
      /\ Receive(Yield(Closing(Stream), piece)) /\ Said(piece)
  BY PiecesAssumption DEF ResponseFragment, Line
<1>2. Orderly /\ Plain(content') /\ thinking' = thinking
  BY <1>1, OrderlyBefore DEF Said
<1>3. PICK th \in Text, said \in Text :
         th = thinking /\ said = content /\ Plain(said \o piece) /\ content' = said \o piece
  BY <1>1, <1>2 DEF StreamsInv, StreamsTypeOK, Said
<1>4. Stream \in StreamState
  BY <1>1, OpenStream
<1>5. IF think_open THEN said = <<>> /\ InThought(Stream, th) ELSE InSpeech(Stream, th, said)
  BY <1>1, <1>2, <1>3 DEF ApartInv, Apart
<1>6. PICK s \in StreamState : s = Closing(Stream) /\ InSpeech(s, th, said)
  BY <1>4, <1>5, ClosingSpeaks, TagsKeep
<1>7. PICK t \in StreamState : t = Yield(s, piece) /\ InSpeech(t, th, said \o piece)
  BY <1>1, <1>3, <1>6, YieldSpeech, YieldKeeps
<1>8. InSpeech(Stream', th, said \o piece)
  BY <1>1, <1>6, <1>7, Received
<1> QED
  BY <1>1, <1>2, <1>3, <1>8 DEF Apart, ApartToTheEnd

\* More of the fragment that came last.
LEMMA MoreTextApart ==
    ASSUME StreamsInv, ApartInv, NEW piece \in Pieces, MoreText(piece)
    PROVE  ApartInv'
<1> SUFFICES ASSUME Orderly' PROVE Apart' /\ ApartToTheEnd'
  BY DEF ApartInv
<1>1. /\ piece \in Text /\ upstream = "open" /\ upstream' = "open"
      /\ think_open' = think_open /\ Receive(Yield(Stream, piece))
      /\ IF think_open THEN Thought(piece) ELSE Said(piece)
  BY PiecesAssumption DEF MoreText, Line
<1>2. Orderly /\ Plain(thinking') /\ Plain(content')
  BY <1>1, OrderlyBefore
<1>3. PICK th \in Text, said \in Text : th = thinking /\ said = content
  BY DEF StreamsInv, StreamsTypeOK
<1>4. Stream \in StreamState
  BY <1>1, OpenStream
<1>5. CASE think_open
  <2>1. Thought(piece) /\ content = <<>> /\ content' = <<>> /\ thinking' = th \o piece
    BY <1>1, <1>2, <1>3, <1>5 DEF ApartInv, Apart, Thought
  <2>2. Plain(th \o piece) /\ InThought(Stream, th)
    BY <1>1, <1>2, <1>3, <1>5, <2>1 DEF ApartInv, Apart
  <2>3. PICK t \in StreamState : t = Yield(Stream, piece) /\ InThought(t, th \o piece)
    BY <1>1, <1>4, <2>2, YieldThought, YieldKeeps
  <2>4. InThought(Stream', th \o piece)
    BY <1>1, <2>3, Received
  <2> QED
    BY <1>1, <1>5, <2>1, <2>4 DEF Apart, ApartToTheEnd
<1>6. CASE ~think_open
  <2>1. content' = said \o piece /\ thinking' = th
    BY <1>1, <1>3, <1>6 DEF Said
  <2>2. Plain(said \o piece) /\ InSpeech(Stream, th, said)
    BY <1>1, <1>2, <1>3, <1>6, <2>1 DEF ApartInv, Apart
  <2>3. PICK t \in StreamState : t = Yield(Stream, piece) /\ InSpeech(t, th, said \o piece)
    BY <1>1, <1>3, <1>4, <2>2, YieldSpeech, YieldKeeps
  <2>4. InSpeech(Stream', th, said \o piece)
    BY <1>1, <2>3, Received
  <2> QED
    BY <1>1, <1>6, <2>1, <2>4 DEF Apart, ApartToTheEnd
<1> QED
  BY <1>5, <1>6

\* At the end what was held back is said, too.
LEMMA Drained ==
    ASSUME NEW s \in StreamState, NEW th \in Text, NEW said, InSpeech(s, th, said), NEW t,
           t = Encode([s EXCEPT !.carry = <<>>], s.carry)
    PROVE  /\ t \in StreamState /\ t.full = Words(s)
           /\ Heard(t.openai, th, said) /\ Heard(t.anthropic, th, said)
<1>1. PICK x \in {<<>>, <<"<">>} : x = s.carry
  BY DEF StreamState
<1>2. x \in Text /\ Plain(x)
  <2>1. PICK n \in {0, 1} : n = Len(x) /\ x \in Text
    BY ShortTexts
  <2>2. 1 .. n - 1 = {}
    OBVIOUS
  <2> QED
    BY <2>1, <2>2 DEF Plain, Has, Tags
<1> DEFINE b == [s EXCEPT !.carry = <<>>]
<1>3. /\ b \in StreamState /\ b.full = s.full /\ b.openai = s.openai
      /\ b.anthropic = s.anthropic
  BY DEF StreamState
<1>4. t = Encode(b, x)
  BY <1>1
<1> HIDE DEF b
<1>5. t \in StreamState /\ t.full = Words(s)
  BY <1>1, <1>2, <1>3, <1>4, EncodeKeeps DEF Words
<1>6. Continues(x, s.openai, t.openai) /\ Continues(x, s.anthropic, t.anthropic)
  <2>1. Continues(x, b.openai, t.openai) /\ Continues(x, b.anthropic, t.anthropic)
    BY <1>2, <1>3, <1>4, EncodeDoes
  <2> QED
    BY <1>3, <2>1
<1>7. PICK S \in Text :
         /\ S \o x = said
         /\ ~s.openai.is_thinking /\ Heard(s.openai, th, S)
         /\ ~s.anthropic.is_thinking /\ Heard(s.anthropic, th, S)
  BY <1>1 DEF InSpeech
<1>8. <<>> \in Text /\ th \o <<>> = th
  BY ShortTexts, Joined
<1>9. Heard(t.openai, th, said)
  <2>1. Effect(s.openai, t.openai, <<>>, x)
    BY <1>6, <1>7 DEF Continues
  <2>2. Heard(t.openai, th \o <<>>, S \o x)
    BY <1>2, <1>7, <1>8, <2>1, HeardMore
  <2> QED
    BY <1>7, <1>8, <2>2
<1>10. Heard(t.anthropic, th, said)
  <2>1. Effect(s.anthropic, t.anthropic, <<>>, x)
    BY <1>6, <1>7 DEF Continues
  <2>2. Heard(t.anthropic, th \o <<>>, S \o x)
    BY <1>2, <1>7, <1>8, <2>1, HeardMore
  <2> QED
    BY <1>7, <1>8, <2>2
<1> QED
  BY <1>5, <1>9, <1>10

\* The end of the stream.
LEMMA FinishedApart ==
    ASSUME StreamsInv, ApartInv, Finished
    PROVE  ApartInv'
<1> SUFFICES ASSUME Orderly' PROVE Apart' /\ ApartToTheEnd'
  BY DEF ApartInv
<1>1. /\ upstream = "open" /\ upstream' = "finished"
      /\ thinking' = thinking /\ content' = content /\ late' = late
  BY DEF Finished
<1>2. Orderly
  BY <1>1 DEF Orderly
<1>3. PICK th \in Text, said \in Text : th = thinking /\ said = content
  BY DEF StreamsInv, StreamsTypeOK
<1>4. Stream \in StreamState
  BY <1>1, OpenStream
<1>5. IF think_open THEN said = <<>> /\ InThought(Stream, th) ELSE InSpeech(Stream, th, said)
  BY <1>1, <1>2, <1>3 DEF ApartInv, Apart
<1>6. PICK s \in StreamState : s = Closing(Stream) /\ InSpeech(s, th, said)
  BY <1>4, <1>5, ClosingSpeaks, TagsKeep
<1>7. PICK t \in StreamState :
         /\ t = Encode([s EXCEPT !.carry = <<>>], s.carry)
         /\ Heard(t.openai, th, said) /\ Heard(t.anthropic, th, said)
  BY <1>6, Drained
<1>8. t.full \in Text /\ t.openai \in OpenAIState /\ t.anthropic \in Streaming
  BY DEF StreamState
<1>9. PICK o : /\ o = EndOpenAI(t.openai, t.full)
               /\ o.reasoning = t.openai.reasoning /\ o.calls = Calls(t.full)
               /\ o.shown = IF Calls(t.full) > 0 THEN t.openai.shown
                            ELSE t.openai.shown \o flush(t.openai.parser)
  <2>1. PICK e \in OpenAIState : e = t.openai
    BY <1>8
  <2>2. PICK o : o = EndOpenAI(e, t.full)
    OBVIOUS
  <2>3. /\ o.reasoning = e.reasoning /\ o.calls = Calls(t.full)
        /\ o.shown = IF Calls(t.full) > 0 THEN e.shown ELSE e.shown \o flush(e.parser)
    BY <1>8, <2>2, EndOpenAIEnds
  <2> QED
    BY <2>1, <2>2, <2>3
<1>10. PICK a : /\ a = EndAnthropic(t.anthropic, t.full)
                /\ a.reasoning = t.anthropic.reasoning /\ a.calls = Calls(t.full)
  BY <1>8, EndAnthropicEnds
<1> DEFINE u == [t EXCEPT !.openai = o, !.anthropic = a]
<1>11. Receive(u)
  BY <1>6, <1>7, <1>9, <1>10 DEF Finished
<1>12. u.full = t.full /\ u.openai = o /\ u.anthropic = a
  BY DEF StreamState
<1> HIDE DEF u
<1>13. full_text' = t.full /\ openai' = o /\ anthropic' = a
  BY <1>11, <1>12 DEF Receive
<1> QED
  BY <1>1, <1>3, <1>7, <1>9, <1>10, <1>13 DEF Apart, ApartToTheEnd, Heard

\* The ends that finish nothing.
LEMMA BrokenOffApart ==
    ASSUME StreamsInv, ApartInv, Failed \/ ClientGone
    PROVE  ApartInv'
<1>1. /\ upstream = "open" /\ upstream' # "finished"
      /\ UNCHANGED <<think_open, carry, full_text, openai, thinking, content, late>>
      /\ anthropic' = anthropic \/ anthropic' = [anthropic EXCEPT !.reader = Frames!error_frame(@)]
  BY DEF Failed, ClientGone
<1>2. anthropic \in AnthropicState
  BY <1>1 DEF StreamsInv, UnderWay, Streaming
<1>3. /\ anthropic'.is_thinking = anthropic.is_thinking
      /\ anthropic'.parser = anthropic.parser /\ anthropic'.shown = anthropic.shown
      /\ anthropic'.reasoning = anthropic.reasoning
      /\ anthropic'.text_block_started = anthropic.text_block_started
  BY <1>1, <1>2 DEF AnthropicState
<1>4. /\ Stream'.carry = Stream.carry /\ Stream'.openai = Stream.openai
      /\ Stream'.anthropic = anthropic' /\ Stream.anthropic = anthropic
  BY <1>1 DEF Stream
<1>5. /\ \A th : InThought(Stream, th) => InThought(Stream', th)
      /\ \A th, said : InSpeech(Stream, th, said) => InSpeech(Stream', th, said)
  BY <1>3, <1>4 DEF InThought, InSpeech, Heard, Opened
<1> QED
  BY <1>1, <1>5 DEF ApartInv, Apart, ApartToTheEnd, Orderly

\* Nothing was given, nothing was shown.
LEMMA ApartInitEstablishes ==
    Init => ApartInv
<1> SUFFICES ASSUME Init PROVE Apart /\ ApartToTheEnd
  BY DEF ApartInv
<1>1. /\ upstream = "open" /\ think_open = FALSE /\ carry = <<>>
      /\ openai = NewOpenAI /\ anthropic = NewAnthropic /\ thinking = <<>> /\ content = <<>>
  BY DEF Init
<1>2. NewParser \in Parser /\ <<>> \in Text /\ <<>> \o <<>> = <<>>
  BY ShortTexts, Joined DEF NewParser, Parser
<1>3. Heard(NewOpenAI, <<>>, <<>>) /\ Heard(NewAnthropic, <<>>, <<>>)
  BY <1>2, NothingFed DEF Heard, NewOpenAI, NewAnthropic
<1>4. /\ Stream.carry = <<>> /\ Stream.openai = NewOpenAI /\ Stream.anthropic = NewAnthropic
      /\ ~NewOpenAI.is_thinking /\ ~NewAnthropic.is_thinking /\ Opened(NewAnthropic)
  BY <1>1 DEF Stream, NewOpenAI, NewAnthropic, Opened
<1>5. InSpeech(Stream, <<>>, <<>>)
  BY <1>2, <1>3, <1>4 DEF InSpeech
<1> QED
  BY <1>1, <1>5 DEF Apart, ApartToTheEnd

LEMMA ApartStepKeeps ==
    StreamsInv /\ ApartInv /\ [Next]_vars => ApartInv'
<1> SUFFICES ASSUME StreamsInv, ApartInv, [Next]_vars PROVE ApartInv'
  OBVIOUS
<1>1. ASSUME NEW piece \in Pieces, ThinkFragment(piece) PROVE ApartInv'
  BY <1>1, ThinkFragmentApart
<1>2. ASSUME NEW piece \in Pieces, ResponseFragment(piece) PROVE ApartInv'
  BY <1>2, ResponseFragmentApart
<1>3. ASSUME NEW piece \in Pieces, MoreText(piece) PROVE ApartInv'
  BY <1>3, MoreTextApart
<1>4. CASE Finished
  BY <1>4, FinishedApart
<1>5. CASE Failed \/ ClientGone
  BY <1>5, BrokenOffApart
<1>6. CASE UNCHANGED vars
  BY <1>6 DEF vars, ApartInv, Apart, ApartToTheEnd, Orderly, Stream
<1> QED
  BY <1>1, <1>2, <1>3, <1>4, <1>5, <1>6 DEF Next

\* What was shown is the beginning of what there is to show.
LEMMA JoinIsPrefix ==
    ASSUME NEW x \in Text, NEW y \in Text
    PROVE  IsPrefix(x, x \o y) /\ IsPrefix(x, x)
<1>1. /\ x \o y \in Text /\ Len(x) \in Nat /\ Len(y) \in Nat /\ Len(x \o y) = Len(x) + Len(y)
      /\ \A i \in 1 .. Len(x) : (x \o y)[i] = x[i]
  BY Joined
<1>2. SubSeq(x \o y, 1, Len(x)) = SubSeq(x, 1, Len(x))
  BY <1>1
<1> QED
  BY <1>1, <1>2 DEF IsPrefix

\* What the parser has passed on of a text is the beginning of what the text
\* says, and what it still holds at the end is the rest.
LEMMA FedIsSpoken ==
    ASSUME NEW S \in Text, NEW x \in Text, NEW said, said = S \o x
    PROVE  IsPrefix(feed(NewParser, S).text, Spoken(said))
<1>1. NewParser \in Parser
  BY DEF NewParser, Parser
<1>2. PICK p \in Parser, w \in Text :
         p = feed(NewParser, S).parser /\ w = feed(NewParser, S).text
  BY <1>1, FeedTyped
<1>3. PICK q \in Parser, v \in Text : q = feed(p, x).parser /\ v = feed(p, x).text
  BY FeedTyped
<1>4. feed(NewParser, said).text = w \o v
  BY <1>1, <1>2, <1>3, FeedJoined
<1>5. PICK z \in Text : z = flush(feed(NewParser, said).parser)
  <2>1. said \in Text
    BY Joined
  <2> QED
    BY <1>1, <2>1, FeedTyped, RestsAreText
<1>6. Spoken(said) = (w \o v) \o z
  <2>1. said \in Text
    BY Joined
  <2> QED
    BY <1>4, <1>5, <2>1, SpokenIsFed
<1>7. PICK vz \in Text : vz = v \o z
  BY Joined
<1>8. (w \o v) \o z = w \o vz
  <2>1. (w \o v) \o z = w \o (v \o z)
    BY Associates, Zenon
  <2> QED
    BY <1>7, <2>1
<1>9. Spoken(said) = w \o vz
  BY <1>6, <1>8
<1> QED
  BY <1>2, <1>9, JoinIsPrefix

THEOREM ApartInvariance == Spec => [](StreamsInv /\ ApartInv)
<1>1. StreamsInv /\ ApartInv /\ [Next]_vars => StreamsInv' /\ ApartInv'
  BY StreamsStepKeeps, ApartStepKeeps
<1> QED
  BY <1>1, StreamsInitEstablishes, ApartInitEstablishes, PTL DEF Spec

\* For every answer, every cut and both encoders.
THEOREM ThinkingStaysApart == Spec => []ThinkingKeptApart
<1>1. StreamsInv /\ ApartInv => ThinkingKeptApart
  <2> SUFFICES ASSUME StreamsInv, Apart, ApartToTheEnd PROVE ThinkingKeptApart
    BY DEF ApartInv, ThinkingKeptApart
  <2>1. PICK th \in Text, said \in Text : th = thinking /\ said = content
    BY DEF StreamsInv, StreamsTypeOK
  <2>2. CASE upstream = "finished"
    <3>1. /\ openai.reasoning = th /\ anthropic.reasoning = th
          /\ openai.calls = Calls(full_text)
          /\ openai.shown = IF Calls(full_text) > 0 THEN feed(NewParser, said).text
                            ELSE feed(NewParser, said).text
                                     \o flush(feed(NewParser, said).parser)
      BY <2>1, <2>2 DEF ApartToTheEnd
    <3>2. Calls(full_text) \in Nat
      BY CallsAreCounted DEF StreamsInv, StreamsTypeOK
    <3>3. openai.calls = 0 => openai.shown = Spoken(said)
      <4>1. openai.calls = 0 => ~(Calls(full_text) > 0)
        BY <3>1, <3>2
      <4>2. openai.calls = 0 =>
               openai.shown = feed(NewParser, said).text \o flush(feed(NewParser, said).parser)
        BY <3>1, <4>1
      <4> QED
        BY <4>2, SpokenIsFed
    <3>4. <<>> \in Text /\ said \o <<>> = said
      BY ShortTexts, Joined
    <3>5. IsPrefix(feed(NewParser, said).text, Spoken(said))
      BY <3>4, FedIsSpoken
    <3>6. IsPrefix(openai.shown, Spoken(said))
      <4>1. Spoken(said) \in Text
        BY SelectIsText DEF Spoken, RemoveSpans
      <4>2. IsPrefix(Spoken(said), Spoken(said))
        BY <4>1, JoinIsPrefix
      <4>3. openai.shown = feed(NewParser, said).text \/ openai.shown = Spoken(said)
        BY <3>1, SpokenIsFed
      <4> QED
        BY <3>5, <4>2, <4>3
    <3>7. IsPrefix(th, th)
      BY JoinIsPrefix
    <3> QED
      BY <2>1, <2>2, <3>1, <3>3, <3>6, <3>7 DEF ThinkingKeptApart
  <2>3. CASE upstream # "finished"
    <3>1. carry \in Text
      BY ShortTexts DEF StreamsInv, StreamsTypeOK
    <3>2. Stream.carry = carry /\ Stream.openai = openai /\ Stream.anthropic = anthropic
      BY DEF Stream
    <3>3. \E R \in Text, S \in Text, x \in Text, y \in Text :
             /\ th = R \o x /\ said = S \o y
             /\ Heard(openai, R, S) /\ Heard(anthropic, R, S)
      <4>1. CASE think_open
        <5>1. said = <<>> /\ \E R \in Text : R \o carry = th /\ Heard(openai, R, <<>>)
                                             /\ Heard(anthropic, R, <<>>)
          BY <2>1, <2>3, <3>2, <4>1 DEF Apart, InThought
        <5>2. <<>> \in Text /\ <<>> \o <<>> = <<>>
          BY ShortTexts, Joined
        <5> QED
          BY <3>1, <5>1, <5>2
      <4>2. CASE ~think_open
        <5>1. \E S \in Text : S \o carry = said /\ Heard(openai, th, S)
                              /\ Heard(anthropic, th, S)
          BY <2>1, <2>3, <3>2, <4>2 DEF Apart, InSpeech
        <5>2. <<>> \in Text /\ th \o <<>> = th
          BY ShortTexts, Joined
        <5> QED
          BY <3>1, <5>1, <5>2
      <4> QED
        BY <4>1, <4>2
    <3>4. PICK R \in Text, S \in Text, x \in Text, y \in Text :
             /\ th = R \o x /\ said = S \o y
             /\ Heard(openai, R, S) /\ Heard(anthropic, R, S)
      BY <3>3
    <3>5. IsPrefix(R, th) /\ IsPrefix(feed(NewParser, S).text, Spoken(said))
      BY <3>4, JoinIsPrefix, FedIsSpoken
    <3> QED
      BY <2>1, <2>3, <3>4, <3>5 DEF ThinkingKeptApart, Heard
  <2> QED
    BY <2>2, <2>3
<1> QED
  BY <1>1, ApartInvariance, PTL

-----------------------------------------------------------------------------
(***************************************************************************)
(* The thinking in the text of an answer.                                  *)
(***************************************************************************)

\* A thought as send_message writes it.
Block(x) == (ThinkOpen \o x) \o ThinkClose

LEMMA BlockIs ==
    ASSUME NEW x \in Text
    PROVE  /\ Block(x) \in Text /\ Len(Block(x)) = Len(x) + 4
           /\ Block(x)[1] = "<" /\ Block(x)[2] = "think>"
           /\ \A i \in 1 .. Len(x) : Block(x)[i + 2] = x[i]
           /\ Block(x)[Len(x) + 3] = "<" /\ Block(x)[Len(x) + 4] = "/think>"
<1>1. /\ ThinkOpen \in Text /\ Len(ThinkOpen) = 2
      /\ ThinkOpen[1] = "<" /\ ThinkOpen[2] = "think>"
  BY OpeningTag DEF ThinkOpen
<1>2. /\ ThinkClose \in Text /\ Len(ThinkClose) = 2
      /\ ThinkClose[1] = "<" /\ ThinkClose[2] = "/think>"
  BY ClosingTag
<1>3. PICK n \in Nat : n = Len(x)
  BY MarksOf
<1>4. PICK y : y = ThinkOpen \o x
  OBVIOUS
<1>5. /\ y \in Text /\ Len(y) = 2 + n
      /\ \A i \in 1 .. 2 : y[i] = ThinkOpen[i]
      /\ \A i \in 1 .. n : y[2 + i] = x[i]
  <2>1. ThinkOpen \o x \in Text /\ Len(ThinkOpen \o x) = Len(ThinkOpen) + Len(x)
        /\ (\A i \in 1 .. Len(ThinkOpen) : (ThinkOpen \o x)[i] = ThinkOpen[i])
        /\ (\A i \in 1 .. Len(x) : (ThinkOpen \o x)[Len(ThinkOpen) + i] = x[i])
    BY <1>1, Joined
  <2> QED
    BY <1>1, <1>3, <1>4, <2>1
<1>6. PICK b : b = y \o ThinkClose
  OBVIOUS
<1>7. /\ b \in Text /\ Len(b) = (2 + n) + 2
      /\ \A i \in 1 .. 2 + n : b[i] = y[i]
      /\ \A i \in 1 .. 2 : b[(2 + n) + i] = ThinkClose[i]
  <2>1. y \o ThinkClose \in Text /\ Len(y \o ThinkClose) = Len(y) + Len(ThinkClose)
        /\ (\A i \in 1 .. Len(y) : (y \o ThinkClose)[i] = y[i])
        /\ (\A i \in 1 .. Len(ThinkClose) : (y \o ThinkClose)[Len(y) + i] = ThinkClose[i])
    BY <1>2, <1>5, Joined
  <2> QED
    BY <1>2, <1>5, <1>6, <2>1
<1>8. b = Block(x)
  BY <1>4, <1>6 DEF Block
<1>9. b[1] = "<" /\ b[2] = "think>"
  <2>1. 1 \in 1 .. 2 + n /\ 2 \in 1 .. 2 + n /\ 1 \in 1 .. 2 /\ 2 \in 1 .. 2
    OBVIOUS
  <2> QED
    BY <1>1, <1>5, <1>7, <2>1
<1>10. \A i \in 1 .. n : b[i + 2] = x[i]
  <2>1. \A i \in 1 .. n : i + 2 = 2 + i /\ 2 + i \in 1 .. 2 + n
    OBVIOUS
  <2> QED
    BY <1>5, <1>7, <2>1
<1>11. b[n + 3] = "<" /\ b[n + 4] = "/think>"
  <2>1. n + 3 = (2 + n) + 1 /\ n + 4 = (2 + n) + 2 /\ 1 \in 1 .. 2 /\ 2 \in 1 .. 2
    OBVIOUS
  <2> QED
    BY <1>2, <1>7, <2>1
<1> QED
  BY <1>3, <1>7, <1>8, <1>9, <1>10, <1>11

\* The thought is all that stands between its tags.
LEMMA BlockTags ==
    ASSUME NEW x \in Text, Plain(x)
    PROVE  /\ Tags(Block(x), "think>") = {1}
           /\ Tags(Block(x), "/think>") = {Len(x) + 3}
<1>1. PICK n \in Nat : n = Len(x)
  BY MarksOf
<1>2. PICK b \in Text : b = Block(x)
  BY BlockIs
<1>3. /\ Len(b) = n + 4 /\ b[1] = "<" /\ b[2] = "think>"
      /\ \A i \in 1 .. n : b[i + 2] = x[i]
      /\ b[n + 3] = "<" /\ b[n + 4] = "/think>"
  BY <1>1, <1>2, BlockIs
<1>4. ASSUME NEW name \in {"think>", "/think>"}, NEW i \in 1 .. (n + 4) - 1,
             b[i] = "<", b[i + 1] = name
      PROVE  \/ i = 1 /\ name = "think>"
             \/ i = n + 3 /\ name = "/think>"
  <2>1. CASE i = 1
    BY <1>3, <1>4, <2>1
  <2>2. CASE i = n + 3
    <3>1. i + 1 = n + 4
      BY <2>2
    <3> QED
      BY <1>3, <1>4, <2>2, <3>1
  <2>3. CASE i # 1 /\ i # n + 3
    <3>1. CASE i = 2
      BY <1>3, <1>4, <3>1
    <3>2. CASE i = n + 2
      <4>1. i + 1 = n + 3
        BY <3>2
      <4> QED
        BY <1>3, <1>4, <4>1
    <3>3. CASE i # 2 /\ i # n + 2
      <4>1. PICK k \in 1 .. n - 1 : k + 2 = i
        <5>1. i - 2 \in 1 .. n - 1 /\ (i - 2) + 2 = i
          BY <2>3, <3>3
        <5> QED
          BY <5>1
      <4>2. k \in 1 .. n /\ k + 1 \in 1 .. n /\ (k + 1) + 2 = i + 1
        BY <4>1
      <4>3. x[k] = "<" /\ x[k + 1] = name
        BY <1>3, <1>4, <4>1, <4>2
      <4>4. k \in Tags(x, name)
        BY <1>1, <4>1, <4>3 DEF Tags
      <4> QED
        BY <4>4 DEF Plain, Has
    <3> QED
      BY <3>1, <3>2, <3>3
  <2> QED
    BY <2>1, <2>2, <2>3
<1>5. 1 \in 1 .. (n + 4) - 1 /\ n + 3 \in 1 .. (n + 4) - 1 /\ (n + 3) + 1 = n + 4 /\ 1 + 1 = 2
  OBVIOUS
<1>6. Tags(b, "think>") = {1}
  BY <1>3, <1>4, <1>5 DEF Tags
<1>7. Tags(b, "/think>") = {n + 3}
  BY <1>3, <1>4, <1>5 DEF Tags
<1> QED
  BY <1>1, <1>2, <1>6, <1>7

\* The tags of two texts that make none where they meet.
LEMMA TagsApart ==
    ASSUME NEW t \in Text, NEW w \in Text, NEW name,
           t # <<>> /\ w # <<>> => t[Len(t)] # "<" \/ w[1] # name
    PROVE  \A i : i \in Tags(t \o w, name)
                     <=> i \in Tags(t, name) \/ \E k \in Tags(w, name) : i = Len(t) + k
<1>1. Tags(t \o w, name) \subseteq Nat /\ Tags(w, name) \subseteq Nat /\ Len(t) \in Nat
  <2>1. t \o w \in Text
    BY Joined
  <2> QED
    BY <2>1, TagPlaces, Zenon
<1>2. ASSUME NEW i \in Tags(t \o w, name), i \notin Tags(t, name)
      PROVE  \E k \in Tags(w, name) : i = Len(t) + k
  <2>1. i - Len(t) \in Tags(w, name)
    BY <1>2, TagsJoined
  <2>2. i = Len(t) + (i - Len(t))
    BY <1>1
  <2> QED
    BY <2>1, <2>2
<1>3. ASSUME NEW k \in Tags(w, name)
      PROVE  Len(t) + k \in Tags(t \o w, name)
  BY TagsJoined
<1>4. ASSUME NEW i \in Tags(t, name)
      PROVE  i \in Tags(t \o w, name)
  BY TagsJoined
<1> QED
  BY <1>2, <1>3, <1>4

\* All of a text is in spans of thinking, and the last of them ends with it.
Covered(P) ==
    P # <<>> =>
        /\ Len(P) - 1 \in Tags(P, "/think>")
        /\ \A i \in 1 .. Len(P) :
              InSpan(P, Tags(P, "think>"), Tags(P, "/think>"), FALSE, i)

\* One thought, or else more than one tag that opens a thought.
Once(P, th) ==
    \/ P = <<>> /\ th = <<>>
    \/ P = Block(th)
    \/ \E i \in Tags(P, "think>"), j \in Tags(P, "think>") : i # j

Bare(P) == \A i \in 1 .. Len(P) : P[i] \in {"word", "<", "think>", "/think>"}

\* P is the thinking th with the tags around it.
Thoughts(P, th) ==
    /\ Covered(P)
    /\ Once(P, th)
    /\ Prose(th) => Bare(P)

LEMMA NoThoughts == Thoughts(<<>>, <<>>)
<1>1. \A i \in 1 .. Len(<<>>) : FALSE
  OBVIOUS
<1> QED
  BY <1>1 DEF Thoughts, Covered, Once, Bare

\* Prose in parts.
LEMMA ProseParts ==
    ASSUME NEW t \in Text, NEW w \in Text, Prose(t \o w)
    PROVE  Prose(t) /\ Prose(w)
<1> DEFINE n == Len(t)
           m == Len(w)
           u == t \o w
<1>1. /\ n \in Nat /\ m \in Nat /\ Len(u) = n + m
      /\ \A i \in 1 .. n : u[i] = t[i]
      /\ \A i \in 1 .. m : u[n + i] = w[i]
  BY Joined
<1> HIDE DEF n, m, u
<1>2. \A i \in 1 .. n + m : u[i] \in {"word", "<"}
  BY <1>1 DEF Prose, u
<1>3. ASSUME NEW i \in 1 .. n PROVE t[i] \in {"word", "<"}
  <2>1. i \in 1 .. n + m
    BY <1>1
  <2> QED
    BY <1>1, <1>2, <2>1
<1>4. ASSUME NEW i \in 1 .. m PROVE w[i] \in {"word", "<"}
  <2>1. n + i \in 1 .. n + m
    BY <1>1
  <2> QED
    BY <1>1, <1>2, <2>1
<1> QED
  BY <1>3, <1>4 DEF Prose, n, m

\* Another thought behind those there are.
LEMMA ThoughtsGrow ==
    ASSUME NEW P \in Text, NEW old \in Text, NEW x \in Text, Plain(x), Thoughts(P, old)
    PROVE  P \o Block(x) \in Text /\ Thoughts(P \o Block(x), old \o x)
<1>0. PICK Q, th : Q = P \o Block(x) /\ th = old \o x
  OBVIOUS
<1>1. PICK n \in Nat, k \in Nat : n = Len(P) /\ k = Len(x)
  BY MarksOf
<1>2. PICK b \in Text : b = Block(x)
  BY BlockIs
<1>3. /\ Len(b) = k + 4 /\ b[1] = "<" /\ b[2] = "think>" /\ b # <<>>
      /\ \A i \in 1 .. k : b[i + 2] = x[i]
      /\ b[k + 3] = "<" /\ b[k + 4] = "/think>"
      /\ Tags(b, "think>") = {1} /\ Tags(b, "/think>") = {k + 3}
  <2>1. /\ Len(b) = k + 4 /\ b[1] = "<" /\ b[2] = "think>"
        /\ \A i \in 1 .. k : b[i + 2] = x[i]
        /\ b[k + 3] = "<" /\ b[k + 4] = "/think>"
    BY <1>1, <1>2, BlockIs
  <2>2. Tags(b, "think>") = {1} /\ Tags(b, "/think>") = {k + 3}
    BY <1>1, <1>2, BlockTags
  <2>3. b # <<>>
    BY <2>1, MarksOf
  <2> QED
    BY <2>1, <2>2, <2>3
<1>4. /\ Q \in Text /\ Len(Q) = n + (k + 4)
      /\ \A i \in 1 .. n : Q[i] = P[i]
      /\ \A i \in 1 .. k + 4 : Q[n + i] = b[i]
  <2>1. /\ P \o b \in Text /\ Len(P \o b) = Len(P) + Len(b)
        /\ \A i \in 1 .. Len(P) : (P \o b)[i] = P[i]
        /\ \A i \in 1 .. Len(b) : (P \o b)[Len(P) + i] = b[i]
    BY <1>2, Joined
  <2> QED
    BY <1>0, <1>1, <1>2, <1>3, <2>1
<1> DEFINE O == Tags(P, "think>")
           C == Tags(P, "/think>")
<1>5. O \subseteq 1 .. n /\ C \subseteq 1 .. n
  BY <1>1, TagPlaces
<1>6. Tags(Q, "think>") = O \cup {n + 1} /\ Tags(Q, "/think>") = C \cup {n + (k + 3)}
  <2>0. ASSUME NEW name \in {"think>", "/think>"}
        PROVE  \A i : i \in Tags(P \o b, name)
                         <=> i \in Tags(P, name) \/ \E j \in Tags(b, name) : i = Len(P) + j
    <3>1. b[1] # name
      BY <1>3
    <3> QED
      BY <1>2, <3>1, TagsApart
  <2>1. \A i : i \in Tags(Q, "think>")
                  <=> i \in O \/ \E j \in Tags(b, "think>") : i = Len(P) + j
    BY <1>0, <1>2, <2>0
  <2>2. \A i : i \in Tags(Q, "/think>")
                  <=> i \in C \/ \E j \in Tags(b, "/think>") : i = Len(P) + j
    BY <1>0, <1>2, <2>0
  <2> HIDE DEF O, C
  <2>3. Tags(Q, "think>") = O \cup {n + 1}
    BY <1>1, <1>3, <2>1
  <2>4. Tags(Q, "/think>") = C \cup {n + (k + 3)}
    BY <1>1, <1>3, <2>2
  <2> QED
    BY <2>3, <2>4
<1> HIDE DEF O, C
<1>7. Covered(Q)
  <2>0. PICK O2, C2 : /\ O2 = Tags(Q, "think>") /\ C2 = Tags(Q, "/think>")
                      /\ O2 = O \cup {n + 1} /\ C2 = C \cup {n + (k + 3)}
    BY <1>6
  <2>1. Len(Q) - 1 \in C2
    BY <1>1, <1>4, <2>0
  <2>2. ASSUME NEW i \in 1 .. n + (k + 4)
        PROVE  InSpan(Q, O2, C2, FALSE, i)
    <3>1. CASE i <= n
      <4>1. i \in 1 .. n /\ P # <<>>
        BY <1>1, <3>1
      <4>2. InSpan(P, O, C, FALSE, i)
        BY <1>1, <4>1 DEF Thoughts, Covered, O, C
      <4>3. PICK o \in O : o <= i /\ (\A c \in C : c > o => c + 1 >= i)
                           /\ \E c \in C : c > o
        BY <4>2 DEF InSpan
      <4>4. o \in O2 /\ (\E c \in C2 : c > o)
        BY <2>0, <4>3
      <4>5. \A c \in C2 : c > o => c + 1 >= i
        BY <2>0, <3>1, <4>3
      <4> QED
        BY <4>3, <4>4, <4>5 DEF InSpan
    <3>2. CASE i > n
      <4>1. n + 1 \in O2 /\ n + 1 <= i
        BY <2>0, <3>2
      <4>2. ASSUME NEW c \in C2, c > n + 1
            PROVE  c + 1 >= i
        <5>1. c \notin C
          <6>1. n \in Nat /\ \A d \in C : d \in Nat /\ ~(d > n + 1)
            BY <1>1, <1>5
          <6> QED
            BY <4>2, <6>1
        <5>2. c = n + (k + 3)
          BY <2>0, <5>1
        <5> QED
          BY <1>1, <5>2
      <4>3. n + (k + 3) \in C2 /\ n + (k + 3) > n + 1
        BY <1>1, <2>0
      <4> QED
        BY <4>1, <4>2, <4>3 DEF InSpan
    <3>3. i <= n \/ i > n
      BY <1>1
    <3> QED
      BY <3>1, <3>2, <3>3
  <2> QED
    BY <1>4, <2>0, <2>1, <2>2 DEF Covered
<1>8. Once(Q, th)
  <2>1. CASE P = <<>> /\ old = <<>>
    <3>1. Q = Block(x) /\ th = x
      BY <1>0, <1>2, <2>1, Joined
    <3> QED
      BY <3>1 DEF Once
  <2>2. CASE P = Block(old)
    <3>1. Len(old) \in Nat /\ n = Len(old) + 4 /\ P[1] = "<" /\ P[2] = "think>"
      BY <1>1, <2>2, BlockIs, MarksOf
    <3>2. 1 \in O
      <4>1. 1 \in 1 .. n - 1 /\ 1 + 1 = 2
        BY <3>1
      <4> QED
        BY <1>1, <3>1, <4>1 DEF O, Tags
    <3>3. n + 1 # 1
      BY <3>1
    <3> QED
      BY <1>6, <3>2, <3>3 DEF Once
  <2>3. CASE \E i \in O, j \in O : i # j
    BY <1>6, <2>3 DEF Once
  <2> QED
    BY <2>1, <2>2, <2>3 DEF Thoughts, Once, O
<1>9. ASSUME Prose(th)
      PROVE  Bare(Q)
  <2>1. Prose(old) /\ Prose(x)
    BY <1>0, <1>9, ProseParts
  <2>2. \A i \in 1 .. n : P[i] \in {"word", "<", "think>", "/think>"}
    BY <1>1, <2>1 DEF Thoughts, Bare
  <2>3. \A i \in 1 .. k + 4 : b[i] \in {"word", "<", "think>", "/think>"}
    <3>1. \A i \in 1 .. k : b[i + 2] \in {"word", "<"}
      BY <1>1, <1>3, <2>1 DEF Prose
    <3>2. ASSUME NEW i \in 1 .. k + 4, i # 1, i # 2, i # k + 3, i # k + 4
          PROVE  \E j \in 1 .. k : i = j + 2
      <4>1. i - 2 \in 1 .. k /\ i = (i - 2) + 2
        BY <3>2
      <4> QED
        BY <4>1
    <3> QED
      BY <1>3, <3>1, <3>2
  <2>4. ASSUME NEW i \in 1 .. n + (k + 4)
        PROVE  Q[i] \in {"word", "<", "think>", "/think>"}
    <3>1. CASE i <= n
      BY <1>4, <2>2, <3>1
    <3>2. CASE i > n
      <4>1. i - n \in 1 .. k + 4 /\ n + (i - n) = i
        BY <1>1, <3>2
      <4> QED
        BY <1>4, <2>3, <4>1
    <3> QED
      BY <1>1, <3>1, <3>2
  <2> QED
    BY <1>4, <2>4 DEF Bare
<1> QED
  BY <1>0, <1>4, <1>7, <1>8, <1>9 DEF Thoughts

-----------------------------------------------------------------------------
(***************************************************************************)
(* What follows the thinking is read as if it stood alone.                 *)
(***************************************************************************)

\* As many things stand behind a text as stood there before it was put in front.
LEMMA ShiftedCount ==
    ASSUME NEW n \in Nat, NEW A \in SUBSET Nat, IsFiniteSet(A), NEW B,
           \A i : i \in B <=> \E a \in A : i = n + a
    PROVE  Cardinality(B) = Cardinality(A)
<1> DEFINE f == [a \in A |-> n + a]
<1>1. f \in [A -> B]
  OBVIOUS
<1>2. \A a, b \in A : f[a] = f[b] => a = b
  OBVIOUS
<1>3. \A i \in B : \E a \in A : f[a] = i
  OBVIOUS
<1> HIDE DEF f
<1>4. f \in Bijection(A, B)
  BY <1>1, <1>2, <1>3 DEF Bijection, Injection, Surjection, IsInjective
<1>5. ExistsBijection(A, B)
  BY <1>4 DEF ExistsBijection
<1> QED
  BY <1>5, FS_Bijection

\* Nothing but thinking in front: P ends with the tag that closes it, or there
\* was none.
Ends(P) == P # <<>> => P[Len(P)] = "/think>"

LEMMA ThoughtsEnd ==
    ASSUME NEW P \in Text, Covered(P)
    PROVE  Ends(P)
<1> SUFFICES ASSUME P # <<>> PROVE P[Len(P)] = "/think>"
  BY DEF Ends
<1>1. PICK n \in Nat : n = Len(P)
  BY MarksOf
<1>2. n - 1 \in Tags(P, "/think>")
  BY <1>1 DEF Covered
<1>3. P[(n - 1) + 1] = "/think>"
  BY <1>2 DEF Tags
<1> QED
  BY <1>1, <1>3

\* The tags of the thinking and of what follows it.
LEMMA TagsBehind ==
    ASSUME NEW P \in Text, Ends(P), NEW w \in Text, NEW name
    PROVE  \A i : i \in Tags(P \o w, name)
                     <=> i \in Tags(P, name) \/ \E k \in Tags(w, name) : i = Len(P) + k
<1>1. P # <<>> => P[Len(P)] # "<"
  BY DEF Ends
<1> QED
  BY <1>1, TagsApart

LEMMA BareHasNone ==
    ASSUME NEW P \in Text, Bare(P), NEW name \in {"tool_call>", "/tool_call>"}
    PROVE  Tags(P, name) = {}
<1>1. ASSUME NEW i \in Tags(P, name)
      PROVE  FALSE
  <2>1. i + 1 \in 1 .. Len(P) /\ P[i + 1] = name
    BY TagPlaces DEF Tags
  <2> QED
    BY <2>1 DEF Bare
<1> QED
  BY <1>1

\* No fence stands in prose.
LEMMA FencedBehind ==
    ASSUME NEW P \in Text, Bare(P), NEW w \in Text, NEW k \in 1 .. Len(w)
    PROVE  Fenced(P \o w, Len(P) + k) <=> Fenced(w, k)
<1>1. PICK n \in Nat, m \in Nat, u \in Text : n = Len(P) /\ m = Len(w) /\ u = P \o w
  BY Joined
<1>2. /\ \A i \in 1 .. n : u[i] = P[i]
      /\ \A i \in 1 .. m : u[n + i] = w[i]
  BY <1>1, Joined
<1> DEFINE A == {j \in 1 .. k - 1 : w[j] = "fence"}
           B == {j \in 1 .. (n + k) - 1 : u[j] = "fence"}
<1>3. k \in Nat /\ k <= m
  BY <1>1
<1>4. A \in SUBSET Nat /\ IsFiniteSet(A)
  <2>1. A \in SUBSET (1 .. k - 1)
    OBVIOUS
  <2>2. IsFiniteSet(1 .. k - 1)
    BY <1>3, FS_Interval
  <2>3. IsFiniteSet(A)
    <3> HIDE DEF A
    <3> QED
      BY <2>1, <2>2, FS_Subset
  <2> QED
    BY <2>3
<1>5. ASSUME NEW i \in B
      PROVE  \E a \in A : i = n + a
  <2>1. i \in 1 .. (n + k) - 1 /\ u[i] = "fence"
    OBVIOUS
  <2>2. i > n
    <3>1. ASSUME i <= n PROVE FALSE
      <4>1. i \in 1 .. n
        BY <1>1, <2>1, <3>1
      <4>2. P[i] = "fence"
        BY <1>2, <2>1, <4>1
      <4> QED
        BY <1>1, <4>1, <4>2 DEF Bare
    <3> QED
      BY <1>1, <2>1, <3>1
  <2>3. i - n \in 1 .. k - 1 /\ i - n \in 1 .. m /\ n + (i - n) = i
    BY <1>1, <1>3, <2>1, <2>2
  <2>4. w[i - n] = "fence"
    BY <1>2, <2>1, <2>3
  <2> QED
    BY <2>3, <2>4
<1>6. ASSUME NEW a \in A
      PROVE  n + a \in B
  <2>1. a \in 1 .. k - 1 /\ w[a] = "fence" /\ a \in 1 .. m
    BY <1>3
  <2>2. n + a \in 1 .. (n + k) - 1 /\ u[n + a] = "fence"
    BY <1>1, <1>2, <1>3, <2>1
  <2> QED
    BY <2>2
<1>7. Cardinality(B) = Cardinality(A)
  <2>1. \A i : i \in B <=> \E a \in A : i = n + a
    <3> HIDE DEF A, B
    <3> QED
      BY <1>5, <1>6
  <2> HIDE DEF A, B
  <2> QED
    BY <1>1, <1>4, <2>1, ShiftedCount
<1> QED
  BY <1>1, <1>7 DEF Fenced

\* Nor an object.
LEMMA ObjectBehind ==
    ASSUME NEW P \in Text, NEW w \in Text, NEW k \in 1 .. Len(w)
    PROVE  /\ ObjectOf(w, k) = 0 => ObjectOf(P \o w, Len(P) + k) = 0
           /\ ObjectOf(w, k) # 0 =>
                 /\ ObjectOf(w, k) \in 1 .. Len(w)
                 /\ ObjectOf(P \o w, Len(P) + k) = Len(P) + ObjectOf(w, k)
<1>1. PICK n \in Nat, m \in Nat, u \in Text :
         n = Len(P) /\ m = Len(w) /\ u = P \o w /\ Len(u) = n + m
  <2>1. /\ P \o w \in Text /\ Len(P) \in Nat /\ Len(w) \in Nat
        /\ Len(P \o w) = Len(P) + Len(w)
    BY Joined
  <2> QED
    BY <2>1
<1>2. \A i \in 1 .. m : u[n + i] = w[i]
  BY <1>1, Joined
<1>3. k \in Nat /\ k <= m /\ k >= 1
  BY <1>1
<1> DEFINE A == {j \in k + 1 .. m : w[j] \in Objects}
           B == {j \in (n + k) + 1 .. n + m : u[j] \in Objects}
<1>4. A \in SUBSET Nat /\ B \in SUBSET Nat /\ A \in SUBSET (1 .. m)
  BY <1>1, <1>3
<1>5. ASSUME NEW i \in B
      PROVE  i - n \in A /\ i = n + (i - n)
  <2>1. i \in (n + k) + 1 .. n + m /\ u[i] \in Objects
    OBVIOUS
  <2>2. i - n \in k + 1 .. m /\ i - n \in 1 .. m /\ n + (i - n) = i
    BY <1>1, <1>3, <2>1
  <2>3. w[i - n] \in Objects
    BY <1>2, <2>1, <2>2
  <2> QED
    BY <2>2, <2>3
<1>6. ASSUME NEW a \in A
      PROVE  n + a \in B
  <2>1. a \in k + 1 .. m /\ w[a] \in Objects /\ a \in 1 .. m
    BY <1>3
  <2>2. n + a \in (n + k) + 1 .. n + m /\ u[n + a] \in Objects
    BY <1>1, <1>2, <1>3, <2>1
  <2> QED
    BY <2>2
<1>7. /\ ObjectOf(w, k) = IF A = {} THEN 0 ELSE Min(A)
      /\ ObjectOf(u, n + k) = IF B = {} THEN 0 ELSE Min(B)
  BY <1>1 DEF ObjectOf
<1> HIDE DEF A, B
<1>8. A = {} <=> B = {}
  BY <1>5, <1>6
<1>9. ASSUME A # {}
      PROVE  Min(A) \in 1 .. m /\ Min(B) = n + Min(A)
  <2>1. PICK a \in A : a = Min(A) /\ \A y \in A : a <= y
    BY <1>4, <1>9, LeastMember
  <2>2. PICK b \in B : b = Min(B) /\ \A y \in B : b <= y
    BY <1>4, <1>8, <1>9, LeastMember
  <2>3. b <= n + a
    BY <1>6, <2>2
  <2>4. a <= b - n
    BY <1>5, <2>1
  <2>5. b = n + a
    <3>1. n \in Nat /\ a \in Nat /\ b \in Nat
      BY <1>1, <1>4, <2>1, <2>2
    <3> QED
      BY <2>3, <2>4, <3>1
  <2> QED
    BY <1>4, <2>1, <2>2, <2>5
<1>10. CASE A = {}
  BY <1>1, <1>7, <1>8, <1>10
<1>11. CASE A # {}
  <2>1. ObjectOf(w, k) = Min(A) /\ ObjectOf(u, n + k) = Min(B)
    BY <1>7, <1>8, <1>11
  <2>2. Min(A) \in 1 .. m /\ Min(B) = n + Min(A) /\ Min(A) # 0
    BY <1>1, <1>9, <1>11
  <2> QED
    BY <1>1, <2>1, <2>2
<1> QED
  BY <1>10, <1>11

\* The calls of an answer are those of what follows its thinking.
LEMMA CallsBehind ==
    ASSUME NEW P \in Text, Bare(P), Ends(P), NEW w \in Text
    PROVE  /\ Calls(P \o w) = Calls(w)
           /\ CallTags(P \o w) = {} <=> CallTags(w) = {}
<1>1. PICK n \in Nat, m \in Nat, u \in Text : n = Len(P) /\ m = Len(w) /\ u = P \o w
  <2>1. P \o w \in Text /\ Len(P) \in Nat /\ Len(w) \in Nat
    BY Joined
  <2> QED
    BY <2>1
<1>2. \A i \in 1 .. m : u[n + i] = w[i]
  BY <1>1, Joined
<1>3. \A i : i \in CallTags(u) <=> \E k \in CallTags(w) : i = n + k
  <2>1. \A i : i \in Tags(u, "tool_call>") <=> \E k \in Tags(w, "tool_call>") : i = n + k
    BY <1>1, TagsBehind, BareHasNone
  <2>2. \A k \in Tags(w, "tool_call>") : Fenced(u, n + k) <=> Fenced(w, k)
    BY <1>1, TagPlaces, FencedBehind
  <2> QED
    BY <2>1, <2>2 DEF CallTags
<1> DEFINE Real(t, i) == LET j == ObjectOf(t, i) IN j # 0 /\ t[j] = "{json}"
           A == {k \in CallTags(w) : Real(w, k)}
           B == {i \in CallTags(u) : Real(u, i)}
<1>4. ASSUME NEW k \in CallTags(w)
      PROVE  Real(u, n + k) <=> Real(w, k)
  <2>1. k \in 1 .. Len(w)
    BY TagPlaces DEF CallTags
  <2>2. CASE ObjectOf(w, k) = 0
    BY <1>1, <2>1, <2>2, ObjectBehind
  <2>3. CASE ObjectOf(w, k) # 0
    <3>1. PICK j \in 1 .. m : j = ObjectOf(w, k) /\ ObjectOf(u, n + k) = n + j
      BY <1>1, <2>1, <2>3, ObjectBehind
    <3>2. n + j # 0 /\ u[n + j] = w[j]
      BY <1>1, <1>2, <3>1
    <3> QED
      BY <2>3, <3>1, <3>2
  <2> QED
    BY <2>2, <2>3
<1>5. \A i : i \in B <=> \E k \in A : i = n + k
  <2> HIDE DEF Real
  <2> QED
    BY <1>3, <1>4
<1>6. A \in SUBSET Nat /\ IsFiniteSet(A)
  <2>1. A \in SUBSET (1 .. m)
    BY <1>1, TagPlaces DEF CallTags
  <2> HIDE DEF A
  <2>2. IsFiniteSet(1 .. m)
    BY <1>1, FS_Interval
  <2>3. 1 .. m \subseteq Nat
    OBVIOUS
  <2> QED
    BY <2>1, <2>2, <2>3, FS_Subset
<1>7. Cardinality(B) = Cardinality(A)
  <2> HIDE DEF A, B
  <2> QED
    BY <1>1, <1>5, <1>6, ShiftedCount
<1>8. Calls(u) = Calls(w)
  BY <1>7 DEF Calls
<1> QED
  BY <1>1, <1>3, <1>8

\* A text of which the first part stays, or goes.
LEMMA SelectKeepsFirst ==
    ASSUME NEW s \in Text, NEW t \in Text, NEW p, NEW r,
           \A i \in 1 .. Len(s) : i \in p,
           \A i \in 1 .. Len(t) : Len(s) + i \in p <=> i \in r
    PROVE  Select(s \o t, p) = s \o Select(t, r)
<1>1. \A i \in 1 .. Len(s) : i \in p <=> i \in p
  OBVIOUS
<1>2. Select(s \o t, p) = Select(s, p) \o Select(t, r)
  BY <1>1, SelectJoined
<1>3. Select(s, p) = s
  BY SelectAll
<1> QED
  BY <1>2, <1>3

LEMMA SelectDropsFirst ==
    ASSUME NEW s \in Text, NEW t \in Text, NEW p,
           \A i \in 1 .. Len(s) : i \notin p,
           \A i \in 1 .. Len(t) : Len(s) + i \in p
    PROVE  Select(s \o t, p) = t
<1>0. PICK all : all = 1 .. Len(t)
  OBVIOUS
<1>1. \A i \in 1 .. Len(s) : i \in p <=> i \in p
  OBVIOUS
<1>2. \A i \in 1 .. Len(t) : Len(s) + i \in p <=> i \in all
  BY <1>0
<1>3. Select(s \o t, p) = Select(s, p) \o Select(t, all)
  BY <1>1, <1>2, SelectJoined
<1>4. Select(s, p) = <<>>
  BY SelectNone
<1>5. Select(t, all) = t
  BY <1>0, SelectAll
<1>6. <<>> \o t = t
  BY Joined
<1> QED
  BY <1>3, <1>4, <1>5, <1>6

\* What is left of an answer when its calls are taken out.
LEMMA CallsGoBehind ==
    ASSUME NEW P \in Text, Bare(P), Ends(P), NEW w \in Text
    PROVE  RemoveSpans(P \o w, "tool_call>", "/tool_call>", TRUE) = P \o Spoken(w)
<1>1. PICK n \in Nat, m \in Nat, u \in Text :
         n = Len(P) /\ m = Len(w) /\ u = P \o w /\ Len(u) = n + m
  <2>1. /\ P \o w \in Text /\ Len(P) \in Nat /\ Len(w) \in Nat
        /\ Len(P \o w) = Len(P) + Len(w)
    BY Joined
  <2> QED
    BY <2>1
<1>2. PICK O, C, O2, C2 :
         /\ O = Tags(w, "tool_call>") /\ C = Tags(w, "/tool_call>")
         /\ O2 = Tags(u, "tool_call>") /\ C2 = Tags(u, "/tool_call>")
  OBVIOUS
<1>3. O \subseteq 1 .. m /\ C \subseteq 1 .. m
  BY <1>1, <1>2, TagPlaces
<1>4. \A i : i \in O2 <=> \E k \in O : i = n + k
  BY <1>1, <1>2, TagsBehind, BareHasNone
<1>5. \A i : i \in C2 <=> \E k \in C : i = n + k
  BY <1>1, <1>2, TagsBehind, BareHasNone
<1>6. ASSUME NEW i \in 1 .. n
      PROVE  ~InSpan(u, O2, C2, TRUE, i)
  <2>1. \A o \in O2 : ~(o <= i)
    BY <1>1, <1>3, <1>4
  <2> QED
    BY <2>1 DEF InSpan
<1>7. ASSUME NEW i \in 1 .. m
      PROVE  InSpan(u, O2, C2, TRUE, n + i) <=> InSpan(w, O, C, TRUE, i)
  <2>1. ASSUME NEW o \in O, o <= i, \A c \in C : c > o => c + 1 >= i
        PROVE  n + o \in O2 /\ n + o <= n + i
               /\ \A c \in C2 : c > n + o => c + 1 >= n + i
    <3>1. n + o \in O2 /\ n + o <= n + i
      BY <1>1, <1>3, <1>4, <2>1
    <3>2. ASSUME NEW c \in C2, c > n + o
          PROVE  c + 1 >= n + i
      <4>1. PICK d \in C : c = n + d
        BY <1>5
      <4>2. d \in Nat /\ o \in Nat /\ n \in Nat /\ i \in Nat
        BY <1>1, <1>3, <4>1
      <4>3. d > o
        BY <3>2, <4>1, <4>2
      <4>4. d + 1 >= i
        BY <2>1, <4>1, <4>3
      <4> QED
        BY <4>1, <4>2, <4>4
    <3> QED
      BY <3>1, <3>2
  <2>2. ASSUME NEW o \in O2, o <= n + i, \A c \in C2 : c > o => c + 1 >= n + i
        PROVE  \E a \in O : a <= i /\ \A c \in C : c > a => c + 1 >= i
    <3>1. PICK a \in O : o = n + a
      BY <1>4
    <3>2. a \in Nat /\ n \in Nat /\ i \in Nat
      BY <1>1, <1>3, <3>1
    <3>3. a <= i
      BY <2>2, <3>1, <3>2
    <3>4. ASSUME NEW c \in C, c > a
          PROVE  c + 1 >= i
      <4>1. c \in Nat /\ n + c \in C2
        BY <1>3, <1>5
      <4>2. n + c > o
        BY <3>1, <3>2, <3>4, <4>1
      <4>3. n + c + 1 >= n + i
        BY <2>2, <4>1, <4>2
      <4> QED
        BY <3>2, <4>1, <4>3
    <3> QED
      BY <3>1, <3>3, <3>4
  <2>3. InSpan(w, O, C, TRUE, i) => InSpan(u, O2, C2, TRUE, n + i)
    BY <2>1 DEF InSpan
  <2>4. InSpan(u, O2, C2, TRUE, n + i) => InSpan(w, O, C, TRUE, i)
    BY <2>2 DEF InSpan
  <2> QED
    BY <2>3, <2>4
<1> DEFINE p == {i \in 1 .. n + m : ~InSpan(u, O2, C2, TRUE, i)}
           r == {i \in 1 .. m : ~InSpan(w, O, C, TRUE, i)}
<1>8. RemoveSpans(u, "tool_call>", "/tool_call>", TRUE) = Select(u, p)
  BY <1>1, <1>2 DEF RemoveSpans
<1>9. Spoken(w) = Select(w, r)
  BY <1>1, <1>2 DEF Spoken, RemoveSpans
<1>10. \A i \in 1 .. n : i \in p <=> i \in 1 .. n
  <2>1. \A i \in 1 .. n : i \in 1 .. n + m
    BY <1>1
  <2> QED
    BY <1>6, <2>1
<1>11. \A i \in 1 .. m : n + i \in p <=> i \in r
  <2>1. \A i \in 1 .. m : n + i \in 1 .. n + m
    BY <1>1
  <2> QED
    BY <1>7, <2>1
<1> HIDE DEF p, r
<1>12. Select(P \o w, p) = P \o Select(w, r)
  <2>1. \A i \in 1 .. Len(P) : i \in p
    BY <1>1, <1>10
  <2>2. \A i \in 1 .. Len(w) : Len(P) + i \in p <=> i \in r
    BY <1>1, <1>11
  <2> QED
    BY <2>1, <2>2, SelectKeepsFirst
<1> QED
  BY <1>1, <1>8, <1>9, <1>12

\* Where there are no tags of calls none are dropped.
LEMMA NoCallTags ==
    ASSUME NEW text \in Text, Tags(text, "tool_call>") = {}, Tags(text, "/tool_call>") = {}
    PROVE  WithoutCallTags(text) = text
<1>1. \A i \in 1 .. Len(text) : i \in Beside(text, {} \cup {})
  BY DEF Beside
<1>2. WithoutCallTags(text) = Select(text, Beside(text, {} \cup {}))
  BY DEF WithoutCallTags
<1> QED
  BY <1>1, <1>2, SelectAll

\* The thinking goes, and nothing behind it.
LEMMA ThoughtsGo ==
    ASSUME NEW P \in Text, Covered(P), NEW v \in Text, Tags(v, "think>") = {}
    PROVE  RemoveSpans(P \o v, "think>", "/think>", FALSE) = v
<1>1. PICK n \in Nat, m \in Nat, u \in Text :
         n = Len(P) /\ m = Len(v) /\ u = P \o v /\ Len(u) = n + m
  <2>1. /\ P \o v \in Text /\ Len(P) \in Nat /\ Len(v) \in Nat
        /\ Len(P \o v) = Len(P) + Len(v)
    BY Joined
  <2> QED
    BY <2>1
<1>2. PICK O, C, O2, C2 :
         /\ O = Tags(P, "think>") /\ C = Tags(P, "/think>")
         /\ O2 = Tags(u, "think>") /\ C2 = Tags(u, "/think>")
  OBVIOUS
<1>3. O \subseteq 1 .. n - 1 /\ C \subseteq 1 .. n - 1
  BY <1>1, <1>2 DEF Tags
<1>4. /\ O2 = O
      /\ C \subseteq C2 /\ \A c \in C2 : c \in C \/ c > n
  <2>1. Ends(P)
    BY ThoughtsEnd
  <2>2. /\ \A i : i \in O2 <=> i \in O \/ \E k \in Tags(v, "think>") : i = n + k
        /\ \A i : i \in C2 <=> i \in C \/ \E k \in Tags(v, "/think>") : i = n + k
    BY <1>1, <1>2, <2>1, TagsBehind
  <2>3. \A k \in Tags(v, "/think>") : k \in Nat /\ k >= 1
    BY TagPlaces
  <2>4. \A k \in Tags(v, "/think>") : n + k > n
    BY <1>1, <2>3
  <2> QED
    BY <2>2, <2>4
<1>5. ASSUME NEW i \in 1 .. n
      PROVE  InSpan(u, O2, C2, FALSE, i)
  <2>1. P # <<>>
    BY <1>1, MarksOf
  <2>2. InSpan(P, O, C, FALSE, i)
    BY <1>1, <1>2, <2>1 DEF Covered
  <2>3. PICK o \in O : o <= i /\ (\A c \in C : c > o => c + 1 >= i) /\ \E c \in C : c > o
    BY <2>2 DEF InSpan
  <2>4. o \in O2 /\ \E c \in C2 : c > o
    BY <1>4, <2>3
  <2>5. ASSUME NEW c \in C2, c > o
        PROVE  c + 1 >= i
    <3>1. CASE c \in C
      BY <2>3, <2>5, <3>1
    <3>2. CASE c > n
      <4>1. \A k \in Tags(u, "/think>") : k \in Nat
        BY TagPlaces
      <4>2. c \in Nat
        BY <1>2, <4>1
      <4> QED
        BY <1>1, <3>2, <4>2
    <3> QED
      BY <1>4, <3>1, <3>2
  <2> QED
    BY <2>3, <2>4, <2>5 DEF InSpan
<1>6. ASSUME NEW i \in 1 .. m
      PROVE  ~InSpan(u, O2, C2, FALSE, n + i)
  <2>1. ASSUME NEW o \in O, \A c \in C2 : c > o => c + 1 >= n + i
        PROVE  FALSE
    <3>1. n - 1 \in C /\ o \in 1 .. n - 1
      <4>1. P # <<>>
        BY <1>1, <1>3, MarksOf
      <4> QED
        BY <1>1, <1>2, <1>3, <4>1 DEF Covered
    <3>2. o # n - 1
      <4>1. P[o + 1] = "think>" /\ P[(n - 1) + 1] = "/think>"
        BY <1>2, <3>1 DEF Tags
      <4> QED
        BY <4>1
    <3>3. n - 1 > o /\ n - 1 \in C2
      BY <1>1, <1>4, <3>1, <3>2
    <3>4. (n - 1) + 1 >= n + i
      BY <2>1, <3>3
    <3> QED
      BY <1>1, <3>4
  <2> QED
    BY <1>4, <2>1 DEF InSpan
<1> DEFINE p == {i \in 1 .. n + m : ~InSpan(u, O2, C2, FALSE, i)}
<1>7. RemoveSpans(u, "think>", "/think>", FALSE) = Select(u, p)
  BY <1>1, <1>2 DEF RemoveSpans
<1>8. \A i \in 1 .. n : i \in p <=> i \in {}
  BY <1>5
<1>9. \A i \in 1 .. m : n + i \in p <=> i \in 1 .. m
  <2>1. \A i \in 1 .. m : n + i \in 1 .. n + m
    BY <1>1
  <2> QED
    BY <1>6, <2>1
<1> HIDE DEF p
<1>10. Select(P \o v, p) = v
  <2>1. \A i \in 1 .. Len(P) : i \notin p
    BY <1>1, <1>8
  <2>2. \A i \in 1 .. Len(v) : Len(P) + i \in p
    BY <1>1, <1>9
  <2> QED
    BY <2>1, <2>2, SelectDropsFirst
<1> QED
  BY <1>1, <1>7, <1>10

\* The text a conversation is bound under is what the answer says behind its
\* thinking and outside its calls.
LEMMA CleanBehind ==
    ASSUME NEW P \in Text, Covered(P), Bare(P), NEW w \in Text, WellTagged(w)
    PROVE  clean_text(P \o w) = Spoken(w)
<1>1. PICK v \in Text : v = Spoken(w)
  BY SelectIsText DEF Spoken, RemoveSpans
<1>2. /\ Tags(v, "tool_call>") = {} /\ Tags(v, "/tool_call>") = {}
      /\ Tags(v, "think>") = {}
  BY <1>1 DEF WellTagged, Has
<1>3. Ends(P)
  BY ThoughtsEnd
<1>4. P \o v \in Text
  BY Joined
<1>5. Tags(P \o v, "tool_call>") = {} /\ Tags(P \o v, "/tool_call>") = {}
  <2>1. ASSUME NEW name \in {"tool_call>", "/tool_call>"}
        PROVE  Tags(P \o v, name) = {}
    <3>1. Tags(P, name) = {} /\ Tags(v, name) = {}
      BY <1>2, BareHasNone
    <3> QED
      BY <1>3, <3>1, TagsBehind
  <2> QED
    BY <2>1
<1>6. companion_text(P \o w) = WithoutCallTags(P \o v)
  <2>1. CASE CallTags(P \o w) = {}
    <3>1. Tags(w, "tool_call>") = {}
      BY <1>3, <2>1, CallsBehind DEF WellTagged
    <3>2. Spoken(w) = w
      <4>1. \A i \in 1 .. Len(w) :
               ~InSpan(w, Tags(w, "tool_call>"), Tags(w, "/tool_call>"), TRUE, i)
        BY <3>1 DEF InSpan
      <4>2. PICK p : p = {i \in 1 .. Len(w) :
               ~InSpan(w, Tags(w, "tool_call>"), Tags(w, "/tool_call>"), TRUE, i)}
        OBVIOUS
      <4>3. 1 .. Len(w) \subseteq p
        BY <4>1, <4>2
      <4>4. Spoken(w) = Select(w, p)
        BY <4>2 DEF Spoken, RemoveSpans
      <4> QED
        BY <4>3, <4>4, SelectAll
    <3>3. v = w
      BY <1>1, <3>2
    <3>4. companion_text(P \o w) = WithoutCallTags(P \o w)
      BY <2>1 DEF companion_text
    <3> QED
      BY <3>3, <3>4
  <2>2. CASE CallTags(P \o w) # {}
    <3>1. companion_text(P \o w)
             = WithoutCallTags(RemoveSpans(P \o w, "tool_call>", "/tool_call>", TRUE))
      BY <2>2 DEF companion_text
    <3>2. RemoveSpans(P \o w, "tool_call>", "/tool_call>", TRUE) = P \o Spoken(w)
      BY <1>3, CallsGoBehind
    <3> QED
      BY <1>1, <3>1, <3>2
  <2> QED
    BY <2>1, <2>2
<1>7. WithoutCallTags(P \o v) = P \o v
  BY <1>4, <1>5, NoCallTags
<1>8. RemoveSpans(P \o v, "think>", "/think>", FALSE) = v
  BY <1>2, ThoughtsGo
<1>9. WithoutCallTags(v) = v
  BY <1>2, NoCallTags
<1> QED
  BY <1>1, <1>6, <1>7, <1>8, <1>9 DEF clean_text

\* What Python calls the first thought of an answer is all of it.
LEMMA FirstThoughtBehind ==
    ASSUME NEW P \in Text, NEW th \in Text, Thoughts(P, th), Plain(th),
           NEW w \in Text, Plain(w), Cardinality(Tags(P \o w, "think>")) <= 1
    PROVE  FirstThought(P \o w) = th
<1>1. PICK n \in Nat, m \in Nat, u \in Text : n = Len(P) /\ m = Len(w) /\ u = P \o w
  <2>1. P \o w \in Text /\ Len(P) \in Nat /\ Len(w) \in Nat
    BY Joined
  <2> QED
    BY <2>1
<1>2. Ends(P)
  BY ThoughtsEnd DEF Thoughts
<1>3. \A name \in {"think>", "/think>"} : Tags(u, name) = Tags(P, name)
  <2>1. ASSUME NEW name \in {"think>", "/think>"}
        PROVE  Tags(u, name) = Tags(P, name)
    <3>1. Tags(w, name) = {}
      BY DEF Plain, Has
    <3>2. \A i : i \in Tags(u, name)
                     <=> i \in Tags(P, name) \/ \E k \in Tags(w, name) : i = Len(P) + k
      BY <1>1, <1>2, TagsBehind
    <3>3. \A i : i \in Tags(u, name) <=> i \in Tags(P, name)
      BY <3>1, <3>2
    <3> QED
      BY <3>3
  <2> QED
    BY <2>1
<1>4. CASE P = <<>> /\ th = <<>>
  <2>1. Tags(P, "think>") = {}
    BY <1>4, MarksOf, TagPlaces
  <2>2. Tags(u, "think>") = {}
    BY <1>3, <2>1
  <2>3. FirstThought(u) = <<>>
    BY <2>2 DEF FirstThought
  <2> QED
    BY <1>1, <1>4, <2>3
<1>5. CASE P = Block(th)
  <2>1. PICK k \in Nat : k = Len(th)
    BY MarksOf
  <2>2. Tags(u, "think>") = {1} /\ Tags(u, "/think>") = {k + 3}
    BY <1>3, <1>5, <2>1, BlockTags
  <2>3. {o \in Tags(u, "think>") : \E c \in Tags(u, "/think>") : c > o} = {1}
    BY <2>2
  <2>4. Min({1}) = 1 /\ Min({k + 3}) = k + 3
    <3>1. {1} \in SUBSET Nat /\ {1} # {} /\ {k + 3} \in SUBSET Nat /\ {k + 3} # {}
      OBVIOUS
    <3>2. Min({1}) \in {1}
      BY <3>1, LeastMember
    <3>3. Min({k + 3}) \in {k + 3}
      BY <3>1, LeastMember
    <3> QED
      BY <3>2, <3>3
  <2>5. {c \in Tags(u, "/think>") : c > 1} = {k + 3}
    BY <2>2
  <2>6. FirstThought(u) = SubSeq(u, 3, k + 2)
    <3>1. FirstThought(u) = SubSeq(u, 1 + 2, (k + 3) - 1)
      BY <2>3, <2>4, <2>5 DEF FirstThought
    <3>2. 1 + 2 = 3 /\ (k + 3) - 1 = k + 2
      OBVIOUS
    <3> QED
      BY <3>1, <3>2
  <2>7. /\ Len(P) = k + 4
        /\ \A i \in 1 .. k : P[i + 2] = th[i]
    BY <1>5, <2>1, BlockIs
  <2>8. /\ Len(u) = (k + 4) + m
        /\ \A i \in 1 .. k : u[i + 2] = th[i]
    <3>1. Len(u) = n + m /\ \A i \in 1 .. n : u[i] = P[i]
      BY <1>1, Joined
    <3>2. \A i \in 1 .. k : i + 2 \in 1 .. k + 4
      OBVIOUS
    <3> QED
      BY <1>1, <2>7, <3>1, <3>2
  <2>9. SubSeq(u, 3, k + 2) = th
    <3>1. PICK x : x = SubSeq(u, 3, k + 2)
      OBVIOUS
    <3>2. x \in Text /\ Len(x) = k /\ \A i \in 1 .. k : x[i] = u[i + 2]
      <4>1. u \in Seq(Marks)
        BY DEF Text
      <4>2. x \in Seq(Marks) /\ Len(x) = k /\ \A i \in 1 .. k : x[i] = u[(3 + i) - 1]
        BY <2>8, <3>1, <4>1
      <4>3. \A i \in 1 .. k : (3 + i) - 1 = i + 2
        OBVIOUS
      <4> QED
        BY <4>2, <4>3 DEF Text
    <3>3. \A i \in 1 .. Len(th) : th[i] = x[i]
      BY <2>1, <2>8, <3>2
    <3> QED
      BY <2>1, <3>1, <3>2, <3>3, MarksOf
  <2> QED
    BY <1>1, <2>6, <2>9
<1>6. CASE \E i \in Tags(P, "think>"), j \in Tags(P, "think>") : i # j
  <2>1. PICK T : T = Tags(u, "think>")
    OBVIOUS
  <2>2. PICK i \in T, j \in T : i # j
    BY <1>3, <1>6, <2>1
  <2>3. IsFiniteSet(T)
    <3>1. PICK l \in Nat : l = Len(u) /\ T \subseteq 1 .. l
      BY <2>1, TagPlaces
    <3>2. IsFiniteSet(1 .. l)
      BY <3>1, FS_Interval
    <3> QED
      BY <3>1, <3>2, FS_Subset
  <2>4. Cardinality({i, j}) = 2 /\ IsFiniteSet({i, j})
    <3>1. IsFiniteSet({i}) /\ Cardinality({i}) = 1
      BY FS_Singleton
    <3>2. j \notin {i}
      BY <2>2
    <3>3. IsFiniteSet({i} \cup {j}) /\ Cardinality({i} \cup {j}) = 1 + 1
      BY <3>1, <3>2, FS_AddElement
    <3>4. {i} \cup {j} = {i, j}
      OBVIOUS
    <3> QED
      BY <3>3, <3>4
  <2>5. Cardinality({i, j}) <= Cardinality(T)
    BY <2>2, <2>3, FS_Subset
  <2>6. Cardinality(T) \in Nat
    BY <2>3, FS_CardinalityType
  <2> QED
    BY <1>1, <2>1, <2>4, <2>5, <2>6
<1> QED
  BY <1>4, <1>5, <1>6 DEF Thoughts, Once

-----------------------------------------------------------------------------
(***************************************************************************)
(* What the encoders are given of an orderly stream is its thoughts, each  *)
(* between its tags, and then what the model says.                         *)
(***************************************************************************)
Thinks(words, th) ==
    \E P \in Text, old \in Text, x \in Text :
       Thoughts(P, old) /\ old \o x = th /\ P \o (ThinkOpen \o x) = words

Speaks(words, th, said) ==
    \E P \in Text : Thoughts(P, th) /\ P \o said = words

\* Where texts are joined makes no difference, with the tags of a thought among
\* them.
LEMMA RegroupOpened ==
    ASSUME NEW t \in Text, NEW x \in Text, NEW w \in Text
    PROVE  (t \o (ThinkOpen \o x)) \o w = t \o (ThinkOpen \o (x \o w))
<1>1. ThinkOpen \in Text
  BY OpeningTag
<1>2. (ThinkOpen \o x) \o w = ThinkOpen \o (x \o w)
  BY <1>1, Associates, Zenon
<1>3. ThinkOpen \o x \in Text
  BY <1>1, Joined
<1>4. (t \o (ThinkOpen \o x)) \o w = t \o ((ThinkOpen \o x) \o w)
  BY <1>3, Associates, Zenon
<1> QED
  BY <1>2, <1>4, Zenon

LEMMA BlockBehind ==
    ASSUME NEW t \in Text, NEW x \in Text
    PROVE  (t \o (ThinkOpen \o x)) \o ThinkClose = t \o Block(x)
<1>1. ThinkOpen \in Text /\ ThinkClose \in Text
  BY OpeningTag, ClosingTag
<1>2. ThinkOpen \o x \in Text
  BY <1>1, Joined
<1>3. (t \o (ThinkOpen \o x)) \o ThinkClose = t \o ((ThinkOpen \o x) \o ThinkClose)
  BY <1>1, <1>2, Associates, Zenon
<1> QED
  BY <1>3, Zenon DEF Block

LEMMA ThinksOn ==
    ASSUME NEW words, NEW th, NEW chunk \in Text, Thinks(words, th)
    PROVE  Thinks(words \o chunk, th \o chunk)
<1>1. PICK P \in Text, old \in Text, x \in Text :
         Thoughts(P, old) /\ old \o x = th /\ P \o (ThinkOpen \o x) = words
  BY DEF Thinks
<1>2. x \o chunk \in Text
  BY Joined
<1>3. old \o (x \o chunk) = th \o chunk
  <2>1. (old \o x) \o chunk = old \o (x \o chunk)
    BY Associates, Zenon
  <2> QED
    BY <1>1, <2>1
<1>4. P \o (ThinkOpen \o (x \o chunk)) = words \o chunk
  <2>1. (P \o (ThinkOpen \o x)) \o chunk = P \o (ThinkOpen \o (x \o chunk))
    BY RegroupOpened
  <2> QED
    BY <1>1, <2>1
<1> QED
  BY <1>1, <1>2, <1>3, <1>4 DEF Thinks

LEMMA SpeaksOn ==
    ASSUME NEW words, NEW th, NEW said \in Text, NEW chunk \in Text, Speaks(words, th, said)
    PROVE  Speaks(words \o chunk, th, said \o chunk)
<1>1. PICK P \in Text : Thoughts(P, th) /\ P \o said = words
  BY DEF Speaks
<1>2. (P \o said) \o chunk = P \o (said \o chunk)
  BY Associates, Zenon
<1>3. P \o (said \o chunk) = words \o chunk
  BY <1>1, <1>2
<1> QED
  BY <1>1, <1>3 DEF Speaks

LEMMA ThinksAgain ==
    ASSUME NEW words, NEW th \in Text, Speaks(words, th, <<>>)
    PROVE  Thinks(words \o ThinkOpen, th)
<1>1. PICK P \in Text : Thoughts(P, th) /\ P \o <<>> = words
  BY DEF Speaks
<1>2. P = words /\ th \o <<>> = th
  BY <1>1, Joined
<1>3. ThinkOpen \o <<>> = ThinkOpen /\ <<>> \in Text
  BY OpeningTag, Joined
<1>4. P \o (ThinkOpen \o <<>>) = words \o ThinkOpen
  BY <1>2, <1>3
<1> QED
  BY <1>1, <1>2, <1>3, <1>4 DEF Thinks

LEMMA ThinksNoMore ==
    ASSUME NEW words, NEW th \in Text, Plain(th), Thinks(words, th)
    PROVE  Speaks(words \o ThinkClose, th, <<>>)
<1>1. PICK P \in Text, old \in Text, x \in Text :
         Thoughts(P, old) /\ old \o x = th /\ P \o (ThinkOpen \o x) = words
  BY DEF Thinks
<1>2. Plain(x)
  BY <1>1, PlainParts
<1>3. P \o Block(x) \in Text /\ Thoughts(P \o Block(x), old \o x)
  BY <1>1, <1>2, ThoughtsGrow
<1>4. P \o Block(x) = words \o ThinkClose
  <2>1. (P \o (ThinkOpen \o x)) \o ThinkClose = P \o Block(x)
    BY BlockBehind
  <2> QED
    BY <1>1, <2>1
<1>5. PICK Q \in Text : Q = P \o Block(x) /\ Thoughts(Q, th)
  BY <1>1, <1>3
<1>6. Q \o <<>> = Q
  BY Joined
<1>7. Q \o <<>> = words \o ThinkClose
  BY <1>4, <1>5, <1>6
<1> QED
  BY <1>5, <1>7 DEF Speaks

\* Where a fragment of thinking begins, and where one of the response does.
LEMMA OpeningWrites ==
    ASSUME NEW s \in StreamState, NEW th \in Text,
           IF think_open THEN Thinks(Words(s), th) ELSE Speaks(Words(s), th, <<>>)
    PROVE  Thinks(Words(Opening(s)), th)
<1>1. CASE think_open
  BY <1>1 DEF Opening
<1>2. CASE ~think_open
  <2>1. Opening(s) = Yield(s, ThinkOpen) /\ Speaks(Words(s), th, <<>>)
    BY <1>2 DEF Opening
  <2>2. Words(Yield(s, ThinkOpen)) = Words(s) \o ThinkOpen
    BY OpeningTag, YieldKeeps
  <2>3. Thinks(Words(s) \o ThinkOpen, th)
    BY <2>1, ThinksAgain
  <2> QED
    BY <2>1, <2>2, <2>3
<1> QED
  BY <1>1, <1>2

LEMMA ClosingWrites ==
    ASSUME NEW s \in StreamState, NEW th \in Text, NEW said, Plain(th),
           IF think_open THEN said = <<>> /\ Thinks(Words(s), th)
           ELSE Speaks(Words(s), th, said)
    PROVE  Speaks(Words(Closing(s)), th, said)
<1>1. CASE ~think_open
  BY <1>1 DEF Closing
<1>2. CASE think_open
  <2>1. Closing(s) = Yield(s, ThinkClose) /\ said = <<>> /\ Thinks(Words(s), th)
    BY <1>2 DEF Closing
  <2>2. Words(Yield(s, ThinkClose)) = Words(s) \o ThinkClose
    BY ClosingTag, YieldKeeps
  <2>3. Speaks(Words(s) \o ThinkClose, th, <<>>)
    BY <2>1, ThinksNoMore
  <2> QED
    BY <2>1, <2>2, <2>3
<1> QED
  BY <1>1, <1>2

Written ==
    upstream # "finished" =>
        IF think_open THEN Thinks(full_text \o carry, thinking)
        ELSE Speaks(full_text \o carry, thinking, content)

WrittenToTheEnd ==
    upstream = "finished" =>
        Speaks(full_text, thinking, content) /\ saved = Bound(full_text)

WrittenInv == Orderly => Written /\ WrittenToTheEnd

\* A fragment of thinking.
LEMMA ThinkFragmentWritten ==
    ASSUME StreamsInv, ApartInv, WrittenInv, NEW piece \in Pieces, ThinkFragment(piece)
    PROVE  WrittenInv'
<1> SUFFICES ASSUME Orderly' PROVE Written' /\ WrittenToTheEnd'
  BY DEF WrittenInv
<1>1. /\ piece \in Text /\ upstream = "open" /\ upstream' = "open" /\ think_open'
      /\ Receive(Yield(Opening(Stream), piece)) /\ Thought(piece)
  BY PiecesAssumption DEF ThinkFragment, Line
<1>2. Orderly /\ content = <<>>
  BY <1>1, OrderlyBefore
<1>3. PICK th \in Text : th = thinking
  BY DEF StreamsInv, StreamsTypeOK
<1>4. Stream \in StreamState /\ Words(Stream) = full_text \o carry
  BY <1>1, OpenStream
<1>5. IF think_open THEN Thinks(Words(Stream), th) ELSE Speaks(Words(Stream), th, <<>>)
  BY <1>1, <1>2, <1>3, <1>4 DEF WrittenInv, Written
<1>6. PICK s \in StreamState : s = Opening(Stream) /\ Thinks(Words(s), th)
  BY <1>4, <1>5, OpeningWrites, TagsKeep
<1>7. PICK t \in StreamState : t = Yield(s, piece) /\ Words(t) = Words(s) \o piece
  BY <1>1, YieldKeeps
<1>8. Thinks(Words(s) \o piece, th \o piece)
  BY <1>1, <1>6, ThinksOn
<1>9. full_text' \o carry' = Words(t)
  BY <1>1, <1>6, <1>7 DEF Receive, Words
<1>10. thinking' = th \o piece
  BY <1>1, <1>3 DEF Thought
<1>11. Thinks(full_text' \o carry', thinking')
  BY <1>7, <1>8, <1>9, <1>10
<1> QED
  BY <1>1, <1>11 DEF Written, WrittenToTheEnd

\* A fragment of the response.
LEMMA ResponseFragmentWritten ==
    ASSUME StreamsInv, ApartInv, WrittenInv, NEW piece \in Pieces, ResponseFragment(piece)
    PROVE  WrittenInv'
<1> SUFFICES ASSUME Orderly' PROVE Written' /\ WrittenToTheEnd'
  BY DEF WrittenInv
<1>1. /\ piece \in Text /\ upstream = "open" /\ upstream' = "open" /\ think_open' = FALSE
      /\ Receive(Yield(Closing(Stream), piece)) /\ Said(piece)
  BY PiecesAssumption DEF ResponseFragment, Line
<1>2. Orderly /\ Plain(thinking)
  BY <1>1, OrderlyBefore
<1>3. PICK th \in Text, said \in Text : th = thinking /\ said = content
  BY DEF StreamsInv, StreamsTypeOK
<1>4. Stream \in StreamState /\ Words(Stream) = full_text \o carry
  BY <1>1, OpenStream
<1>5. think_open => said = <<>>
  BY <1>1, <1>2, <1>3 DEF ApartInv, Apart
<1>6. IF think_open THEN said = <<>> /\ Thinks(Words(Stream), th)
      ELSE Speaks(Words(Stream), th, said)
  BY <1>1, <1>2, <1>3, <1>4, <1>5 DEF WrittenInv, Written
<1>7. PICK s \in StreamState : s = Closing(Stream) /\ Speaks(Words(s), th, said)
  BY <1>2, <1>3, <1>4, <1>6, ClosingWrites, TagsKeep
<1>8. PICK t \in StreamState : t = Yield(s, piece) /\ Words(t) = Words(s) \o piece
  BY <1>1, YieldKeeps
<1>9. Speaks(Words(s) \o piece, th, said \o piece)
  BY <1>1, <1>7, SpeaksOn
<1>10. full_text' \o carry' = Words(t)
  BY <1>1, <1>7, <1>8 DEF Receive, Words
<1>11. thinking' = th /\ content' = said \o piece
  BY <1>1, <1>3 DEF Said
<1>12. Speaks(full_text' \o carry', thinking', content')
  BY <1>8, <1>9, <1>10, <1>11
<1> QED
  BY <1>1, <1>12 DEF Written, WrittenToTheEnd

\* More of the fragment that came last.
LEMMA MoreTextWritten ==
    ASSUME StreamsInv, ApartInv, WrittenInv, NEW piece \in Pieces, MoreText(piece)
    PROVE  WrittenInv'
<1> SUFFICES ASSUME Orderly' PROVE Written' /\ WrittenToTheEnd'
  BY DEF WrittenInv
<1>1. /\ piece \in Text /\ upstream = "open" /\ upstream' = "open"
      /\ think_open' = think_open /\ Receive(Yield(Stream, piece))
      /\ IF think_open THEN Thought(piece) ELSE Said(piece)
  BY PiecesAssumption DEF MoreText, Line
<1>2. Orderly
  BY <1>1, OrderlyBefore
<1>3. PICK th \in Text, said \in Text : th = thinking /\ said = content
  BY DEF StreamsInv, StreamsTypeOK
<1>4. Stream \in StreamState /\ Words(Stream) = full_text \o carry
  BY <1>1, OpenStream
<1>5. PICK t \in StreamState : t = Yield(Stream, piece) /\ Words(t) = Words(Stream) \o piece
  BY <1>1, <1>4, YieldKeeps
<1>6. full_text' \o carry' = Words(t)
  BY <1>1, <1>5 DEF Receive, Words
<1>7. CASE think_open
  <2>1. Thinks(Words(Stream), th)
    BY <1>1, <1>2, <1>3, <1>4, <1>7 DEF WrittenInv, Written
  <2>2. Thinks(Words(Stream) \o piece, th \o piece)
    BY <1>1, <2>1, ThinksOn
  <2>3. thinking' = th \o piece
    BY <1>1, <1>3, <1>7 DEF Thought
  <2>4. Thinks(full_text' \o carry', thinking')
    BY <1>5, <1>6, <2>2, <2>3
  <2> QED
    BY <1>1, <1>7, <2>4 DEF Written, WrittenToTheEnd
<1>8. CASE ~think_open
  <2>1. Speaks(Words(Stream), th, said)
    BY <1>1, <1>2, <1>3, <1>4, <1>8 DEF WrittenInv, Written
  <2>2. Speaks(Words(Stream) \o piece, th, said \o piece)
    BY <1>1, <2>1, SpeaksOn
  <2>3. content' = said \o piece /\ thinking' = th
    BY <1>1, <1>3, <1>8 DEF Said
  <2>4. Speaks(full_text' \o carry', thinking', content')
    BY <1>5, <1>6, <2>2, <2>3
  <2> QED
    BY <1>1, <1>8, <2>4 DEF Written, WrittenToTheEnd
<1> QED
  BY <1>7, <1>8

\* The end of the stream.
LEMMA FinishedWritten ==
    ASSUME StreamsInv, ApartInv, WrittenInv, Finished
    PROVE  WrittenInv'
<1> SUFFICES ASSUME Orderly' PROVE Written' /\ WrittenToTheEnd'
  BY DEF WrittenInv
<1>1. /\ upstream = "open" /\ upstream' = "finished"
      /\ thinking' = thinking /\ content' = content /\ late' = late
  BY DEF Finished
<1>2. Orderly /\ Plain(thinking)
  BY <1>1 DEF Orderly, Plain
<1>3. PICK th \in Text, said \in Text : th = thinking /\ said = content
  BY DEF StreamsInv, StreamsTypeOK
<1>4. Stream \in StreamState /\ Words(Stream) = full_text \o carry
  BY <1>1, OpenStream
<1>5. IF think_open THEN said = <<>> /\ InThought(Stream, th) ELSE InSpeech(Stream, th, said)
  BY <1>1, <1>2, <1>3 DEF ApartInv, Apart
<1>6. IF think_open THEN said = <<>> /\ Thinks(Words(Stream), th)
      ELSE Speaks(Words(Stream), th, said)
  BY <1>1, <1>2, <1>3, <1>4, <1>5 DEF WrittenInv, Written
<1>7. PICK s \in StreamState : /\ s = Closing(Stream) /\ Speaks(Words(s), th, said)
                               /\ InSpeech(s, th, said)
  BY <1>2, <1>3, <1>4, <1>5, <1>6, ClosingSpeaks, ClosingWrites, TagsKeep
<1>8. PICK t : t = Encode([s EXCEPT !.carry = <<>>], s.carry)
  OBVIOUS
<1>9. t \in StreamState /\ t.full = Words(s)
  BY <1>7, <1>8, Drained
<1> DEFINE u == [t EXCEPT !.openai = EndOpenAI(@, t.full),
                          !.anthropic = EndAnthropic(@, t.full)]
<1>10. Receive(u) /\ saved' = Bound(t.full)
  BY <1>7, <1>8 DEF Finished
<1>11. u.full = t.full
  BY <1>9 DEF StreamState
<1> HIDE DEF u
<1>12. full_text' = t.full
  BY <1>10, <1>11 DEF Receive
<1>13. Speaks(full_text', thinking', content') /\ saved' = Bound(full_text')
  BY <1>1, <1>3, <1>7, <1>9, <1>10, <1>12
<1> QED
  BY <1>1, <1>13 DEF Written, WrittenToTheEnd

\* The ends that finish nothing.
LEMMA BrokenOffWritten ==
    ASSUME WrittenInv, Failed \/ ClientGone
    PROVE  WrittenInv'
<1>1. /\ upstream = "open" /\ upstream' # "finished"
      /\ UNCHANGED <<think_open, carry, full_text, thinking, content, late>>
  BY DEF Failed, ClientGone
<1> QED
  BY <1>1 DEF WrittenInv, Written, WrittenToTheEnd, Orderly

\* Nothing was written.
LEMMA WrittenInitEstablishes ==
    Init => WrittenInv
<1> SUFFICES ASSUME Init PROVE Written /\ WrittenToTheEnd
  BY DEF WrittenInv
<1>1. /\ upstream = "open" /\ think_open = FALSE /\ carry = <<>> /\ full_text = <<>>
      /\ thinking = <<>> /\ content = <<>>
  BY DEF Init
<1>2. <<>> \in Text /\ <<>> \o <<>> = <<>>
  BY ShortTexts, Joined
<1>3. Speaks(<<>>, <<>>, <<>>)
  BY <1>2, NoThoughts DEF Speaks
<1> QED
  BY <1>1, <1>2, <1>3 DEF Written, WrittenToTheEnd

LEMMA WrittenStepKeeps ==
    StreamsInv /\ ApartInv /\ WrittenInv /\ [Next]_vars => WrittenInv'
<1> SUFFICES ASSUME StreamsInv, ApartInv, WrittenInv, [Next]_vars PROVE WrittenInv'
  OBVIOUS
<1>1. ASSUME NEW piece \in Pieces, ThinkFragment(piece) PROVE WrittenInv'
  BY <1>1, ThinkFragmentWritten
<1>2. ASSUME NEW piece \in Pieces, ResponseFragment(piece) PROVE WrittenInv'
  BY <1>2, ResponseFragmentWritten
<1>3. ASSUME NEW piece \in Pieces, MoreText(piece) PROVE WrittenInv'
  BY <1>3, MoreTextWritten
<1>4. CASE Finished
  BY <1>4, FinishedWritten
<1>5. CASE Failed \/ ClientGone
  BY <1>5, BrokenOffWritten
<1>6. CASE UNCHANGED vars
  BY <1>6 DEF vars, WrittenInv, Written, WrittenToTheEnd, Orderly
<1> QED
  BY <1>1, <1>2, <1>3, <1>4, <1>5, <1>6 DEF Next

THEOREM WrittenInvariance == Spec => [](StreamsInv /\ ApartInv /\ WrittenInv)
<1>1. StreamsInv /\ ApartInv /\ WrittenInv /\ [Next]_vars
         => StreamsInv' /\ ApartInv' /\ WrittenInv'
  BY StreamsStepKeeps, ApartStepKeeps, WrittenStepKeeps
<1> QED
  BY <1>1, StreamsInitEstablishes, ApartInitEstablishes, WrittenInitEstablishes, PTL DEF Spec

\* How the calls and the text of an orderly answer come out of what was written.
LEMMA WhatWasWritten ==
    ASSUME StreamsInv, ApartInv, WrittenInv, upstream = "finished", Orderly, Prose(thinking)
    PROVE  /\ openai.reasoning = thinking /\ anthropic.reasoning = thinking
           /\ Calls(full_text) = Calls(content) /\ Calls(content) \in Nat
           /\ openai.calls = Calls(content) /\ anthropic.calls = Calls(content)
           /\ openai.calls = 0 => openai.shown = Spoken(content)
           /\ WellTagged(content) => clean_text(full_text) = Spoken(content)
           /\ Cardinality(Tags(full_text, "think>")) <= 1 => FirstThought(full_text) = thinking
           /\ saved = Bound(full_text)
<1>1. PICK th \in Text, said \in Text : th = thinking /\ said = content
  BY DEF StreamsInv, StreamsTypeOK
<1>2. Plain(th) /\ Plain(said)
  BY <1>1 DEF Orderly, Plain
<1>3. PICK P \in Text : Thoughts(P, th) /\ P \o said = full_text
  BY <1>1 DEF WrittenInv, WrittenToTheEnd, Speaks
<1>4. Covered(P) /\ Bare(P) /\ Ends(P)
  BY <1>1, <1>3, ThoughtsEnd DEF Thoughts
<1>5. Calls(full_text) = Calls(said)
  BY <1>3, <1>4, CallsBehind
<1>6. PICK n \in Nat : n = Calls(said) /\ n = Calls(full_text)
  BY <1>5, CallsAreCounted
<1>7. PICK r : r = feed(NewParser, said)
  OBVIOUS
<1>8. /\ openai.reasoning = th /\ anthropic.reasoning = th
      /\ openai.calls = n /\ anthropic.calls = n
      /\ openai.shown = IF n > 0 THEN r.text ELSE r.text \o flush(r.parser)
  BY <1>1, <1>6, <1>7 DEF ApartInv, ApartToTheEnd
<1>9. openai.calls = 0 => openai.shown = Spoken(said)
  <2>1. Spoken(said) = r.text \o flush(r.parser)
    BY <1>7, SpokenIsFed
  <2> QED
    BY <1>8, <2>1
<1>10. WellTagged(said) => clean_text(full_text) = Spoken(said)
  BY <1>3, <1>4, CleanBehind
<1>11. Cardinality(Tags(full_text, "think>")) <= 1 => FirstThought(full_text) = th
  BY <1>2, <1>3, FirstThoughtBehind
<1>12. saved = Bound(full_text)
  BY DEF WrittenInv, WrittenToTheEnd
<1> QED
  BY <1>1, <1>6, <1>8, <1>9, <1>10, <1>11, <1>12

\* For every answer that thinks in prose, whatever stands in it.
THEOREM CallsAreThoseOfTheAnswer == Spec => []CallsAreTheAnswers
<1>1. StreamsInv /\ ApartInv /\ WrittenInv => CallsAreTheAnswers
  BY WhatWasWritten DEF CallsAreTheAnswers
<1> QED
  BY <1>1, WrittenInvariance, PTL

\* And the text of an answer that is well tagged: what was streamed is what the
\* conversation was bound under.
THEOREM StreamedTurnResumes == Spec => []OpenAITurnResumes
<1>1. StreamsInv /\ ApartInv /\ WrittenInv => OpenAITurnResumes
  <2> SUFFICES ASSUME StreamsInv, ApartInv, WrittenInv, saved.kind = "bound", Orderly,
                      Prose(thinking), WellTagged(content)
               PROVE  ReplyKey(openai.shown, openai.calls) = ReplyKey(saved.text, saved.calls)
    BY DEF OpenAITurnResumes
  <2>1. upstream = "finished"
    BY DEF StreamsInv, UnderWay
  <2>2. PICK n \in Nat : n = Calls(content)
    BY <2>1, WhatWasWritten
  <2>3. /\ openai.calls = n /\ Calls(full_text) = n
        /\ n = 0 => openai.shown = clean_text(full_text)
        /\ saved = Bound(full_text)
    BY <2>1, <2>2, WhatWasWritten
  <2>4. full_text # <<>>
    <3>1. ASSUME full_text = <<>> PROVE FALSE
      <4>1. saved.kind = "dropped"
        BY <2>3, <3>1 DEF Bound, NotSaved
      <4> QED
        BY <4>1
    <3> QED
      BY <3>1
  <2>5. /\ saved.calls = n
        /\ saved.text = IF n > 0 THEN <<>> ELSE clean_text(full_text)
    BY <2>3, <2>4 DEF Bound
  <2>6. n > 0 \/ n = 0
    BY <2>2
  <2> QED
    BY <2>3, <2>5, <2>6 DEF ReplyKey
<1> QED
  BY <1>1, WrittenInvariance, PTL

\* And collected, of an answer that thinks once.
THEOREM CollectedIsStreamed == Spec => []StreamedIsCollected
<1>1. StreamsInv /\ ApartInv /\ WrittenInv => StreamedIsCollected
  <2> SUFFICES ASSUME StreamsInv, ApartInv, WrittenInv, upstream = "finished",
                      Cardinality(Tags(full_text, "think>")) <= 1, Orderly,
                      Prose(thinking), WellTagged(content)
               PROVE  LET reply == format_response(full_text)
                      IN  /\ openai.reasoning = reply.reasoning
                          /\ anthropic.reasoning = reply.reasoning
                          /\ openai.calls = reply.calls /\ anthropic.calls = reply.calls
                          /\ openai.calls = 0 => openai.shown = reply.content
    BY DEF StreamedIsCollected
  <2>1. PICK reply : reply = format_response(full_text)
    OBVIOUS
  <2>2. /\ reply.reasoning = FirstThought(full_text) /\ reply.calls = Calls(full_text)
        /\ reply.content = IF Calls(full_text) > 0 THEN <<>> ELSE clean_text(full_text)
    BY <2>1 DEF format_response
  <2>3. /\ openai.reasoning = FirstThought(full_text)
        /\ anthropic.reasoning = FirstThought(full_text)
        /\ openai.calls = Calls(full_text) /\ anthropic.calls = Calls(full_text)
        /\ openai.calls = 0 => openai.shown = clean_text(full_text)
    BY WhatWasWritten
  <2>4. openai.calls = 0 => ~(Calls(full_text) > 0)
    BY <2>3
  <2> QED
    BY <2>1, <2>2, <2>3, <2>4
<1> QED
  BY <1>1, WrittenInvariance, PTL
=============================================================================
