---------------------------- MODULE OrderlyProofs ----------------------------
(***************************************************************************)
(* The gateway keeps its promise: with clients that send each turn once,   *)
(* no upstream turn that stays empty, and no conversation taken for the    *)
(* history of another one, OrderlyGateway implements StatelessChat and     *)
(* every parent that is saved is the id of the reply that was received,    *)
(* for any number of handlers, tokens, accounts and chats, conversations   *)
(* of any length and any window of the signature.                          *)
(***************************************************************************)
EXTENDS OrderlyGateway, GatewayProofs, SequenceTheorems

\* A signature is the first message and the window (plugin_helper.py:557-558),
\* so an answered conversation may pass for the history of a longer one, or of
\* one that differs in front of the window.  Here none does that the model read
\* in some chat.
Recognized(q, cs) ==
    \A c \in DOMAIN cs : \A i \in DOMAIN cs[c].log :
        LET past == cs[c].log[i]
        IN  past.role = "assistant" /\ Signature(past.ctx) = SigOf(q) =>
                past.ctx = History(q.msgs)

\* For none of the turns whose prompt is on its way.
NothingMistaken ==
    \A r \in Requests : reqs[r].pc = "sending" => Recognized(reqs[r], chats)

\* It is where no conversation a client can have reached is cut by the window.
NothingCut == WindowK = 0 \/ 2 * MaxTurns <= WindowK

-----------------------------------------------------------------------------
(***************************************************************************)
(* The invariant.  A turn is answered for good when its signature is among *)
(* those sent and no handler carries it any more; the rows of such turns   *)
(* may be stale, and nobody looks them up.  Every other row waits for its  *)
(* turn, and points to the end of a chat that has read exactly the history *)
(* of that turn, unless the handler of the turn has just posted there.     *)
(***************************************************************************)
Busy(q) == q.pc # "idle"

Answered == {sig \in sent : \A r \in Requests : Busy(reqs[r]) => SigOf(reqs[r]) # sig}
Waits(row) == row.sig \notin Answered

AtEnd(parent, history, log) ==
    /\ parent = Len(log)
    /\ parent # 0 => log[parent].ctx = history /\ Len(history) > 1

\* What a handler knows of the chat it writes to.
InTurn(q, cs) ==
    /\ q.pc # "recreating"
    /\ q.pc \in {"waiting", "creating"} => ~q.rotated
    /\ q.stream => "broken" \notin Faults
    /\ q.pc = "rotating" => q.full
    /\ q.pc = "sending" =>
          /\ q.full = (q.parent = 0)
          /\ AtEnd(q.parent, History(q.msgs), cs[q.chat].log)
    /\ q.pc = "replying" =>
          /\ q.outcome \in Replies \cup {Thinking}
          /\ q.mid = next_parent(q.parent) /\ q.mid = Len(cs[q.chat].log)
          /\ cs[q.chat].log[q.mid].role = "assistant"
          /\ cs[q.chat].log[q.mid].ctx = Append(q.msgs, Content(q.outcome))

\* Turns in flight differ.
TurnsApart ==
    /\ \A r \in Requests : Busy(reqs[r]) => SigOf(reqs[r]) \in sent
    /\ \A r, o \in Requests :
          r # o /\ Busy(reqs[r]) /\ Busy(reqs[o]) => SigOf(reqs[r]) # SigOf(reqs[o])

\* If the handler writes to the chat of the row, it came to it by the row.
Owned(q, row) == q.chat = row.chat => SigOf(q) = row.sig /\ ~q.rotated

\* A chat has one handler that writes to it and one turn that waits for it.
ChatsApart ==
    /\ \A r, o \in Requests :
          r # o /\ reqs[r].chat # 0 => reqs[o].chat # reqs[r].chat
    /\ \A row \in sessions : Waits(row) =>
          /\ \A r \in Requests : Owned(reqs[r], row)
          /\ \A other \in sessions :
                Waits(other) /\ other.chat = row.chat => other.sig = row.sig

Overtakes(q, row) == q.pc = "replying" /\ q.chat = row.chat

\* The chat ends with a conversation that has the signature of the row.
EndsAt(row, log) ==
    /\ row.parent = Len(log)
    /\ row.parent # 0 => /\ log[row.parent].role = "assistant"
                         /\ Signature(log[row.parent].ctx) = row.sig
                         /\ Len(log[row.parent].ctx) > 1

RowsAtEnd ==
    \A row \in sessions : Waits(row) =>
        \/ EndsAt(row, chats[row.chat].log)
        \/ \E r \in Requests : Overtakes(reqs[r], row)

OrderlyInv ==
    /\ IInv /\ TurnsApart /\ ChatsApart /\ RowsAtEnd
    /\ \A r \in Requests : InTurn(reqs[r], chats)

-----------------------------------------------------------------------------
(***************************************************************************)
(* Signatures that are not cut.                                            *)
(***************************************************************************)

\* The parts of a sequence that is put together of two.
LEMMA BehindEachOther ==
    ASSUME NEW S, NEW s \in Seq(S), NEW t \in Seq(S)
    PROVE  /\ s \o t \in Seq(S) /\ Len(s \o t) = Len(s) + Len(t)
           /\ \A i \in 1 .. Len(s) : (s \o t)[i] = s[i]
           /\ \A i \in 1 .. Len(t) : (s \o t)[Len(s) + i] = t[i]
OBVIOUS

\* A log with two entries more.
LEMMA TwoEntries ==
    ASSUME NEW log \in Seq(Message), NEW x, NEW y, NEW t, t = log \o <<x, y>>
    PROVE  /\ Len(log) \in Nat /\ Len(t) = Len(log) + 2 /\ DOMAIN t = 1 .. Len(log) + 2
           /\ \A i \in 1 .. Len(log) : t[i] = log[i]
           /\ t[Len(log) + 1] = x /\ t[Len(log) + 2] = y
<1> DEFINE S == Message \cup {x, y}
<1>1. PICK two : two = <<x, y>>
  OBVIOUS
<1>2. two \in Seq(S) /\ Len(two) = 2 /\ two[1] = x /\ two[2] = y
  BY <1>1
<1>3. log \in Seq(S) /\ Len(log) \in Nat
  <2>1. \A i \in 1 .. Len(log) : log[i] \in S
    OBVIOUS
  <2>2. QED
    BY <2>1, SeqDef
<1> HIDE DEF S
<1>4. /\ t \in Seq(S) /\ Len(t) = Len(log) + Len(two)
      /\ \A i \in 1 .. Len(log) : t[i] = log[i]
      /\ \A i \in 1 .. Len(two) : t[Len(log) + i] = two[i]
  BY <1>1, <1>2, <1>3, BehindEachOther
<1>5. 1 \in 1 .. Len(two) /\ 2 \in 1 .. Len(two)
  BY <1>2
<1>6. DOMAIN t = 1 .. Len(t)
  BY <1>4
<1>7. QED
  BY <1>2, <1>3, <1>4, <1>5, <1>6

\* A conversation has at most MaxTurns turns.
LEMMA ConversationLength ==
    ASSUME NEW m \in Conversations
    PROVE  Len(m) \in Nat /\ Len(m) + 1 <= 2 * MaxTurns
<1>1. PICK n \in 1 .. MaxTurns : m \in [1 .. (2 * n - 1) -> Messages]
  BY DEF Conversations
<1>2. n \in Nat /\ n >= 1 /\ 2 * n - 1 \in Nat /\ MaxTurns \in Nat /\ n <= MaxTurns
  BY SizesAssumption
<1>3. Len(m) = 2 * n - 1
  BY <1>1, <1>2
<1>4. QED
  BY <1>2, <1>3

\* What a chat that ends with the history is told makes the conversation.
LEMMA HistoryAndTurn ==
    ASSUME NEW m \in Conversations
    PROVE  /\ Len(History(m)) <= Len(m)
           /\ Len(m) > 1 => History(m) \o Trailing(m) = m
<1>1. m \in Seq(Messages) /\ Len(m) \in Nat /\ Len(m) >= 1
  BY ConversationShape
<1>2. LastAssistant(m) = Len(m) - 1
  BY LastOfConversation
<1>3. CASE Len(m) = 1
  <2>1. LastAssistant(m) = 0
    BY <1>2, <1>3
  <2>2. History(m) = m
    BY <2>1 DEF History
  <2>3. ~(Len(m) > 1) /\ Len(m) <= Len(m)
    BY <1>1, <1>3
  <2>4. QED
    BY <2>2, <2>3
<1>4. CASE Len(m) > 1
  <2>1. PICK n \in Nat : n = Len(m) - 1 /\ n + 1 = Len(m) /\ n # 0 /\ n >= 1
    BY <1>1, <1>4
  <2>2. History(m) = SubSeq(m, 1, n) /\ Trailing(m) = SubSeq(m, n + 1, n + 1)
    BY <1>2, <2>1 DEF History, Trailing
  <2>3. /\ SubSeq(m, 1, n) \in Seq(Messages) /\ Len(SubSeq(m, 1, n)) = n
        /\ \A i \in 1 .. n : SubSeq(m, 1, n)[i] = m[i]
    <3>1. 1 \in Int /\ n \in Int /\ 1 <= n /\ \A i \in 1 .. n : m[i] \in Messages
      BY <1>1, <2>1
    <3>2. /\ SubSeq(m, 1, n) \in Seq(Messages)
          /\ Len(SubSeq(m, 1, n)) = IF 1 <= n THEN n - 1 + 1 ELSE 0
          /\ \A i \in 1 .. n - 1 + 1 : SubSeq(m, 1, n)[i] = m[1 + i - 1]
      BY <3>1, SubSeqProperties
    <3>3. QED
      BY <2>1, <3>2
  <2>4. PICK last : last = m[n + 1]
    OBVIOUS
  <2>5. SubSeq(m, n + 1, n + 1) = <<last>> /\ last \in Messages
    <3>1. last \in Messages
      BY <1>1, <2>1, <2>4
    <3>2. n + 1 \in Int /\ \A i \in n + 1 .. n + 1 : m[i] \in Messages
      BY <1>1, <2>1
    <3>3. /\ SubSeq(m, n + 1, n + 1) \in Seq(Messages)
          /\ Len(SubSeq(m, n + 1, n + 1))
               = IF n + 1 <= n + 1 THEN n + 1 - (n + 1) + 1 ELSE 0
          /\ \A i \in 1 .. n + 1 - (n + 1) + 1 :
                SubSeq(m, n + 1, n + 1)[i] = m[n + 1 + i - 1]
      BY <3>2, SubSeqProperties
    <3>4. Len(SubSeq(m, n + 1, n + 1)) = 1 /\ SubSeq(m, n + 1, n + 1)[1] = last
      <4>1. n + 1 - (n + 1) + 1 = 1 /\ n + 1 <= n + 1 /\ n + 1 + 1 - 1 = n + 1
        BY <2>1
      <4>2. QED
        BY <2>4, <3>3, <4>1
    <3>5. <<last>> \in Seq(Messages) /\ Len(<<last>>) = 1 /\ <<last>>[1] = last
      BY <3>1
    <3>6. PICK s \in Seq(Messages) : s = SubSeq(m, n + 1, n + 1)
      BY <3>3
    <3>7. PICK t \in Seq(Messages) : t = <<last>>
      BY <3>5
    <3>8. Len(s) = Len(t) /\ \A i \in 1 .. Len(s) : s[i] = t[i]
      <4>1. Len(s) = 1 /\ s[1] = last
        BY <3>4, <3>6
      <4>2. Len(t) = 1 /\ t[1] = last
        BY <3>5, <3>7
      <4>3. QED
        BY <4>1, <4>2
    <3>9. s = t
      BY <3>8, SeqEqual
    <3>10. QED
      BY <3>1, <3>6, <3>7, <3>9
  <2>6. PICK h \in Seq(Messages) : h = SubSeq(m, 1, n)
    BY <2>3
  <2>7. h \o <<last>> = m
    <3>1. /\ h \o <<last>> \in Seq(Messages) /\ Len(h \o <<last>>) = n + 1
          /\ \A i \in 1 .. n : (h \o <<last>>)[i] = m[i]
          /\ (h \o <<last>>)[n + 1] = last
      <4>1. last \in Messages
        BY <2>5
      <4>2. <<last>> \in Seq(Messages) /\ Len(<<last>>) = 1 /\ <<last>>[1] = last
        BY <4>1
      <4>3. PICK t \in Seq(Messages) : t = <<last>>
        BY <4>2
      <4>4. Len(t) = 1 /\ t[1] = last
        BY <4>2, <4>3
      <4>5. Len(h) = n /\ \A i \in 1 .. n : h[i] = m[i]
        BY <2>3, <2>6
      <4>6. /\ h \o t \in Seq(Messages) /\ Len(h \o t) = n + 1
            /\ \A i \in 1 .. n : (h \o t)[i] = h[i]
            /\ (h \o t)[n + 1] = t[1]
        BY <4>4, <4>5, BehindEachOther
      <4>7. QED
        BY <4>3, <4>4, <4>5, <4>6
    <3>2. \A i \in 1 .. n + 1 : (h \o <<last>>)[i] = m[i]
      BY <2>1, <2>4, <3>1
    <3>3. QED
      BY <1>1, <2>1, <3>1, <3>2, SeqEqual
  <2>8. Len(h) = n /\ n <= n + 1 /\ History(m) = h /\ Trailing(m) = <<last>>
    BY <2>1, <2>2, <2>3, <2>5, <2>6
  <2>9. QED
    BY <2>1, <2>7, <2>8
<1>5. Len(m) = 1 \/ Len(m) > 1
  BY <1>1, Predecessor
<1>6. QED
  BY <1>3, <1>4, <1>5

\* The signature of a turn holds its whole history.
LEMMA WholeHistory ==
    ASSUME NothingCut, NEW m \in Conversations
    PROVE  Signature(m).tail = History(m)
<1>1. /\ Len(m) \in Nat /\ Len(m) + 1 <= 2 * MaxTurns /\ MaxTurns \in Nat
      /\ Len(History(m)) \in Nat /\ Len(History(m)) <= Len(m)
  BY ConversationLength, HistoryOfConversation, HistoryAndTurn, SizesAssumption
<1>2. WindowK = 0 \/ Len(History(m)) <= WindowK
  BY <1>1, WindowKAssumption DEF NothingCut
<1>3. QED
  BY <1>2 DEF Signature, Window

\* So does that of the turn that will follow the reply.
LEMMA WholeReply ==
    ASSUME NothingCut, NEW m \in Conversations, NEW x \in Assistant
    PROVE  Signature(Append(m, x)).tail = Append(m, x)
<1> DEFINE mx == Append(m, x)
<1>1. /\ m \in Seq(Messages) /\ Len(m) \in Nat /\ Len(m) >= 1 /\ x \in Messages
      /\ Len(m) + 1 <= 2 * MaxTurns /\ MaxTurns \in Nat
  BY ConversationShape, ConversationLength, SizesAssumption DEF Messages
<1>2. mx \in Seq(Messages) /\ Len(mx) = Len(m) + 1
  BY <1>1
<1>3. LastAssistant(mx) = Len(mx) /\ LastAssistant(mx) # 0
  BY <1>1, <1>2, LastOfReplied
<1>4. History(mx) = SubSeq(mx, 1, Len(mx))
  BY <1>3 DEF History
<1>5. SubSeq(mx, 1, Len(mx)) = mx
  BY <1>1, <1>2
<1>6. WindowK = 0 \/ Len(mx) <= WindowK
  BY <1>1, <1>2, WindowKAssumption DEF NothingCut
<1>7. QED
  BY <1>4, <1>5, <1>6 DEF Signature, Window

-----------------------------------------------------------------------------
(***************************************************************************)
(* Turns.  Only the end of a turn that is answered adds to Answered.       *)
(***************************************************************************)

\* Only one handler moves.
LEMMA OneMoves ==
    ASSUME IInv, NEW r \in Requests, NEW q2, Become(r, q2)
    PROVE  /\ reqs'[r] = q2
           /\ \A o \in Requests : o # r => reqs'[o] = reqs[o]
BY DEF IInv, TypeOK, Become

\* The handler goes on with its turn, or stays without one.
LEMMA TurnContinues ==
    ASSUME IInv, TurnsApart, NEW r \in Requests, NEW q2, Become(r, q2), sent' = sent,
           q2.msgs = reqs[r].msgs, Busy(q2) <=> Busy(reqs[r])
    PROVE  TurnsApart' /\ Answered' = Answered
<1>1. /\ reqs'[r] = q2
      /\ \A o \in Requests : o # r => reqs'[o] = reqs[o]
  BY OneMoves
<1>2. \A o \in Requests : /\ SigOf(reqs'[o]) = SigOf(reqs[o])
                          /\ Busy(reqs'[o]) <=> Busy(reqs[o])
  BY <1>1 DEF SigOf
<1>3. TurnsApart'
  BY <1>2 DEF TurnsApart
<1>4. Answered' = Answered
  BY <1>2 DEF Answered
<1>5. QED
  BY <1>3, <1>4

\* A turn that is not among those sent is sent.
LEMMA TurnStarts ==
    ASSUME IInv, TurnsApart, NEW r \in Requests, NEW q2, Become(r, q2),
           ~Busy(reqs[r]), Busy(q2), SigOf(q2) \notin sent,
           sent' = sent \cup {SigOf(q2)}
    PROVE  TurnsApart' /\ Answered' = Answered
<1>1. /\ reqs'[r] = q2
      /\ \A o \in Requests : o # r => reqs'[o] = reqs[o]
  BY OneMoves
<1>2. \A o \in Requests : o # r /\ Busy(reqs'[o]) =>
          Busy(reqs[o]) /\ SigOf(reqs'[o]) = SigOf(reqs[o]) /\ SigOf(reqs[o]) \in sent
  BY <1>1 DEF TurnsApart
<1>3. TurnsApart'
  <2>1. ASSUME NEW o \in Requests, Busy(reqs'[o])
        PROVE  SigOf(reqs'[o]) \in sent'
    BY <1>1, <1>2, <2>1
  <2>2. ASSUME NEW o \in Requests, NEW p \in Requests, o # p, Busy(reqs'[o]), Busy(reqs'[p])
        PROVE  SigOf(reqs'[o]) # SigOf(reqs'[p])
    <3>1. CASE o = r
      BY <1>1, <1>2, <2>2, <3>1
    <3>2. CASE p = r
      BY <1>1, <1>2, <2>2, <3>2
    <3>3. CASE o # r /\ p # r
      BY <1>2, <2>2, <3>3 DEF TurnsApart
    <3>4. QED
      BY <3>1, <3>2, <3>3
  <2>3. QED
    BY <2>1, <2>2 DEF TurnsApart
<1>4. ASSUME NEW sig
      PROVE  sig \in Answered' <=> sig \in Answered
  <2>1. CASE sig = SigOf(q2)
    BY <1>1, <2>1 DEF Answered
  <2>2. CASE sig # SigOf(q2)
    <3>1. \A o \in Requests :
             (Busy(reqs'[o]) => SigOf(reqs'[o]) # sig) <=> (Busy(reqs[o]) => SigOf(reqs[o]) # sig)
      BY <1>1, <2>2
    <3>2. QED
      BY <2>2, <3>1 DEF Answered
  <2>3. QED
    BY <2>1, <2>2
<1>5. QED
  BY <1>3, <1>4

\* A turn that failed may be sent again.
LEMMA TurnFails ==
    ASSUME IInv, TurnsApart, NEW r \in Requests, NEW q2, Become(r, q2),
           Busy(reqs[r]), ~Busy(q2), sent' = sent \ {SigOf(reqs[r])}
    PROVE  TurnsApart' /\ Answered' = Answered
<1>1. /\ reqs'[r] = q2
      /\ \A o \in Requests : o # r => reqs'[o] = reqs[o]
  BY OneMoves
<1>2. \A o \in Requests : Busy(reqs'[o]) =>
          /\ o # r /\ Busy(reqs[o]) /\ reqs'[o] = reqs[o]
          /\ SigOf(reqs[o]) \in sent /\ SigOf(reqs[o]) # SigOf(reqs[r])
  BY <1>1 DEF TurnsApart
<1>3. TurnsApart'
  BY <1>2 DEF TurnsApart
<1>4. ASSUME NEW sig
      PROVE  sig \in Answered' <=> sig \in Answered
  <2>1. CASE sig = SigOf(reqs[r])
    BY <2>1 DEF Answered
  <2>2. CASE sig # SigOf(reqs[r])
    <3>1. \A o \in Requests :
             (Busy(reqs'[o]) => SigOf(reqs'[o]) # sig) <=> (Busy(reqs[o]) => SigOf(reqs[o]) # sig)
      BY <1>1, <2>2
    <3>2. QED
      BY <2>2, <3>1 DEF Answered
  <2>3. QED
    BY <2>1, <2>2
<1>5. QED
  BY <1>3, <1>4

\* A turn that was answered is not.
LEMMA TurnEnds ==
    ASSUME IInv, TurnsApart, NEW r \in Requests, NEW q2, Become(r, q2),
           Busy(reqs[r]), ~Busy(q2), sent' = sent
    PROVE  TurnsApart' /\ Answered' = Answered \cup {SigOf(reqs[r])}
<1>1. /\ reqs'[r] = q2
      /\ \A o \in Requests : o # r => reqs'[o] = reqs[o]
  BY OneMoves
<1>2. \A o \in Requests : Busy(reqs'[o]) =>
          /\ o # r /\ Busy(reqs[o]) /\ reqs'[o] = reqs[o]
          /\ SigOf(reqs[o]) \in sent /\ SigOf(reqs[o]) # SigOf(reqs[r])
  BY <1>1 DEF TurnsApart
<1>3. TurnsApart'
  BY <1>2 DEF TurnsApart
<1>4. ASSUME NEW sig
      PROVE  sig \in Answered' <=> sig \in Answered \/ sig = SigOf(reqs[r])
  <2>1. CASE sig = SigOf(reqs[r])
    <3>1. sig \in sent
      BY <2>1 DEF TurnsApart
    <3>2. QED
      BY <1>2, <2>1, <3>1 DEF Answered
  <2>2. CASE sig # SigOf(reqs[r])
    <3>1. \A o \in Requests :
             (Busy(reqs'[o]) => SigOf(reqs'[o]) # sig) <=> (Busy(reqs[o]) => SigOf(reqs[o]) # sig)
      BY <1>1, <2>2
    <3>2. QED
      BY <2>2, <3>1 DEF Answered
  <2>3. QED
    BY <2>1, <2>2
<1>5. QED
  BY <1>3, <1>4

-----------------------------------------------------------------------------
(***************************************************************************)
(* What a step of handler r has to show: it writes to no chat but its own, *)
(* its own chat is nobody else's, and each row that waits was there before *)
(* and was not overtaken by it, or is a new one at the end of a chat that  *)
(* no other handler writes to and no other turn waits for.                 *)
(***************************************************************************)
OldRow(r, row) == row \in sessions /\ ~Overtakes(reqs[r], row)

NewRow(r, row, waiting) ==
    /\ EndsAt(row, chats'[row.chat].log)
    /\ \A o \in Requests : o # r => reqs[o].chat # row.chat
    /\ \A other \in sessions' :
          other.sig \in waiting /\ other.chat = row.chat => other.sig = row.sig

Moves(r, waiting) ==
    /\ \E q2 : Become(r, q2)
    /\ InTurn(reqs'[r], chats')
    /\ \A c \in DOMAIN chats : chats'[c].log = chats[c].log
                               \/ (reqs'[r].pc = "replying" /\ reqs'[r].chat = c)
    /\ reqs'[r].chat # 0 => \A o \in Requests : o # r => reqs[o].chat # reqs'[r].chat
    /\ \A row \in sessions' : row.sig \in waiting =>
          /\ Owned(reqs'[r], row)
          /\ OldRow(r, row) \/ NewRow(r, row, waiting)

\* Such a step keeps the invariant.
LEMMA MovesKeep ==
    ASSUME OrderlyInv, IInv', TurnsApart', Answered \subseteq Answered',
           NEW r \in Requests, NEW waiting,
           waiting = Signatures \ Answered', Moves(r, waiting)
    PROVE  OrderlyInv'
<1>1. \A o \in Requests : o # r => reqs'[o] = reqs[o]
  BY OneMoves DEF OrderlyInv, Moves
<1>2. ASSUME NEW o \in Requests, o # r
      PROVE  InTurn(reqs'[o], chats')
  <2>1. reqs'[o] = reqs[o] /\ InTurn(reqs[o], chats) /\ RequestSound(reqs[o], chats)
    BY <1>1, <1>2, IInvParts DEF OrderlyInv
  <2>2. CASE reqs[o].pc \in {"sending", "replying"}
    <3>1. reqs[o].chat # 0 /\ reqs[o].chat \in DOMAIN chats
      BY <2>1, <2>2 DEF RequestSound
    <3>2. reqs'[r].chat # reqs[o].chat
      BY <1>2, <3>1 DEF Moves
    <3>3. chats'[reqs[o].chat].log = chats[reqs[o].chat].log
      BY <3>1, <3>2 DEF Moves
    <3>4. QED
      BY <2>1, <3>3 DEF InTurn
  <2>3. CASE reqs[o].pc \notin {"sending", "replying"}
    BY <2>1, <2>3 DEF InTurn
  <2>4. QED
    BY <2>2, <2>3
<1>3. \A o \in Requests : InTurn(reqs'[o], chats')
  BY <1>2 DEF Moves
<1>4. ASSUME NEW x \in Requests, NEW y \in Requests, x # y, reqs'[x].chat # 0
      PROVE  reqs'[y].chat # reqs'[x].chat
  <2>1. CASE x = r
    BY <1>1, <1>4, <2>1 DEF Moves
  <2>2. CASE y = r
    BY <1>1, <1>4, <2>2 DEF Moves
  <2>3. CASE x # r /\ y # r
    BY <1>1, <1>4, <2>3 DEF OrderlyInv, ChatsApart
  <2>4. QED
    BY <2>1, <2>2, <2>3
<1>5. ASSUME NEW row \in sessions', row.sig \in waiting
      PROVE  /\ OldRow(r, row) \/ NewRow(r, row, waiting)
             /\ Owned(reqs'[r], row)
             /\ row \in sessions => Waits(row)
  BY <1>5 DEF Moves, Waits
<1>6. ASSUME NEW row \in sessions', row.sig \in waiting, NEW o \in Requests
      PROVE  Owned(reqs'[o], row)
  <2>1. CASE o = r
    BY <1>5, <1>6, <2>1
  <2>2. CASE o # r
    <3>1. CASE OldRow(r, row)
      BY <1>1, <1>5, <1>6, <2>2, <3>1 DEF OldRow, OrderlyInv, ChatsApart
    <3>2. CASE NewRow(r, row, waiting)
      BY <1>1, <2>2, <3>2 DEF NewRow, Owned
    <3>3. QED
      BY <1>5, <1>6, <3>1, <3>2
  <2>3. QED
    BY <2>1, <2>2
<1>7. ASSUME NEW row \in sessions', row.sig \in waiting, NEW other \in sessions',
             other.sig \in waiting, other.chat = row.chat
      PROVE  other.sig = row.sig
  <2>1. CASE NewRow(r, row, waiting)
    BY <1>7, <2>1 DEF NewRow
  <2>2. CASE NewRow(r, other, waiting)
    BY <1>7, <2>2 DEF NewRow
  <2>3. CASE OldRow(r, row) /\ OldRow(r, other)
    BY <1>5, <1>7, <2>3 DEF OldRow, OrderlyInv, ChatsApart
  <2>4. QED
    BY <1>5, <1>7, <2>1, <2>2, <2>3
<1>8. ASSUME NEW row \in sessions', row.sig \in waiting
      PROVE  \/ EndsAt(row, chats'[row.chat].log)
             \/ \E o \in Requests : Overtakes(reqs'[o], row)
  <2>1. CASE NewRow(r, row, waiting)
    BY <2>1 DEF NewRow
  <2>2. CASE OldRow(r, row)
    <3>1. CASE \E o \in Requests : Overtakes(reqs[o], row)
      <4>1. PICK o \in Requests : Overtakes(reqs[o], row)
        BY <3>1
      <4>2. o # r
        BY <2>2, <4>1 DEF OldRow
      <4>3. QED
        BY <1>1, <4>1, <4>2
    <3>2. CASE EndsAt(row, chats[row.chat].log)
      <4>1. row.chat \in DOMAIN chats
        BY <2>2, TablesParts DEF OldRow, OrderlyInv, RowSound
      <4>2. CASE chats'[row.chat].log = chats[row.chat].log
        BY <3>2, <4>2
      <4>3. CASE reqs'[r].pc = "replying" /\ reqs'[r].chat = row.chat
        BY <4>3 DEF Overtakes
      <4>4. QED
        BY <4>1, <4>2, <4>3 DEF Moves
    <3>3. QED
      BY <1>5, <1>8, <2>2, <3>1, <3>2 DEF OldRow, OrderlyInv, RowsAtEnd
  <2>3. QED
    BY <1>5, <1>8, <2>1, <2>2
<1>9. \A row \in sessions' : Waits(row)' => row.sig \in waiting
  <2>1. sessions' \subseteq Row
    BY DEF IInv, TypeOK
  <2>2. QED
    BY <2>1 DEF Waits, Row
<1>10. ChatsApart'
  BY <1>4, <1>6, <1>7, <1>9 DEF ChatsApart
<1>11. RowsAtEnd'
  BY <1>8, <1>9 DEF RowsAtEnd
<1>12. QED
  BY <1>3, <1>10, <1>11 DEF OrderlyInv

-----------------------------------------------------------------------------
(***************************************************************************)
(* Handlers that lose or never had a chat, and those that resume one.      *)
(***************************************************************************)
Waiting == Signatures \ Answered

\* What a step from reqs[r] with the turn of q may do: the turn goes on, unless
\* there is a reply, or the handler is free.
Carries(r, q) ==
    /\ Moves(r, Waiting)
    /\ Busy(reqs'[r]) => reqs'[r].msgs = q.msgs /\ reqs[r].pc # "replying"
    /\ reqs'[r].pc = "replying" => reqs[r].pc = "sending"

\* A chat of a row is a chat.
LEMMA RowsChat ==
    ASSUME IInv, NEW row \in sessions
    PROVE  row \in Row /\ row.chat # 0 /\ row.chat \in DOMAIN chats /\ row.sig \in Signatures
<1>1. row \in Row /\ RowSound(row, chats)
  BY TablesParts
<1>2. QED
  BY <1>1 DEF Row, RowSound, ChatIds

\* A handler with no chat is in nobody's way.
LEMMA WithoutChat ==
    ASSUME OrderlyInv, NEW r \in Requests, NEW q2, Become(r, q2), q2.chat = 0,
           InTurn(q2, chats), chats' = chats, sessions' \subseteq sessions, NEW waiting,
           \A row \in sessions' : row.sig \in waiting => ~Overtakes(reqs[r], row)
    PROVE  Moves(r, waiting)
<1>1. reqs'[r] = q2
  BY OneMoves DEF OrderlyInv
<1>2. ASSUME NEW row \in sessions', row.sig \in waiting
      PROVE  Owned(reqs'[r], row) /\ OldRow(r, row)
  <2>1. row \in sessions /\ row.chat # 0
    BY RowsChat DEF OrderlyInv
  <2>2. QED
    BY <1>1, <1>2, <2>1 DEF Owned, OldRow
<1>3. QED
  BY <1>1, <1>2 DEF Moves

LEMMA IdleInTurn ==
    /\ IdleRequest.pc = "idle" /\ IdleRequest.chat = 0 /\ IdleRequest.msgs = <<>>
    /\ \A cs : InTurn(IdleRequest, cs)
BY DEF IdleRequest, NewRequest, InTurn

\* The request fails where it is.
LEMMA LeavesTurn ==
    ASSUME OrderlyInv, NEW r \in Requests, NEW q, Answer(r),
           chats' = chats, sessions' \subseteq sessions,
           \A row \in sessions' : row.sig \in Waiting => ~Overtakes(reqs[r], row)
    PROVE  Carries(r, q) /\ ~Busy(reqs'[r])
<1>1. Become(r, IdleRequest)
  BY DEF Answer
<1>2. reqs'[r] = IdleRequest
  BY <1>1, OneMoves DEF OrderlyInv
<1>3. Moves(r, Waiting)
  BY <1>1, IdleInTurn, WithoutChat
<1>4. QED
  BY <1>2, <1>3, IdleInTurn DEF Carries, Busy

\* A turn nobody else carries, and that was not answered.
Unsaid(r, q) ==
    /\ q \in Request /\ q.msgs \in Conversations /\ q.chat = 0
    /\ ~q.rotated /\ (q.stream => "broken" \notin Faults)
    /\ SigOf(q) \notin Answered
    /\ \A o \in Requests : o # r /\ Busy(reqs[o]) => SigOf(reqs[o]) # SigOf(q)

\* A turn that waits for its row finds the chat of the row at its end, and nobody
\* else there.
LEMMA RowReady ==
    ASSUME OrderlyInv, NEW r \in Requests, NEW q, Unsaid(r, q), Recognized(q, chats),
           reqs[r].pc # "replying", NEW row \in sessions, row.sig = SigOf(q)
    PROVE  /\ row.parent \in Nat /\ row.chat # 0
           /\ AtEnd(row.parent, History(q.msgs), chats[row.chat].log)
           /\ \A o \in Requests : o # r => reqs[o].chat # row.chat
           /\ \A other \in sessions :
                 other.sig \in Waiting /\ other.chat = row.chat => other.sig = row.sig
<1>1. row \in Row /\ row.chat # 0 /\ row.parent \in Nat /\ Waits(row)
  BY RowsChat DEF OrderlyInv, Row, Waits, Unsaid
<1>2. ASSUME NEW o \in Requests, o # r, reqs[o].chat = row.chat
      PROVE  FALSE
  <2>1. SigOf(reqs[o]) = row.sig
    BY <1>1, <1>2 DEF OrderlyInv, ChatsApart, Owned
  <2>2. RequestSound(reqs[o], chats)
    BY IInvParts DEF OrderlyInv
  <2>3. Busy(reqs[o])
    BY <1>1, <1>2, <2>2 DEF RequestSound, Busy
  <2>4. QED
    BY <1>2, <2>1, <2>3 DEF Unsaid
<1>3. \A o \in Requests : ~Overtakes(reqs[o], row)
  BY <1>2 DEF Overtakes
<1>4. EndsAt(row, chats[row.chat].log)
  BY <1>1, <1>3 DEF OrderlyInv, RowsAtEnd
<1>5. AtEnd(row.parent, History(q.msgs), chats[row.chat].log)
  <2>1. row.chat \in DOMAIN chats
    BY RowsChat DEF OrderlyInv
  <2>2. PICK log : log = chats[row.chat].log
    OBVIOUS
  <2>3. log \in Seq(Message) /\ DOMAIN log = 1 .. Len(log) /\ Len(log) \in Nat
    BY <2>1, <2>2, TablesParts DEF OrderlyInv, Chat
  <2>4. ASSUME row.parent # 0
        PROVE  log[row.parent].ctx = History(q.msgs) /\ Len(History(q.msgs)) > 1
    <3>1. row.parent \in DOMAIN log
      BY <1>1, <1>4, <2>2, <2>3, <2>4 DEF EndsAt
    <3>2. /\ log[row.parent].role = "assistant"
          /\ Signature(log[row.parent].ctx) = SigOf(q)
          /\ Len(log[row.parent].ctx) > 1
      BY <1>4, <2>2, <2>4 DEF EndsAt
    <3>3. log[row.parent].ctx = History(q.msgs)
      BY <2>1, <2>2, <3>1, <3>2 DEF Recognized
    <3>4. QED
      BY <3>2, <3>3
  <2>5. QED
    BY <1>4, <2>2, <2>4 DEF AtEnd, EndsAt
<1>6. \A other \in sessions :
         other.sig \in Waiting /\ other.chat = row.chat => other.sig = row.sig
  BY <1>1 DEF OrderlyInv, ChatsApart, Waiting, Waits
<1>7. QED
  BY <1>1, <1>2, <1>5, <1>6

\* So it may resume there.
LEMMA ResumesRow ==
    ASSUME OrderlyInv, NothingMistaken', NEW r \in Requests, NEW q, Unsaid(r, q),
           reqs[r].pc # "replying", NEW row \in sessions, row.sig = SigOf(q),
           chats' = chats, sessions' \subseteq sessions, NEW pool,
           Resume(r, q, row.token, row.chat, row.parent, pool)
    PROVE  Carries(r, q)
<1>1. CASE pool[row.token] = NoToken
  <2>1. Answer(r)
    BY <1>1 DEF Resume
  <2>2. QED
    BY <2>1, LeavesTurn DEF Overtakes
<1>2. CASE pool[row.token] # NoToken
  <2> DEFINE q2 == [q EXCEPT !.pc = "sending", !.lock = 0, !.token = row.token,
                             !.account = pool[row.token].account, !.chat = row.chat,
                             !.parent = row.parent, !.full = (row.parent = 0),
                             !.attempt = 1]
  <2>1. Become(r, q2)
    BY <1>2 DEF Resume
  <2>2. /\ q2.pc = "sending" /\ q2.chat = row.chat /\ q2.parent = row.parent
        /\ q2.full = (row.parent = 0) /\ q2.msgs = q.msgs
        /\ q2.rotated = q.rotated /\ q2.stream = q.stream
    BY DEF Unsaid, Request
  <2> HIDE DEF q2
  <2>3. reqs'[r] = q2
    BY <2>1, OneMoves DEF OrderlyInv
  <2>4. /\ AtEnd(row.parent, History(q.msgs), chats[row.chat].log)
        /\ \A o \in Requests : o # r => reqs[o].chat # row.chat
        /\ \A other \in sessions :
              other.sig \in Waiting /\ other.chat = row.chat => other.sig = row.sig
    <3>1. Recognized(q2, chats)
      BY <2>2, <2>3 DEF NothingMistaken
    <3>2. Recognized(q, chats)
      BY <2>2, <3>1 DEF Recognized, SigOf
    <3>3. QED
      BY <3>2, RowReady
  <2>5. InTurn(q2, chats')
    BY <2>2, <2>4 DEF InTurn, Unsaid
  <2>6. ASSUME NEW other \in sessions', other.sig \in Waiting
        PROVE  Owned(q2, other) /\ OldRow(r, other)
    <3>1. Owned(q2, other)
      BY <2>2, <2>4, <2>6 DEF Owned, SigOf, Unsaid
    <3>2. QED
      BY <3>1 DEF OldRow, Overtakes
  <2>7. Moves(r, Waiting)
    BY <2>1, <2>2, <2>3, <2>4, <2>5, <2>6 DEF Moves
  <2>8. QED
    BY <2>2, <2>3, <2>7 DEF Carries
<1>3. QED
  BY <1>1, <1>2

-----------------------------------------------------------------------------
(***************************************************************************)
(* handle_chat up to its first suspension, and behind the lock.            *)
(***************************************************************************)

\* The handler waits, or creates a chat.
LEMMA WaitsOrCreates ==
    ASSUME OrderlyInv, NEW r \in Requests, NEW q, Unsaid(r, q), NEW q2, Become(r, q2),
           q2.pc \in {"waiting", "creating"} \/ (q2.pc = "rotating" /\ q2.full),
           q2.pc # "rotating" => q2.rotated = q.rotated,
           q2.chat = 0, q2.msgs = q.msgs, q2.stream = q.stream,
           chats' = chats, sessions' \subseteq sessions, reqs[r].pc # "replying"
    PROVE  Carries(r, q)
<1>1. InTurn(q2, chats)
  BY DEF InTurn, Unsaid
<1>2. Moves(r, Waiting)
  BY <1>1, WithoutChat DEF Overtakes
<1>3. reqs'[r] = q2
  BY OneMoves DEF OrderlyInv
<1>4. QED
  BY <1>2, <1>3 DEF Carries

LEMMA StartsCreating ==
    ASSUME OrderlyInv, NEW r \in Requests, NEW q, Unsaid(r, q), reqs[r].pc # "replying",
           NEW l, NEW t, NEW pool, StartCreating(r, q, l, t, pool),
           chats' = chats, sessions' \subseteq sessions
    PROVE  Carries(r, q)
<1> DEFINE q2 == [q EXCEPT !.pc = "creating", !.lock = l, !.token = t,
                           !.account = pool[t].account]
<1>1. Become(r, q2)
  BY DEF StartCreating
<1>2. /\ q2.pc = "creating" /\ q2.chat = 0 /\ q2.msgs = q.msgs
      /\ q2.rotated = q.rotated /\ q2.stream = q.stream
  BY DEF Unsaid, Request
<1> HIDE DEF q2
<1>3. QED
  BY <1>1, <1>2, WaitsOrCreates DEF Overtakes

LEMMA HitCarries ==
    ASSUME OrderlyInv, NothingMistaken', NEW r \in Requests, NEW q, Unsaid(r, q),
           reqs[r].pc # "replying", NEW row \in sessions, row.sig = SigOf(q),
           chats' = chats, sessions' \subseteq sessions, NEW pool, Hit(r, q, row, pool)
    PROVE  Carries(r, q)
<1>1. ASSUME NEW t,
             Become(r, [q EXCEPT !.pc = "rotating", !.rotated = TRUE, !.token = t,
                                 !.account = pool[t].account, !.full = TRUE])
      PROVE  Carries(r, q)
  <2> DEFINE q2 == [q EXCEPT !.pc = "rotating", !.rotated = TRUE, !.token = t,
                             !.account = pool[t].account, !.full = TRUE]
  <2>1. /\ q2.pc = "rotating" /\ q2.chat = 0 /\ q2.msgs = q.msgs
        /\ q2.full /\ q2.stream = q.stream
    BY DEF Unsaid, Request
  <2>2. Become(r, q2)
    BY <1>1
  <2> HIDE DEF q2
  <2>3. QED
    BY <2>1, <2>2, WaitsOrCreates DEF Overtakes
<1>2. QED
  BY <1>1, ResumesRow DEF Hit

LEMMA MissCarries ==
    ASSUME OrderlyInv, NEW r \in Requests, NEW q, Unsaid(r, q), reqs[r].pc # "replying",
           chats' = chats, sessions' \subseteq sessions, NEW pool, Miss(r, q, pool)
    PROVE  Carries(r, q)
<1>1. ASSUME NEW l, Become(r, [q EXCEPT !.pc = "waiting", !.lock = l])
      PROVE  Carries(r, q)
  <2> DEFINE q2 == [q EXCEPT !.pc = "waiting", !.lock = l]
  <2>1. /\ q2.pc = "waiting" /\ q2.chat = 0 /\ q2.msgs = q.msgs
        /\ q2.rotated = q.rotated /\ q2.stream = q.stream
    BY DEF Unsaid, Request
  <2>2. Become(r, q2)
    BY <1>1
  <2> HIDE DEF q2
  <2>3. QED
    BY <2>1, <2>2, WaitsOrCreates DEF Overtakes
<1>2. CASE Answer(r)
  BY <1>2, LeavesTurn DEF Overtakes
<1>3. QED
  BY <1>1, <1>2, StartsCreating DEF Miss

\* The whole first segment.
LEMMA EnterCarries ==
    ASSUME OrderlyInv, NothingMistaken', NEW r \in Requests, NEW q, Unsaid(r, q),
           reqs[r].pc # "replying", NEW pool, NEW rows, rows \subseteq sessions,
           Enter(r, q, pool, rows)
    PROVE  Carries(r, q)
<1>1. chats' = chats /\ sessions' \subseteq sessions
  BY DEF Enter
<1>2. CASE Answer(r)
  BY <1>1, <1>2, LeavesTurn DEF Overtakes
<1>3. ASSUME NEW row \in FindSession(rows, SigOf(q), HistLen(q.msgs)), Hit(r, q, row, pool)
      PROVE  Carries(r, q)
  <2>1. row \in sessions /\ row.sig = SigOf(q)
    BY DEF FindSession
  <2>2. QED
    BY <1>1, <1>3, <2>1, HitCarries
<1>4. CASE Miss(r, q, pool)
  BY <1>1, <1>4, MissCarries
<1>5. QED
  BY <1>2, <1>3, <1>4 DEF Enter

\* A busy handler that has no chat yet carries a turn of its own.
LEMMA StillUnsaid ==
    ASSUME OrderlyInv, NEW r \in Requests, reqs[r].pc \in {"waiting", "creating"}
    PROVE  Unsaid(r, reqs[r]) /\ Busy(reqs[r])
<1>1. /\ reqs[r] \in Request /\ RequestSound(reqs[r], chats) /\ InTurn(reqs[r], chats)
      /\ reqs[r].msgs \in Conversations /\ Busy(reqs[r])
  BY IInvParts, BusyRequest DEF OrderlyInv, Busy
<1>2. SigOf(reqs[r]) \notin Answered
  BY <1>1 DEF Answered
<1>3. \A o \in Requests : o # r /\ Busy(reqs[o]) => SigOf(reqs[o]) # SigOf(reqs[r])
  BY <1>1 DEF OrderlyInv, TurnsApart
<1>4. reqs[r].chat = 0
  BY <1>1 DEF RequestSound
<1>5. QED
  BY <1>1, <1>2, <1>3, <1>4 DEF Unsaid, InTurn

LEMMA EnterLockCarries ==
    ASSUME OrderlyInv, NothingMistaken', NEW r \in Requests, EnterLock(r)
    PROVE  Carries(r, reqs[r])
<1>1. Unsaid(r, reqs[r]) /\ reqs[r].pc = "waiting" /\ chats' = chats /\ sessions' = sessions
  BY StillUnsaid DEF EnterLock
<1>2. ASSUME NEW row \in FindSession(sessions, SigOf(reqs[r]), HistLen(reqs[r].msgs)),
             Resume(r, reqs[r], row.token, row.chat, row.parent, tokens)
      PROVE  Carries(r, reqs[r])
  <2>1. row \in sessions /\ row.sig = SigOf(reqs[r])
    BY DEF FindSession
  <2>2. QED
    BY <1>1, <1>2, <2>1, ResumesRow
<1>3. CASE Answer(r)
  BY <1>1, <1>3, LeavesTurn DEF Overtakes
<1>4. ASSUME NEW t, StartCreating(r, reqs[r], reqs[r].lock, t, tokens)
      PROVE  Carries(r, reqs[r])
  BY <1>1, <1>4, StartsCreating
<1>5. QED
  BY <1>2, <1>3, <1>4 DEF EnterLock

-----------------------------------------------------------------------------
(***************************************************************************)
(* Fresh chats.                                                            *)
(***************************************************************************)

\* Nobody knows a fresh chat, and the others stay what they are.
LEMMA FreshChat ==
    ASSUME OrderlyInv, NEW q, chats' = Append(chats, NewChat(q)), NEW c, c = Len(chats) + 1
    PROVE  /\ chats'[c].log = <<>> /\ c # 0
           /\ \A d \in DOMAIN chats : chats'[d].log = chats[d].log
           /\ \A o \in Requests : reqs[o].chat # c
           /\ \A row \in sessions : row.chat # c
<1>1. chats \in Seq(Chat) /\ Len(chats) \in Nat /\ DOMAIN chats = 1 .. Len(chats)
  BY TablesParts DEF OrderlyInv
<1>2. c \notin DOMAIN chats /\ c # 0
  BY <1>1
<1>3. chats'[c] = NewChat(q) /\ \A d \in DOMAIN chats : chats'[d] = chats[d]
  BY <1>1
<1>4. NewChat(q).log = <<>>
  BY DEF NewChat
<1>5. \A o \in Requests : reqs[o].chat # c
  <2>1. \A o \in Requests : RequestSound(reqs[o], chats)
    BY IInvParts DEF OrderlyInv
  <2>2. QED
    BY <1>2, <2>1 DEF RequestSound
<1>6. \A row \in sessions : row.chat # c
  BY <1>2, RowsChat DEF OrderlyInv
<1>7. QED
  BY <1>2, <1>3, <1>4, <1>5, <1>6

\* The handler sends its whole conversation to the fresh chat.
LEMMA SendsToFresh ==
    ASSUME OrderlyInv, NEW r \in Requests, NEW q2, Become(r, q2),
           NEW q, chats' = Append(chats, NewChat(q)), NEW c, c = Len(chats) + 1,
           q2.pc = "sending" /\ q2.chat = c /\ q2.parent = 0 /\ q2.full = TRUE,
           q2.stream => "broken" \notin Faults, reqs[r].pc # "replying",
           NEW new, new.sig = SigOf(q2) /\ new.parent = 0 /\ new.chat = c,
           new \in sessions' => ~q2.rotated,
           sessions' \subseteq sessions \cup {new}
    PROVE  Moves(r, Waiting)
<1>1. reqs'[r] = q2
  BY OneMoves DEF OrderlyInv
<1>2. /\ chats'[c].log = <<>> /\ c # 0
      /\ \A d \in DOMAIN chats : chats'[d].log = chats[d].log
      /\ \A o \in Requests : reqs[o].chat # c
      /\ \A row \in sessions : row.chat # c
  BY FreshChat
<1>3. \A h : AtEnd(0, h, <<>>)
  BY DEF AtEnd
<1>4. InTurn(q2, chats')
  BY <1>2, <1>3 DEF InTurn
<1>5. ASSUME NEW row \in sessions', row.sig \in Waiting
      PROVE  Owned(q2, row) /\ (OldRow(r, row) \/ NewRow(r, row, Waiting))
  <2>1. CASE row \in sessions
    BY <1>2, <2>1 DEF Owned, OldRow, Overtakes
  <2>2. CASE row = new
    <3>1. \A other \in sessions' : other.chat = c => other.sig = new.sig
      BY <1>2
    <3>2. EndsAt(new, chats'[new.chat].log)
      BY <1>2 DEF EndsAt
    <3>3. NewRow(r, new, Waiting)
      BY <1>2, <3>1, <3>2 DEF NewRow
    <3>4. Owned(q2, new)
      BY <1>5, <2>2 DEF Owned
    <3>5. QED
      BY <2>2, <3>3, <3>4
  <2>3. QED
    BY <2>1, <2>2
<1>6. QED
  BY <1>1, <1>2, <1>4, <1>5 DEF Moves

LEMMA CreateDoneCarries ==
    ASSUME OrderlyInv, NEW r \in Requests, CreateDone(r)
    PROVE  Carries(r, reqs[r])
<1> DEFINE q   == reqs[r]
           c   == Len(chats) + 1
           new == SessionRow(SigOf(q), q.token, c, 0, HistLen(q.msgs))
<1>1. /\ Unsaid(r, q) /\ q.pc = "creating"
      /\ chats' = Append(chats, NewChat(q))
      /\ sessions' = SaveSession(sessions, new)
      /\ Resume(r, q, q.token, c, 0, tokens)
  BY StillUnsaid DEF CreateDone
<1>2. new.sig = SigOf(q) /\ new.parent = 0 /\ new.chat = c
  BY DEF SessionRow
<1>3. sessions' \subseteq sessions \cup {new}
  BY <1>1, SavedRows
<1> HIDE DEF new, c
<1>4. CASE tokens[q.token] # NoToken
  <2> DEFINE q2 == [q EXCEPT !.pc = "sending", !.lock = 0, !.token = q.token,
                             !.account = tokens[q.token].account, !.chat = c,
                             !.parent = 0, !.full = (0 = 0), !.attempt = 1]
  <2>1. Become(r, q2)
    BY <1>1, <1>4 DEF Resume
  <2>2. /\ q2.pc = "sending" /\ q2.chat = c /\ q2.parent = 0 /\ q2.full = TRUE
        /\ q2.msgs = q.msgs /\ q2.rotated = q.rotated /\ q2.stream = q.stream
    BY <1>1 DEF Unsaid, Request
  <2> HIDE DEF q2
  <2>3. ~q2.rotated /\ (q2.stream => "broken" \notin Faults) /\ SigOf(q2) = SigOf(q)
    BY <1>1, <2>2 DEF Unsaid, SigOf
  <2>4. Moves(r, Waiting)
    BY <1>1, <1>2, <1>3, <2>1, <2>2, <2>3, SendsToFresh DEF c
  <2>5. reqs'[r] = q2
    BY <2>1, OneMoves DEF OrderlyInv
  <2>6. QED
    BY <1>1, <2>2, <2>4, <2>5 DEF Carries
<1>5. CASE tokens[q.token] = NoToken
  <2>1. Become(r, IdleRequest)
    BY <1>1, <1>5 DEF Resume, Answer
  <2>2. reqs'[r] = IdleRequest
    BY <2>1, OneMoves DEF OrderlyInv
  <2>3. /\ chats'[c].log = <<>> /\ c # 0
        /\ \A d \in DOMAIN chats : chats'[d].log = chats[d].log
        /\ \A o \in Requests : reqs[o].chat # c
        /\ \A row \in sessions : row.chat # c /\ row.chat # 0
    BY <1>1, FreshChat, RowsChat DEF c, OrderlyInv
  <2>4. ASSUME NEW row \in sessions', row.sig \in Waiting
        PROVE  Owned(IdleRequest, row) /\ (OldRow(r, row) \/ NewRow(r, row, Waiting))
    <3>1. CASE row \in sessions
      BY <1>1, <2>3, <3>1, IdleInTurn DEF Owned, OldRow, Overtakes
    <3>2. CASE row = new
      <4>1. \A other \in sessions' : other.chat = c => other.sig = new.sig
        BY <1>3, <2>3
      <4>2. EndsAt(new, chats'[new.chat].log)
        BY <1>2, <2>3 DEF EndsAt
      <4>3. NewRow(r, new, Waiting)
        BY <1>2, <2>3, <4>1, <4>2 DEF NewRow
      <4>4. Owned(IdleRequest, new)
        BY <1>2, <2>3, IdleInTurn DEF Owned
      <4>5. QED
        BY <3>2, <4>3, <4>4
    <3>3. QED
      BY <1>3, <3>1, <3>2
  <2>5. Moves(r, Waiting)
    BY <2>1, <2>2, <2>3, <2>4, IdleInTurn DEF Moves
  <2>6. QED
    BY <2>2, <2>5, IdleInTurn DEF Carries, Busy
<1>6. QED
  BY <1>4, <1>5

LEMMA RotateDoneCarries ==
    ASSUME OrderlyInv, NEW r \in Requests, RotateDone(r)
    PROVE  Carries(r, reqs[r])
<1> DEFINE q  == reqs[r]
           c  == Len(chats) + 1
           q2 == [q EXCEPT !.pc = "sending", !.chat = c, !.parent = 0, !.attempt = 1]
<1>1. /\ q \in Request /\ InTurn(q, chats) /\ q.pc = "rotating"
      /\ chats' = Append(chats, NewChat(q)) /\ Become(r, q2)
      /\ sessions' = sessions
  BY IInvParts DEF OrderlyInv, RotateDone
<1>2. /\ q2.pc = "sending" /\ q2.chat = c /\ q2.parent = 0 /\ q2.full = q.full
      /\ q2.msgs = q.msgs /\ q2.stream = q.stream
  BY <1>1 DEF Request
<1>3. q.full = TRUE /\ (q.stream => "broken" \notin Faults)
  BY <1>1 DEF InTurn, Request
<1>4. PICK new : new = [sig |-> SigOf(q2), parent |-> 0, chat |-> c]
  OBVIOUS
<1>5. new.sig = SigOf(q2) /\ new.parent = 0 /\ new.chat = c
  BY <1>4
<1>6. new \notin sessions'
  BY <1>1, <1>5, FreshChat
<1> HIDE DEF q2, c
<1>7. Moves(r, Waiting)
  BY <1>1, <1>2, <1>3, <1>5, <1>6, SendsToFresh DEF c
<1>8. reqs'[r] = q2
  BY <1>1, OneMoves DEF OrderlyInv
<1>9. QED
  BY <1>1, <1>2, <1>7, <1>8 DEF Carries

-----------------------------------------------------------------------------
(***************************************************************************)
(* The prompt and the reply.                                               *)
(***************************************************************************)

\* What the model is told is what the client asked to continue.
LEMMA TellsConversation ==
    ASSUME OrderlyInv, NEW r \in Requests, reqs[r].pc = "sending"
    PROVE  Told(reqs[r]) = reqs[r].msgs
<1> DEFINE q   == reqs[r]
           log == chats[q.chat].log
<1>1. /\ q \in Request /\ InTurn(q, chats) /\ RequestSound(q, chats)
      /\ q.msgs \in Conversations
  BY IInvParts, BusyRequest DEF OrderlyInv
<1>2. /\ q.chat \in DOMAIN chats /\ q.full = (q.parent = 0)
      /\ AtEnd(q.parent, History(q.msgs), log)
  BY <1>1 DEF RequestSound, InTurn
<1>3. log \in Seq(Message) /\ Len(log) \in Nat /\ DOMAIN log = 1 .. Len(log)
  BY <1>2, TablesParts DEF OrderlyInv, Chat
<1>4. /\ q.msgs \in Seq(Messages) /\ Len(q.msgs) \in Nat
      /\ Len(History(q.msgs)) \in Nat /\ Len(History(q.msgs)) <= Len(q.msgs)
  BY <1>1, ConversationShape, HistoryOfConversation, HistoryAndTurn
<1>5. CASE q.parent = 0
  <2>1. Thread(log, q.parent) = <<>>
    BY <1>3, <1>5 DEF Thread
  <2>2. Told(q) = <<>> \o q.msgs
    BY <1>2, <1>5, <2>1 DEF Told
  <2>3. QED
    BY <1>4, <2>2
<1>6. CASE q.parent # 0
  <2>1. /\ q.parent \in DOMAIN log /\ log[q.parent].ctx = History(q.msgs)
        /\ Len(History(q.msgs)) > 1
    BY <1>2, <1>3, <1>6 DEF AtEnd
  <2>2. Told(q) = History(q.msgs) \o Trailing(q.msgs)
    BY <1>2, <1>6, <2>1 DEF Told, Thread
  <2>3. Len(q.msgs) > 1
    BY <1>4, <2>1
  <2>4. QED
    BY <1>1, <2>2, <2>3, HistoryAndTurn
<1>7. QED
  BY <1>5, <1>6

LEMMA PostAnsweredCarries ==
    ASSUME OrderlyInv, NEW r \in Requests, NEW outcome \in Replies \cup {Thinking},
           PostAnswered(r, outcome)
    PROVE  /\ Carries(r, reqs[r])
           /\ reqs'[r].pc = "replying" /\ reqs'[r].outcome = outcome
           /\ reqs'[r].msgs = reqs[r].msgs
<1> DEFINE q    == reqs[r]
           log  == chats[q.chat].log
           more == <<Question(q), Reply(q, outcome)>>
           q2   == [q EXCEPT !.pc = "replying", !.outcome = outcome,
                             !.mid = Len(log) + Len(more)]
<1>1. /\ q.pc = "sending" /\ Become(r, q2) /\ sessions' = sessions
      /\ chats' = [chats EXCEPT ![q.chat].log = log \o more]
  BY DEF PostAnswered, Posted
<1>2. /\ q \in Request /\ InTurn(q, chats) /\ RequestSound(q, chats)
      /\ q.msgs \in Conversations /\ Told(q) = q.msgs
  BY <1>1, IInvParts, BusyRequest, TellsConversation DEF OrderlyInv
<1>3. /\ q.chat # 0 /\ q.chat \in DOMAIN chats /\ q.parent = Len(log)
  BY <1>1, <1>2 DEF RequestSound, InTurn, AtEnd
<1>4. log \in Seq(Message) /\ Len(log) \in Nat
  BY <1>3, TablesParts DEF OrderlyInv, Chat
<1>5. /\ q2.pc = "replying" /\ q2.outcome = outcome /\ q2.mid = Len(log) + Len(more)
      /\ q2.chat = q.chat /\ q2.parent = q.parent /\ q2.msgs = q.msgs
      /\ q2.rotated = q.rotated /\ q2.stream = q.stream
  BY <1>2 DEF Request
<1>6. PICK reply : reply = Reply(q, outcome)
  OBVIOUS
<1>7. reply.ctx = Append(q.msgs, Content(outcome)) /\ reply.role = "assistant"
  BY <1>2, <1>6 DEF Reply
<1>8. chats'[q.chat].log = log \o <<Question(q), reply>>
  <2>1. chats[q.chat] \in Chat /\ chats \in Seq(Chat)
    BY <1>3, TablesParts DEF OrderlyInv
  <2>2. QED
    BY <1>1, <1>3, <1>6, <2>1 DEF Chat
<1>9. /\ Len(log \o <<Question(q), reply>>) = Len(log) + 2
      /\ (log \o <<Question(q), reply>>)[Len(log) + 2] = reply
      /\ Len(more) = 2
  <2>1. PICK l, t, x : l = log /\ x = Question(q) /\ t = l \o <<x, reply>>
    OBVIOUS
  <2>2. Len(t) = Len(l) + 2 /\ t[Len(l) + 2] = reply
    BY <1>4, <2>1, TwoEntries
  <2>3. Len(more) = 2
    OBVIOUS
  <2>4. QED
    BY <2>1, <2>2, <2>3
<1>10. \A c \in DOMAIN chats : c # q.chat => chats'[c] = chats[c]
  BY <1>1
<1> HIDE DEF q2, more, log
<1>11. reqs'[r] = q2
  BY <1>1, OneMoves DEF OrderlyInv
<1>12. InTurn(q2, chats')
  <2>1. /\ q2.mid = next_parent(q2.parent) /\ q2.mid = Len(chats'[q2.chat].log)
        /\ chats'[q2.chat].log[q2.mid] = reply
    BY <1>3, <1>5, <1>8, <1>9 DEF next_parent, log
  <2>2. q2.stream => "broken" \notin Faults
    BY <1>2, <1>5 DEF InTurn
  <2>3. QED
    BY <1>5, <1>7, <2>1, <2>2 DEF InTurn
<1>13. \A c \in DOMAIN chats : chats'[c].log = chats[c].log
                               \/ (q2.pc = "replying" /\ q2.chat = c)
  BY <1>5, <1>10
<1>14. \A o \in Requests : o # r => reqs[o].chat # q2.chat
  BY <1>3, <1>5 DEF OrderlyInv, ChatsApart
<1>15. ASSUME NEW row \in sessions', row.sig \in Waiting
       PROVE  Owned(q2, row) /\ OldRow(r, row)
  <2>1. row \in sessions /\ Waits(row)
    BY <1>1, <1>15 DEF Waits, Waiting
  <2>2. Owned(q, row)
    BY <2>1 DEF OrderlyInv, ChatsApart
  <2>3. QED
    BY <1>1, <1>5, <2>1, <2>2 DEF Owned, OldRow, Overtakes, SigOf
<1>16. Moves(r, Waiting)
  BY <1>1, <1>11, <1>12, <1>13, <1>14, <1>15 DEF Moves
<1>17. QED
  BY <1>1, <1>5, <1>11, <1>16 DEF Carries

-----------------------------------------------------------------------------
(***************************************************************************)
(* The end of a turn, and what goes wrong before.                          *)
(***************************************************************************)

\* A row that waits in the chat of the handler is the row of its turn.
LEMMA OwnRow ==
    ASSUME OrderlyInv, NEW r \in Requests, NEW row \in sessions, Waits(row),
           row.chat = reqs[r].chat
    PROVE  row.sig = SigOf(reqs[r]) /\ ~reqs[r].rotated
BY DEF OrderlyInv, ChatsApart, Owned

LEMMA CreateFailsCarries ==
    ASSUME OrderlyInv, NEW r \in Requests, CreateFails(r)
    PROVE  Carries(r, reqs[r])
BY LeavesTurn DEF CreateFails, Overtakes

LEMMA FailsOutsideTryCarries ==
    ASSUME OrderlyInv, NEW r \in Requests, FailsOutsideTry(r)
    PROVE  Carries(r, reqs[r])
BY LeavesTurn DEF FailsOutsideTry, Overtakes

\* An exception while the answer is read takes the row with it that the handler
\* has overtaken; a stream, which keeps its row, does not break off then.
LEMMA RaiseCarries ==
    ASSUME OrderlyInv, NothingMistaken', NEW r \in Requests, NEW limited \in BOOLEAN,
           Busy(reqs[r]), reqs[r].chat # 0,
           reqs[r].pc = "replying" => ~limited /\ "broken" \in Faults,
           Raise(r, limited)
    PROVE  Carries(r, reqs[r])
<1> DEFINE q == reqs[r]
<1>1. /\ q \in Request /\ q.msgs \in Conversations /\ InTurn(q, chats)
  BY IInvParts, BusyRequest DEF OrderlyInv, Busy
<1>2. ASSUME Answer(r), chats' = chats, sessions' = sessions,
             q.stream \/ q.rotated
      PROVE  Carries(r, q)
  <2>1. ASSUME NEW row \in sessions', row.sig \in Waiting, Overtakes(q, row)
        PROVE  FALSE
    <3>1. Waits(row) /\ row \in sessions /\ q.pc = "replying" /\ row.chat = q.chat
      BY <1>2, <2>1 DEF Waits, Waiting, Overtakes
    <3>2. ~q.rotated
      BY <3>1, OwnRow
    <3>3. QED
      BY <1>1, <1>2, <3>1, <3>2 DEF InTurn
  <2>2. QED
    BY <1>2, <2>1, LeavesTurn
<1>3. ASSUME Answer(r), chats' = chats, sessions' = DeleteSession(sessions, SigOf(q))
      PROVE  Carries(r, q)
  <2>1. sessions' \subseteq sessions
    BY <1>3 DEF DeleteSession
  <2>2. ASSUME NEW row \in sessions', row.sig \in Waiting, Overtakes(q, row)
        PROVE  FALSE
    <3>1. Waits(row) /\ row \in sessions /\ row.chat = q.chat /\ row.sig # SigOf(q)
      BY <1>3, <2>2 DEF Waits, Waiting, Overtakes, DeleteSession
    <3>2. QED
      BY <3>1, OwnRow
  <2>3. QED
    BY <1>3, <2>1, <2>2, LeavesTurn
<1>4. ASSUME limited, NEW pool,
             Enter(r, NewRequest(q.msgs, FALSE, TRUE), pool,
                   DeleteSession(sessions, SigOf(q)))
      PROVE  Carries(r, q)
  <2> DEFINE new == NewRequest(q.msgs, FALSE, TRUE)
  <2>1. /\ new \in Request /\ new.msgs = q.msgs /\ new.chat = 0
        /\ ~new.rotated /\ ~new.stream
    BY <1>1, NewRequestType DEF NewRequest
  <2> HIDE DEF new
  <2>2. SigOf(new) = SigOf(q)
    BY <2>1 DEF SigOf
  <2>3. SigOf(q) \notin Answered
    BY DEF Answered
  <2>4. \A o \in Requests : o # r /\ Busy(reqs[o]) => SigOf(reqs[o]) # SigOf(q)
    BY DEF OrderlyInv, TurnsApart
  <2>5. Unsaid(r, new)
    BY <1>1, <2>1, <2>2, <2>3, <2>4 DEF Unsaid
  <2>6. q.pc # "replying" /\ DeleteSession(sessions, SigOf(q)) \subseteq sessions
    BY <1>4 DEF DeleteSession
  <2>7. Carries(r, new)
    BY <1>4, <2>5, <2>6, EnterCarries DEF new
  <2>8. QED
    BY <2>1, <2>7 DEF Carries
<1>5. QED
  BY <1>2, <1>3, <1>4 DEF Raise

LEMMA PostLimitedCarries ==
    ASSUME OrderlyInv, NothingMistaken', NEW r \in Requests, PostLimited(r)
    PROVE  Carries(r, reqs[r])
<1>1. reqs[r].pc = "sending" /\ RequestSound(reqs[r], chats)
  BY IInvParts DEF OrderlyInv, PostLimited
<1>2. Busy(reqs[r]) /\ reqs[r].chat # 0
  BY <1>1 DEF RequestSound, Busy
<1>3. QED
  BY <1>1, <1>2, RaiseCarries DEF PostLimited

LEMMA BreaksCarries ==
    ASSUME OrderlyInv, NothingMistaken', NEW r \in Requests, Breaks(r)
    PROVE  Carries(r, reqs[r])
<1>1. /\ reqs[r].pc \in {"sending", "replying", "recreating"}
      /\ reqs[r].pc = "replying" => "broken" \in Faults
      /\ RequestSound(reqs[r], chats)
  BY IInvParts DEF OrderlyInv, Breaks
<1>2. Busy(reqs[r]) /\ reqs[r].chat # 0
  BY <1>1 DEF RequestSound, Busy
<1>3. QED
  BY <1>1, <1>2, RaiseCarries DEF Breaks

\* A reply that streams in has not stayed empty, and no chat is created again.
LEMMA NoRetries ==
    ASSUME OrderlyInv, NEW r \in Requests
    PROVE  ~RetryEmpty(r) /\ ~RecreateDone(r)
<1>1. InTurn(reqs[r], chats)
  BY DEF OrderlyInv
<1>2. QED
  BY <1>1, OutcomesAssumption DEF InTurn, RetryEmpty, RecreateDone

\* The answer is delivered.  The row of the turn that comes next is the only one
\* that is new and waits.
LEMMA FinishKeeps ==
    ASSUME OrderlyInv, NEW r \in Requests, Finish(r), sent' = sent, IInv'
    PROVE  OrderlyInv'
<1> DEFINE q    == reqs[r]
           next == Append(q.msgs, Content(q.outcome))
           p    == next_parent(q.parent)
           own  == SessionRow(SigOf(q), q.token, q.chat, p, HistLen(q.msgs))
           new  == SessionRow(Signature(next), q.token, q.chat, p, HistLen(next))
           waiting == Signatures \ Answered'
<1>1. /\ q.pc = "replying" /\ q.msgs \in Conversations /\ InTurn(q, chats)
      /\ RequestSound(q, chats) /\ Busy(q)
  BY IInvParts, BusyRequest DEF OrderlyInv, Finish, Busy
<1>2. Become(r, IdleRequest) /\ chats' = chats
  BY DEF Finish, Answer
<1>3. reqs'[r] = IdleRequest /\ ~Busy(IdleRequest)
  BY <1>2, OneMoves, IdleInTurn DEF OrderlyInv, Busy
<1>4. TurnsApart' /\ Answered' = Answered \cup {SigOf(q)}
  BY <1>1, <1>2, <1>3, TurnEnds DEF OrderlyInv
<1>5. sessions' \subseteq {row \in sessions : row.sig # SigOf(q)} \cup {own, new}
  <2>1. CASE KeepsTurn(q)
    <3>1. sessions' = SaveSession(SaveSession(sessions, own), new)
      BY <2>1 DEF Finish, Advanced
    <3>2. own.sig = SigOf(q)
      BY DEF SessionRow
    <3> HIDE DEF own, new
    <3>3. QED
      BY <3>1, <3>2 DEF SaveSession, PruneSessions
  <2>2. CASE ~KeepsTurn(q)
    BY <2>2 DEF Finish, DeleteSession
  <2>3. QED
    BY <2>1, <2>2
<1>6. own.sig = SigOf(q) /\ own.chat = q.chat
  BY DEF SessionRow
<1>7. new.sig = Signature(next) /\ new.chat = q.chat /\ new.parent = p
  BY DEF SessionRow
<1>8. q.chat # 0 /\ q.chat \in ChatIds
  BY <1>1, IInvParts DEF RequestSound, Request, OrderlyInv
<1>9. Len(next) > 1
  <2>1. q.msgs \in Seq(Messages) /\ Len(q.msgs) \in Nat /\ Len(q.msgs) >= 1
    BY <1>1, ConversationShape
  <2>2. Len(next) = Len(q.msgs) + 1
    BY <2>1
  <2> HIDE DEF next
  <2>3. QED
    BY <2>1, <2>2
<1> HIDE DEF own, new
<1>10. EndsAt(new, chats'[new.chat].log)
  <2>1. /\ p = Len(chats[q.chat].log) /\ chats[q.chat].log[p].ctx = next
        /\ chats[q.chat].log[p].role = "assistant"
    BY <1>1 DEF InTurn
  <2>2. QED
    BY <1>2, <1>7, <1>9, <2>1 DEF EndsAt
<1>11. ASSUME NEW row \in sessions', row.sig \in waiting
       PROVE  \/ row = new
              \/ row \in sessions /\ row.chat # q.chat /\ row.chat # 0
  <2>1. row.sig \notin Answered /\ row.sig # SigOf(q)
    BY <1>4, <1>11
  <2>2. CASE row \in sessions
    BY <2>1, <2>2, OwnRow, RowsChat DEF Waits, OrderlyInv
  <2>3. QED
    BY <1>5, <1>6, <2>1, <2>2
<1>12. \A o \in Requests : o # r => reqs[o].chat # q.chat
  BY <1>8 DEF OrderlyInv, ChatsApart
<1>13. ASSUME NEW row \in sessions', row.sig \in waiting
       PROVE  Owned(IdleRequest, row) /\ (OldRow(r, row) \/ NewRow(r, row, waiting))
  <2>1. CASE row = new
    <3>1. \A other \in sessions' :
             other.sig \in waiting /\ other.chat = new.chat => other.sig = new.sig
      BY <1>7, <1>11
    <3>2. NewRow(r, new, waiting)
      BY <1>7, <1>10, <1>12, <3>1 DEF NewRow
    <3>3. Owned(IdleRequest, new)
      BY <1>7, <1>8, IdleInTurn DEF Owned
    <3>4. QED
      BY <2>1, <3>2, <3>3
  <2>2. CASE row \in sessions /\ row.chat # q.chat /\ row.chat # 0
    BY <2>2, IdleInTurn DEF Owned, OldRow, Overtakes
  <2>3. QED
    BY <1>11, <1>13, <2>1, <2>2
<1>14. Moves(r, waiting)
  BY <1>2, <1>3, <1>13, IdleInTurn DEF Moves
<1>15. Answered \subseteq Answered'
  BY <1>4
<1>16. QED
  BY <1>4, <1>14, <1>15, MovesKeep

-----------------------------------------------------------------------------
(***************************************************************************)
(* Every step keeps the invariant.                                         *)
(***************************************************************************)
LEMMA AdvanceCarries ==
    ASSUME OrderlyInv, NothingMistaken', "empty" \notin Faults, NEW r \in Requests,
           Advance(r), ~Finish(r)
    PROVE  Carries(r, reqs[r]) /\ Busy(reqs[r])
<1>1. CASE EnterLock(r)
  BY <1>1, EnterLockCarries DEF EnterLock, Busy
<1>2. CASE CreateDone(r)
  BY <1>2, CreateDoneCarries DEF CreateDone, Busy
<1>3. CASE CreateFails(r)
  BY <1>3, CreateFailsCarries DEF CreateFails, Busy
<1>4. CASE RotateDone(r)
  BY <1>4, RotateDoneCarries DEF RotateDone, Busy
<1>5. CASE FailsOutsideTry(r)
  BY <1>5, FailsOutsideTryCarries DEF FailsOutsideTry, Busy
<1>6. ASSUME NEW outcome \in Replies \cup {Thinking}, PostAnswered(r, outcome)
      PROVE  Carries(r, reqs[r]) /\ Busy(reqs[r])
  BY <1>6, PostAnsweredCarries DEF PostAnswered, Posted, Busy
<1>7. CASE PostLimited(r)
  BY <1>7, PostLimitedCarries DEF PostLimited, Busy
<1>8. CASE Breaks(r)
  BY <1>8, BreaksCarries DEF Breaks, Busy
<1>9. QED
  BY <1>1, <1>2, <1>3, <1>4, <1>5, <1>6, <1>7, <1>8, NoRetries DEF Advance, PostEmpty

LEMMA ProceedKeeps ==
    ASSUME OrderlyInv, NothingMistaken', "empty" \notin Faults, NEW r \in Requests,
           Proceed(r), IInv'
    PROVE  OrderlyInv'
<1>1. CASE Finish(r)
  BY <1>1, FinishKeeps DEF Proceed
<1>2. CASE ~Finish(r)
  <2>1. Carries(r, reqs[r]) /\ Busy(reqs[r])
    BY <1>2, AdvanceCarries DEF Proceed
  <2>2. PICK q2 : Become(r, q2)
    BY <2>1 DEF Carries, Moves
  <2>3. reqs'[r] = q2
    BY <2>2, OneMoves DEF OrderlyInv
  <2>4. CASE Busy(q2)
    <3>1. sent' = sent /\ q2.msgs = reqs[r].msgs
      BY <2>1, <2>3, <2>4 DEF Proceed, Busy, Carries
    <3>2. TurnsApart' /\ Answered' = Answered
      BY <2>1, <2>2, <2>4, <3>1, TurnContinues DEF OrderlyInv
    <3>3. QED
      BY <2>1, <3>2, MovesKeep DEF Carries, Waiting
  <2>5. CASE ~Busy(q2)
    <3>1. sent' = sent \ {SigOf(reqs[r])}
      BY <1>2, <2>1, <2>3, <2>5 DEF Proceed, Busy
    <3>2. TurnsApart' /\ Answered' = Answered
      BY <2>1, <2>2, <2>5, <3>1, TurnFails DEF OrderlyInv
    <3>3. QED
      BY <2>1, <3>2, MovesKeep DEF Carries, Waiting
  <2>6. QED
    BY <2>4, <2>5
<1>3. QED
  BY <1>1, <1>2

\* A turn that is sent is in nobody's hands.
LEMMA SendCarries ==
    ASSUME OrderlyInv, NothingMistaken', NEW r \in Requests, NEW msgs \in Conversations,
           NEW stream \in BOOLEAN, Send(r, msgs, stream)
    PROVE  /\ Carries(r, NewRequest(msgs, stream, FALSE)) /\ ~Busy(reqs[r])
           /\ NewRequest(msgs, stream, FALSE).msgs = msgs
<1> DEFINE q == NewRequest(msgs, stream, FALSE)
<1>1. /\ q \in Request /\ q.msgs = msgs /\ q.chat = 0 /\ q.stream = stream /\ ~q.rotated
  BY NewRequestType DEF NewRequest
<1>2. Enter(r, q, tokens, sessions) /\ reqs[r].pc = "idle"
  BY DEF Send, Arrive
<1> HIDE DEF q
<1>3. SigOf(q) \notin sent /\ (stream => "broken" \notin Faults)
  BY <1>1 DEF Send, SigOf
<1>4. Unsaid(r, q)
  BY <1>1, <1>3 DEF Unsaid, Answered, OrderlyInv, TurnsApart
<1>5. Carries(r, q)
  BY <1>2, <1>4, EnterCarries
<1>6. QED
  BY <1>1, <1>2, <1>5 DEF Busy, q

LEMMA SendKeeps ==
    ASSUME OrderlyInv, NothingMistaken', NEW r \in Requests, NEW msgs \in Conversations,
           NEW stream \in BOOLEAN, Send(r, msgs, stream), IInv'
    PROVE  OrderlyInv'
<1>1. PICK q : q = NewRequest(msgs, stream, FALSE)
  OBVIOUS
<1>2. Carries(r, q) /\ ~Busy(reqs[r]) /\ q.msgs = msgs
  BY <1>1, SendCarries
<1>3. PICK q2 : Become(r, q2)
  BY <1>2 DEF Carries, Moves
<1>4. reqs'[r] = q2
  BY <1>3, OneMoves DEF OrderlyInv
<1>5. CASE Busy(q2)
  <2>1. SigOf(q2) = Signature(msgs)
    BY <1>2, <1>4, <1>5 DEF Carries, SigOf
  <2>2. SigOf(q2) \notin sent /\ sent' = sent \cup {SigOf(q2)}
    BY <1>4, <1>5, <2>1 DEF Send, Busy
  <2>3. TurnsApart' /\ Answered' = Answered
    BY <1>2, <1>3, <1>5, <2>2, TurnStarts DEF OrderlyInv
  <2>4. QED
    BY <1>2, <2>3, MovesKeep DEF Carries, Waiting
<1>6. CASE ~Busy(q2)
  <2>1. sent' = sent
    BY <1>4, <1>6 DEF Send, Busy
  <2>2. RequestSound(reqs[r], chats) /\ RequestSound(reqs'[r], chats')
    BY IInvParts DEF OrderlyInv, IInv
  <2>3. q2.msgs = reqs[r].msgs
    BY <1>2, <1>4, <1>6, <2>2 DEF RequestSound, Busy
  <2>4. TurnsApart' /\ Answered' = Answered
    BY <1>2, <1>3, <1>6, <2>1, <2>3, TurnContinues DEF OrderlyInv
  <2>5. QED
    BY <1>2, <2>4, MovesKeep DEF Carries, Waiting
<1>7. QED
  BY <1>5, <1>6

\* The dashboard, the clock and a restart between two turns touch no turn.
LEMMA AsideKeeps ==
    ASSUME OrderlyInv, IInv', chats' = chats, sent' = sent,
           \A o \in Requests : \/ reqs'[o] = reqs[o]
                               \/ ~Busy(reqs[o]) /\ reqs'[o] = IdleRequest,
           \A row \in sessions' : \E old \in sessions :
              old.sig = row.sig /\ old.chat = row.chat /\ old.parent = row.parent
    PROVE  OrderlyInv'
<1>1. \A o \in Requests :
         /\ Busy(reqs'[o]) => reqs'[o] = reqs[o]
         /\ Busy(reqs[o]) => reqs'[o] = reqs[o]
         /\ reqs'[o].chat # 0 => reqs'[o] = reqs[o]
         /\ InTurn(reqs'[o], chats')
  BY IdleInTurn DEF Busy, OrderlyInv
<1>2. TurnsApart'
  BY <1>1 DEF TurnsApart, OrderlyInv
<1>3. Answered' = Answered
  BY <1>1 DEF Answered
<1>4. ASSUME NEW row \in sessions', row.sig \notin Answered
      PROVE  \E old \in sessions : /\ Waits(old) /\ old.sig = row.sig /\ old.chat = row.chat
                                   /\ old.parent = row.parent /\ old.chat # 0
  BY <1>4, RowsChat DEF Waits, OrderlyInv
<1>5. ASSUME NEW row \in sessions', row.sig \notin Answered, NEW o \in Requests
      PROVE  Owned(reqs'[o], row)
  BY <1>1, <1>4, <1>5 DEF OrderlyInv, ChatsApart, Owned
<1>6. ASSUME NEW row \in sessions', row.sig \notin Answered, NEW other \in sessions',
             other.sig \notin Answered, other.chat = row.chat
      PROVE  other.sig = row.sig
  BY <1>4, <1>6 DEF OrderlyInv, ChatsApart
<1>7. ASSUME NEW x \in Requests, NEW y \in Requests, x # y, reqs'[x].chat # 0
      PROVE  reqs'[y].chat # reqs'[x].chat
  <2>1. reqs'[x] = reqs[x] /\ reqs[y].chat # reqs[x].chat
    BY <1>1, <1>7 DEF OrderlyInv, ChatsApart
  <2>2. CASE reqs'[y].chat = 0
    BY <1>7, <2>2
  <2>3. CASE reqs'[y].chat # 0
    BY <1>1, <2>1, <2>3
  <2>4. QED
    BY <2>2, <2>3
<1>8. ChatsApart'
  BY <1>3, <1>5, <1>6, <1>7 DEF ChatsApart, Waits
<1>9. ASSUME NEW row \in sessions', row.sig \notin Answered
      PROVE  \/ EndsAt(row, chats'[row.chat].log)
             \/ \E o \in Requests : Overtakes(reqs'[o], row)
  <2>1. PICK old \in sessions : /\ Waits(old) /\ old.sig = row.sig /\ old.chat = row.chat
                                /\ old.parent = row.parent
    BY <1>4, <1>9
  <2>2. CASE \E o \in Requests : Overtakes(reqs[o], old)
    BY <1>1, <2>1, <2>2 DEF Overtakes, Busy
  <2>3. CASE EndsAt(old, chats[old.chat].log)
    BY <2>1, <2>3 DEF EndsAt
  <2>4. QED
    BY <2>1, <2>2, <2>3 DEF OrderlyInv, RowsAtEnd
<1>10. RowsAtEnd'
  BY <1>3, <1>9 DEF RowsAtEnd, Waits
<1>11. QED
  BY <1>1, <1>2, <1>8, <1>10 DEF OrderlyInv

LEMMA TtlPassesKeeps ==
    ASSUME OrderlyInv, IInv', TtlPasses, sent' = sent
    PROVE  OrderlyInv'
<1>1. ASSUME NEW row \in sessions'
      PROVE  \E old \in sessions :
                old.sig = row.sig /\ old.chat = row.chat /\ old.parent = row.parent
  <2>1. PICK old \in sessions : row = [old EXCEPT !.expired = TRUE]
    BY DEF TtlPasses, ExpireAll
  <2>2. old \in Row
    BY RowsChat DEF OrderlyInv
  <2>3. QED
    BY <2>1, <2>2 DEF Row
<1>2. QED
  BY <1>1, AsideKeeps DEF TtlPasses

LEMMA RestartKeeps ==
    ASSUME OrderlyInv, IInv', Restart, sent' = sent, \A r \in Requests : reqs[r].pc = "idle"
    PROVE  OrderlyInv'
<1>1. sessions' \subseteq sessions
  BY DEF Restart, PruneSessions
<1>2. \A o \in Requests : ~Busy(reqs[o]) /\ reqs'[o] = IdleRequest
  BY DEF Restart, Busy
<1>3. QED
  BY <1>1, <1>2, AsideKeeps DEF Restart

\* What clients and environment of OrderlyGateway do is a step of the gateway.
LEMMA OrderlyStep ==
    ASSUME [OrderlyNext]_OrderlyVars
    PROVE  [Next]_vars
BY DEF OrderlyNext, OrderlyVars, Next, Send, Proceed

LEMMA OrderlyNextKeeps ==
    ASSUME OrderlyInv, NothingMistaken', "empty" \notin Faults, [OrderlyNext]_OrderlyVars
    PROVE  OrderlyInv'
<1>1. IInv'
  BY OrderlyStep, NextPreserves DEF OrderlyInv
<1>2. CASE UNCHANGED OrderlyVars
  <2>1. /\ chats' = chats /\ sent' = sent /\ sessions' = sessions /\ reqs' = reqs
    BY <1>2 DEF OrderlyVars, vars
  <2>2. QED
    BY <1>1, <2>1, AsideKeeps
<1>3. ASSUME NEW r \in Requests, NEW msgs \in Conversations, NEW stream \in BOOLEAN,
             Send(r, msgs, stream)
      PROVE  OrderlyInv'
  BY <1>1, <1>3, SendKeeps
<1>4. ASSUME NEW r \in Requests, Proceed(r)
      PROVE  OrderlyInv'
  BY <1>1, <1>4, ProceedKeeps
<1>5. ASSUME NEW a \in Accounts, AddToken(a), sent' = sent
      PROVE  OrderlyInv'
  BY <1>1, <1>5, AsideKeeps DEF AddToken
<1>6. ASSUME NEW t \in TokenIds, DeleteToken(t), sent' = sent
      PROVE  OrderlyInv'
  BY <1>1, <1>6, AsideKeeps DEF DeleteToken
<1>7. QED
  BY <1>1, <1>2, <1>3, <1>4, <1>5, <1>6, TtlPassesKeeps, RestartKeeps DEF OrderlyNext

LEMMA OrderlyInitEstablishes ==
    ASSUME OrderlyInit
    PROVE  OrderlyInv
<1>1. IInv /\ sessions = {} /\ sent = {} /\ \A r \in Requests : reqs[r] = IdleRequest
  BY InitEstablishes DEF OrderlyInit, Init
<1>2. \A r \in Requests : ~Busy(reqs[r]) /\ reqs[r].chat = 0 /\ InTurn(reqs[r], chats)
  BY <1>1, IdleInTurn DEF Busy
<1>3. TurnsApart /\ ChatsApart /\ RowsAtEnd
  BY <1>1, <1>2 DEF TurnsApart, ChatsApart, RowsAtEnd
<1>4. QED
  BY <1>1, <1>2, <1>3 DEF OrderlyInv

-----------------------------------------------------------------------------
(***************************************************************************)
(* The promise.  What a client hears of a request is known from the        *)
(* request alone, so a step of one handler is a step of one slot.          *)
(***************************************************************************)
Continued(q) == IF q.pc = "replying" THEN Append(q.msgs, Content(q.outcome)) ELSE <<>>

\* The reply is the continuation of what was asked.
LEMMA HeardIsContinued ==
    ASSUME NEW q, NEW cs, InTurn(q, cs)
    PROVE  (IF q.pc = "replying" /\ q.outcome # Empty
            THEN cs[q.chat].log[q.mid].ctx ELSE <<>>) = Continued(q)
BY OutcomesAssumption DEF InTurn, Continued

\* What a step of the handler does to its slot, if anything.
Asks(q, q2)     == q.msgs = <<>> /\ q2.msgs \in Conversations
                   /\ Continued(q2) = Continued(q)
Hears(q, q2)    == /\ q.msgs # <<>> /\ q2.msgs = q.msgs /\ Continued(q) = <<>>
                   /\ \E a \in Assistant : Continued(q2) = Append(q.msgs, a)
Ends(q, q2)     == q.msgs # <<>> /\ q2.msgs = <<>> /\ Continued(q2) = <<>>
GoesOn(q, q2)   == q2.msgs = q.msgs /\ Continued(q2) = Continued(q)

LEMMA SlotSteps ==
    ASSUME OrderlyInv, OrderlyInv', NEW r \in Requests, NEW q2, Become(r, q2),
           \/ Asks(reqs[r], q2) \/ Hears(reqs[r], q2)
           \/ Ends(reqs[r], q2) \/ GoesOn(reqs[r], q2)
    PROVE  [Promise!Next]_(Promise!vars)
<1> DEFINE asked  == [o \in Requests |-> reqs[o].msgs]
           heard  == [o \in Requests |-> Heard(reqs[o])]
<1>1. reqs'[r] = q2 /\ \A o \in Requests : o # r => reqs'[o] = reqs[o]
  BY OneMoves DEF OrderlyInv
<1>2. \A o \in Requests : asked[o] = reqs[o].msgs /\ asked'[o] = reqs'[o].msgs
  OBVIOUS
<1>3. \A o \in Requests : heard[o] = Continued(reqs[o]) /\ heard'[o] = Continued(reqs'[o])
  BY HeardIsContinued DEF OrderlyInv, Heard
<1>4. /\ asked = [o \in Requests |-> asked[o]] /\ asked' = [o \in Requests |-> asked'[o]]
      /\ heard = [o \in Requests |-> heard[o]] /\ heard' = [o \in Requests |-> heard'[o]]
  OBVIOUS
<1>5. \A o \in Requests : o # r => asked'[o] = asked[o] /\ heard'[o] = heard[o]
  BY <1>1, <1>2, <1>3
<1>6. /\ asked[r] = reqs[r].msgs /\ asked'[r] = q2.msgs
      /\ heard[r] = Continued(reqs[r]) /\ heard'[r] = Continued(q2)
  BY <1>1, <1>2, <1>3
<1>7. /\ asked' = [asked EXCEPT ![r] = q2.msgs]
      /\ heard' = [heard EXCEPT ![r] = Continued(q2)]
      /\ q2.msgs = asked[r] => asked' = asked
      /\ Continued(q2) = heard[r] => heard' = heard
  <2>1. asked' = [asked EXCEPT ![r] = q2.msgs]
    BY <1>4, <1>5, <1>6
  <2>2. heard' = [heard EXCEPT ![r] = Continued(q2)]
    BY <1>4, <1>5, <1>6
  <2>3. q2.msgs = asked[r] => asked' = asked
    BY <1>4, <1>5, <1>6
  <2>4. Continued(q2) = heard[r] => heard' = heard
    BY <1>4, <1>5, <1>6
  <2>5. QED
    BY <2>1, <2>2, <2>3, <2>4
<1> HIDE DEF asked, heard
<1>8. CASE Asks(reqs[r], q2)
  <2>1. Promise!Ask(r, q2.msgs)
    BY <1>6, <1>7, <1>8 DEF Promise!Ask, asked, heard, Asks
  <2>2. QED
    BY <1>8, <2>1 DEF Promise!Next, Asks
<1>9. CASE Hears(reqs[r], q2)
  <2>1. PICK a \in Assistant : Continued(q2) = Append(reqs[r].msgs, a)
    BY <1>9 DEF Hears
  <2>2. Promise!Continue(r, a)
    BY <1>6, <1>7, <1>9, <2>1 DEF Promise!Continue, asked, heard, Hears
  <2>3. QED
    BY <2>2 DEF Promise!Next
<1>10. CASE Ends(reqs[r], q2)
  <2>1. Promise!End(r)
    BY <1>6, <1>7, <1>10 DEF Promise!End, asked, heard, Ends
  <2>2. QED
    BY <2>1 DEF Promise!Next
<1>11. CASE GoesOn(reqs[r], q2)
  <2>1. UNCHANGED <<asked, heard>>
    BY <1>6, <1>7, <1>11 DEF GoesOn
  <2>2. QED
    BY <2>1 DEF Promise!vars, asked, heard
<1>12. QED
  BY <1>8, <1>9, <1>10, <1>11

\* A free handler carries nothing and has heard nothing.
LEMMA FreeSlot ==
    ASSUME OrderlyInv, NEW r \in Requests
    PROVE  /\ Busy(reqs[r]) <=> reqs[r].msgs # <<>>
           /\ reqs[r].pc # "replying" => Continued(reqs[r]) = <<>>
           /\ ~Busy(reqs[r]) => Continued(reqs[r]) = <<>>
<1>1. RequestSound(reqs[r], chats)
  BY IInvParts DEF OrderlyInv
<1>2. QED
  BY <1>1 DEF RequestSound, Busy, Continued

LEMMA FreeSlotAfter ==
    ASSUME OrderlyInv', NEW r \in Requests
    PROVE  /\ Busy(reqs'[r]) <=> reqs'[r].msgs # <<>>
           /\ reqs'[r].pc # "replying" => Continued(reqs'[r]) = <<>>
           /\ ~Busy(reqs'[r]) => Continued(reqs'[r]) = <<>>
<1>1. RequestSound(reqs'[r], chats')
  BY DEF OrderlyInv, IInv
<1>2. QED
  BY <1>1 DEF RequestSound, Busy, Continued

\* A turn that is sent is a question, or is refused at once.
LEMMA SendPromises ==
    ASSUME OrderlyInv, OrderlyInv', NothingMistaken', NEW r \in Requests,
           NEW msgs \in Conversations, NEW stream \in BOOLEAN, Send(r, msgs, stream)
    PROVE  [Promise!Next]_(Promise!vars)
<1>1. PICK q : q = NewRequest(msgs, stream, FALSE)
  OBVIOUS
<1>2. Carries(r, q) /\ ~Busy(reqs[r]) /\ q.msgs = msgs
  BY <1>1, SendCarries
<1>3. PICK q2 : Become(r, q2)
  BY <1>2 DEF Carries, Moves
<1>4. reqs'[r] = q2
  BY <1>3, OneMoves DEF OrderlyInv
<1>5. reqs[r].msgs = <<>> /\ Continued(reqs[r]) = <<>>
  BY <1>2, FreeSlot
<1>6. CASE Busy(q2)
  <2>1. q2.msgs = msgs /\ q2.pc # "replying"
    BY <1>2, <1>4, <1>6 DEF Carries, Busy
  <2>2. Asks(reqs[r], q2)
    BY <1>4, <1>5, <2>1, FreeSlotAfter DEF Asks
  <2>3. QED
    BY <1>3, <2>2, SlotSteps
<1>7. CASE ~Busy(q2)
  <2>1. GoesOn(reqs[r], q2)
    BY <1>4, <1>5, <1>7, FreeSlotAfter DEF GoesOn
  <2>2. QED
    BY <1>3, <2>1, SlotSteps
<1>8. QED
  BY <1>6, <1>7

\* A handler that goes on hears the reply to its question, ends, or does what no
\* client sees.
LEMMA ProceedPromises ==
    ASSUME OrderlyInv, OrderlyInv', NothingMistaken', "empty" \notin Faults,
           NEW r \in Requests, Proceed(r)
    PROVE  [Promise!Next]_(Promise!vars)
<1>1. CASE Finish(r)
  <2>1. Become(r, IdleRequest) /\ Busy(reqs[r])
    BY <1>1 DEF Finish, Answer, Busy
  <2>2. reqs'[r] = IdleRequest /\ ~Busy(IdleRequest)
    BY <2>1, OneMoves, IdleInTurn DEF OrderlyInv, Busy
  <2>3. Ends(reqs[r], IdleRequest)
    BY <2>1, <2>2, FreeSlot, FreeSlotAfter DEF Ends
  <2>4. QED
    BY <2>1, <2>3, SlotSteps
<1>2. CASE ~Finish(r)
  <2>1. Carries(r, reqs[r]) /\ Busy(reqs[r])
    BY <1>2, AdvanceCarries DEF Proceed
  <2>2. PICK q2 : Become(r, q2)
    BY <2>1 DEF Carries, Moves
  <2>3. reqs'[r] = q2 /\ reqs[r].msgs # <<>>
    BY <2>1, <2>2, OneMoves, FreeSlot DEF OrderlyInv
  <2>4. CASE ~Busy(q2)
    <3>1. Ends(reqs[r], q2)
      BY <2>3, <2>4, FreeSlotAfter DEF Ends
    <3>2. QED
      BY <2>2, <3>1, SlotSteps
  <2>5. CASE Busy(q2)
    <3>1. q2.msgs = reqs[r].msgs /\ Continued(reqs[r]) = <<>>
      BY <2>1, <2>3, <2>5, FreeSlot DEF Carries
    <3>2. CASE q2.pc = "replying"
      <4>1. Content(q2.outcome) \in Assistant
        BY DEF Content, Assistant
      <4>2. Continued(q2) = Append(reqs[r].msgs, Content(q2.outcome))
        BY <3>1, <3>2 DEF Continued
      <4>3. Hears(reqs[r], q2)
        BY <2>3, <3>1, <4>1, <4>2 DEF Hears
      <4>4. QED
        BY <2>2, <4>3, SlotSteps
    <3>3. CASE q2.pc # "replying"
      <4>1. GoesOn(reqs[r], q2)
        BY <2>3, <3>1, <3>3, FreeSlotAfter DEF GoesOn
      <4>2. QED
        BY <2>2, <4>1, SlotSteps
    <3>4. QED
      BY <3>2, <3>3
  <2>6. QED
    BY <2>4, <2>5
<1>3. QED
  BY <1>1, <1>2

\* The dashboard, the clock and a restart between two turns do what no client
\* sees.
LEMMA AsidePromises ==
    ASSUME OrderlyInv, OrderlyInv',
           \A o \in Requests : \/ reqs'[o] = reqs[o]
                               \/ ~Busy(reqs[o]) /\ reqs'[o] = IdleRequest
    PROVE  [Promise!Next]_(Promise!vars)
<1>1. \A o \in Requests : /\ Heard(reqs[o]) = Continued(reqs[o])
                          /\ Heard(reqs[o])' = Continued(reqs'[o])
  BY HeardIsContinued DEF OrderlyInv, Heard
<1>2. \A o \in Requests : /\ reqs'[o].msgs = reqs[o].msgs
                          /\ Continued(reqs'[o]) = Continued(reqs[o])
  BY FreeSlot, FreeSlotAfter, IdleInTurn DEF Busy
<1>3. \A o \in Requests : Heard(reqs[o])' = Heard(reqs[o])
  BY <1>1, <1>2
<1>4. QED
  BY <1>2, <1>3 DEF Promise!vars

\* Every step of the gateway is a step of the promise.
LEMMA OrderlyPromises ==
    ASSUME OrderlyInv, OrderlyInv', NothingMistaken', "empty" \notin Faults,
           [OrderlyNext]_OrderlyVars
    PROVE  [Promise!Next]_(Promise!vars)
<1>1. CASE UNCHANGED OrderlyVars
  BY <1>1, AsidePromises DEF OrderlyVars, vars
<1>2. ASSUME NEW a \in Accounts, AddToken(a)
      PROVE  [Promise!Next]_(Promise!vars)
  BY <1>2, AsidePromises DEF AddToken
<1>3. ASSUME NEW t \in TokenIds, DeleteToken(t)
      PROVE  [Promise!Next]_(Promise!vars)
  BY <1>3, AsidePromises DEF DeleteToken
<1>4. CASE TtlPasses
  BY <1>4, AsidePromises DEF TtlPasses
<1>5. CASE Restart /\ \A r \in Requests : reqs[r].pc = "idle"
  BY <1>5, AsidePromises DEF Restart, Busy
<1>6. QED
  BY <1>1, <1>2, <1>3, <1>4, <1>5, SendPromises, ProceedPromises DEF OrderlyNext

-----------------------------------------------------------------------------
(***************************************************************************)
(* Where the window cuts nothing, nothing is mistaken: what the model read *)
(* in some chat is a conversation with its reply, and the signature holds  *)
(* all of it.                                                              *)
(***************************************************************************)
IsAnswered(message) ==
    message.role = "assistant" =>
        \E m \in Conversations, x \in Assistant : message.ctx = Append(m, x)

LogsAnswered ==
    \A c \in DOMAIN chats : \A i \in DOMAIN chats[c].log : IsAnswered(chats[c].log[i])

\* Whole conversations with one signature are one.
LEMMA UncutIsRecognized ==
    ASSUME NothingCut, IInv, LogsAnswered
    PROVE  NothingMistaken
<1>1. ASSUME NEW r \in Requests, reqs[r].pc = "sending",
             NEW c \in DOMAIN chats, NEW i \in DOMAIN chats[c].log,
             chats[c].log[i].role = "assistant",
             Signature(chats[c].log[i].ctx) = SigOf(reqs[r])
      PROVE  chats[c].log[i].ctx = History(reqs[r].msgs)
  <2>1. reqs[r].msgs \in Conversations
    BY <1>1, BusyRequest
  <2>2. PICK m \in Conversations, x \in Assistant : chats[c].log[i].ctx = Append(m, x)
    BY <1>1 DEF LogsAnswered, IsAnswered
  <2>3. Signature(Append(m, x)).tail = Append(m, x)
    BY WholeReply
  <2>4. Signature(reqs[r].msgs).tail = History(reqs[r].msgs)
    BY <2>1, WholeHistory
  <2>5. QED
    BY <1>1, <2>2, <2>3, <2>4 DEF SigOf
<1>2. QED
  BY <1>1 DEF NothingMistaken, Recognized

\* What a step does to the chats.
ChatsKept == chats' = chats
ChatAdded == \E q : chats' = Append(chats, NewChat(q))

\* A step leaves the chats alone, adds an empty one, or is the post that an answer (or
\* its reasoning alone) follows.
LEMMA AdvanceChats ==
    ASSUME "empty" \notin Faults, NEW r \in Requests, Advance(r)
    PROVE  \/ ChatsKept \/ ChatAdded
           \/ \E outcome \in Replies \cup {Thinking} : PostAnswered(r, outcome)
<1>1. CASE EnterLock(r) \/ CreateFails(r) \/ FailsOutsideTry(r) \/ RetryEmpty(r) \/ Finish(r)
  BY <1>1 DEF EnterLock, CreateFails, FailsOutsideTry, RetryEmpty, Finish, ChatsKept
<1>2. CASE CreateDone(r) \/ RotateDone(r) \/ RecreateDone(r)
  BY <1>2 DEF CreateDone, RotateDone, RecreateDone, ChatAdded
<1>3. ASSUME NEW limited, Raise(r, limited)
      PROVE  ChatsKept
  BY <1>3 DEF Raise, Enter, ChatsKept
<1>4. CASE PostLimited(r) \/ Breaks(r)
  BY <1>3, <1>4 DEF PostLimited, Breaks
<1>5. QED
  BY <1>1, <1>2, <1>4 DEF Advance, PostEmpty

\* A chat only ever gets a question, and the conversation with its reply.
LEMMA StepAnswers ==
    ASSUME OrderlyInv, LogsAnswered, "empty" \notin Faults, [OrderlyNext]_OrderlyVars
    PROVE  LogsAnswered'
<1>1. CASE ChatsKept
  BY <1>1 DEF ChatsKept, LogsAnswered
<1>2. CASE ChatAdded
  <2>1. PICK q : chats' = Append(chats, NewChat(q))
    BY <1>2 DEF ChatAdded
  <2>2. chats \in Seq(Chat) /\ Len(chats) \in Nat
    BY TablesParts DEF OrderlyInv
  <2>3. /\ DOMAIN chats = 1 .. Len(chats) /\ DOMAIN chats' = 1 .. Len(chats) + 1
        /\ \A c \in 1 .. Len(chats) : chats'[c] = chats[c]
        /\ chats'[Len(chats) + 1] = NewChat(q)
    BY <2>1, <2>2
  <2>4. NewChat(q).log = <<>> /\ DOMAIN <<>> = {}
    BY DEF NewChat
  <2>5. ASSUME NEW c \in DOMAIN chats', NEW i \in DOMAIN chats'[c].log
        PROVE  IsAnswered(chats'[c].log[i])
    <3>1. c # Len(chats) + 1
      BY <2>3, <2>4, <2>5
    <3>2. c \in DOMAIN chats /\ chats'[c] = chats[c]
      BY <2>2, <2>3, <2>5, <3>1
    <3>3. QED
      BY <2>5, <3>2 DEF LogsAnswered
  <2>6. QED
    BY <2>5 DEF LogsAnswered
<1>3. ASSUME NEW r \in Requests, NEW outcome \in Replies \cup {Thinking},
             PostAnswered(r, outcome)
      PROVE  LogsAnswered'
  <2>1. PICK q, log, x, y, t : /\ q = reqs[r] /\ log = chats[q.chat].log
                               /\ x = Question(q) /\ y = Reply(q, outcome)
                               /\ t = log \o <<x, y>>
    OBVIOUS
  <2>2. q.pc = "sending" /\ chats' = [chats EXCEPT ![q.chat].log = t]
    BY <1>3, <2>1 DEF PostAnswered, Posted
  <2>3. /\ RequestSound(q, chats) /\ q.msgs \in Conversations /\ Told(q) = q.msgs
    BY <2>1, <2>2, IInvParts, BusyRequest, TellsConversation DEF OrderlyInv
  <2>4. q.chat \in DOMAIN chats /\ log \in Seq(Message)
    BY <2>1, <2>2, <2>3, TablesParts DEF RequestSound, OrderlyInv, Chat
  <2>5. /\ DOMAIN log = 1 .. Len(log) /\ DOMAIN t = 1 .. Len(log) + 2 /\ Len(log) \in Nat
        /\ \A i \in 1 .. Len(log) : t[i] = log[i]
        /\ t[Len(log) + 1] = x /\ t[Len(log) + 2] = y
    <3>1. DOMAIN log = 1 .. Len(log) /\ Len(log) \in Nat
      BY <2>4
    <3>2. /\ DOMAIN (log \o <<x, y>>) = 1 .. Len(log) + 2
          /\ \A i \in 1 .. Len(log) : (log \o <<x, y>>)[i] = log[i]
          /\ (log \o <<x, y>>)[Len(log) + 1] = x
          /\ (log \o <<x, y>>)[Len(log) + 2] = y
      BY <2>4, TwoEntries
    <3>3. QED
      BY <2>1, <3>1, <3>2
  <2>6. IsAnswered(x)
    BY <2>1 DEF IsAnswered, Question
  <2>7. IsAnswered(y)
    <3>1. y.ctx = Append(q.msgs, Content(outcome)) /\ Content(outcome) \in Assistant
      BY <2>1, <2>3 DEF Reply, Content, Assistant
    <3>2. QED
      BY <2>3, <3>1 DEF IsAnswered
  <2>8. ASSUME NEW i \in DOMAIN t
        PROVE  IsAnswered(t[i])
    <3>1. i \in 1 .. Len(log) \/ i = Len(log) + 1 \/ i = Len(log) + 2
      BY <2>5
    <3>2. ASSUME i \in 1 .. Len(log)
          PROVE  IsAnswered(t[i])
      <4>1. IsAnswered(log[i])
        BY <2>1, <2>4, <2>5, <3>2 DEF LogsAnswered
      <4>2. QED
        BY <2>5, <3>2, <4>1
    <3>3. QED
      BY <2>5, <2>6, <2>7, <3>1, <3>2
  <2>9. /\ DOMAIN chats' = DOMAIN chats
        /\ \A c \in DOMAIN chats : chats'[c].log = IF c = q.chat THEN t ELSE chats[c].log
    <3>1. chats[q.chat] \in Chat
      BY <2>4, TablesParts DEF OrderlyInv
    <3>2. QED
      BY <2>2, <2>4, <3>1 DEF Chat
  <2>10. ASSUME NEW c \in DOMAIN chats', NEW i \in DOMAIN chats'[c].log
         PROVE  IsAnswered(chats'[c].log[i])
    BY <2>8, <2>9, <2>10 DEF LogsAnswered
  <2>11. QED
    BY <2>10 DEF LogsAnswered
<1>4. CASE UNCHANGED OrderlyVars
  BY <1>1, <1>4 DEF OrderlyVars, vars, ChatsKept
<1>5. ASSUME NEW r \in Requests, NEW msgs \in Conversations, NEW stream \in BOOLEAN,
             Send(r, msgs, stream)
      PROVE  ChatsKept
  BY <1>5 DEF Send, Arrive, Enter, ChatsKept
<1>6. ASSUME NEW r \in Requests, Proceed(r)
      PROVE  LogsAnswered'
  BY <1>1, <1>2, <1>3, <1>6, AdvanceChats DEF Proceed
<1>7. CASE \/ \E a \in Accounts : AddToken(a)
           \/ \E t \in TokenIds : DeleteToken(t)
           \/ TtlPasses \/ Restart
  BY <1>1, <1>7 DEF AddToken, DeleteToken, TtlPasses, Restart, ChatsKept
<1>8. QED
  BY <1>1, <1>4, <1>5, <1>6, <1>7 DEF OrderlyNext

-----------------------------------------------------------------------------
(***************************************************************************)
(* The theorems.  A turn that stays empty is excluded: the code sends the  *)
(* new turn alone to the chat it retries on, and the history is lost.  So  *)
(* is a turn with the signature of an answered conversation that is not    *)
(* its history: it would go on in the chat of that one.                    *)
(***************************************************************************)

\* In every reachable state the row of a turn that is not answered points to the
\* end of a chat that has read a conversation with the signature of the turn,
\* and no two handlers write to one chat.
THEOREM OrderlyInvariance ==
    ASSUME "empty" \notin Faults
    PROVE  OrderlySpec /\ []NothingMistaken => []OrderlyInv
<1>1. OrderlyInit => OrderlyInv
  BY OrderlyInitEstablishes
<1>2. OrderlyInv /\ NothingMistaken' /\ [OrderlyNext]_OrderlyVars => OrderlyInv'
  BY OrderlyNextKeeps
<1>3. QED
  BY <1>1, <1>2, PTL DEF OrderlySpec

\* The parent that is about to be saved is the server's id of the reply this
\* very request received, though the gateway only counts messages.
THEOREM ParentIsOwnReply ==
    ASSUME "empty" \notin Faults
    PROVE  OrderlySpec /\ []NothingMistaken => []NextParentIsOwnReply
<1>1. OrderlyInv => NextParentIsOwnReply
  BY DEF OrderlyInv, InTurn, NextParentIsOwnReply
<1>2. QED
  BY <1>1, OrderlyInvariance, PTL

\* Every reply is the model's continuation of the very conversation its request
\* carried, whatever was cached, rotated, rejected and retried on the way.
THEOREM GatewayIsStateless ==
    ASSUME "empty" \notin Faults
    PROVE  OrderlySpec /\ []NothingMistaken => ImplementsStatelessChat
<1>1. OrderlyInit => Promise!Init
  <2> SUFFICES ASSUME OrderlyInit PROVE Promise!Init
    OBVIOUS
  <2>1. \A r \in Requests : reqs[r].msgs = <<>> /\ Heard(reqs[r]) = <<>>
    BY IdleInTurn DEF OrderlyInit, Init, Heard
  <2>2. QED
    BY <2>1 DEF Promise!Init
<1>2. OrderlyInv /\ OrderlyInv' /\ NothingMistaken' /\ [OrderlyNext]_OrderlyVars
         => [Promise!Next]_(Promise!vars)
  BY OrderlyPromises
<1>3. QED
  BY <1>1, <1>2, OrderlyInvariance, PTL DEF OrderlySpec, ImplementsStatelessChat, Promise!Spec

\* A window as long as the longest conversation mistakes nothing, and neither
\* does DEEPSEEKER_SIG_WINDOW_K=0, which hashes everything.
THEOREM WholeWindowsSuffice ==
    ASSUME NothingCut, "empty" \notin Faults
    PROVE  OrderlySpec => []NothingMistaken
<1>1. OrderlyInit => OrderlyInv /\ LogsAnswered
  <2> SUFFICES ASSUME OrderlyInit PROVE LogsAnswered
    BY OrderlyInitEstablishes
  <2>1. chats = <<>> /\ DOMAIN <<>> = {}
    BY DEF OrderlyInit, Init
  <2>2. QED
    BY <2>1 DEF LogsAnswered
<1>2. OrderlyInv => IInv
  BY DEF OrderlyInv
<1>3. IInv /\ LogsAnswered => NothingMistaken
  BY UncutIsRecognized
<1>4. IInv /\ [OrderlyNext]_OrderlyVars => IInv'
  BY OrderlyStep, NextPreserves
<1>5. OrderlyInv /\ LogsAnswered /\ [OrderlyNext]_OrderlyVars => LogsAnswered'
  BY StepAnswers
<1>6. OrderlyInv /\ NothingMistaken' /\ [OrderlyNext]_OrderlyVars => OrderlyInv'
  BY OrderlyNextKeeps
<1>7. QED
  BY <1>1, <1>2, <1>3, <1>4, <1>5, <1>6, PTL DEF OrderlySpec

\* So with such a window the gateway has no memory, whatever is said.
THEOREM WholeWindowsAreStateless ==
    ASSUME NothingCut, "empty" \notin Faults
    PROVE  OrderlySpec => ImplementsStatelessChat /\ []NextParentIsOwnReply
<1>1. OrderlySpec => []NothingMistaken
  BY WholeWindowsSuffice
<1>2. QED
  BY <1>1, GatewayIsStateless, ParentIsOwnReply
=============================================================================
