---------------------------- MODULE GatewayProofs ----------------------------
(***************************************************************************)
(* IInv is an inductive invariant of Gateway, for any number of handlers,  *)
(* tokens, chats and turns and any set of faults; TypeOK, ParentExists,    *)
(* ChatBoundToOneToken, NoForeignChat and LocksTracked follow.             *)
(***************************************************************************)
EXTENDS Gateway, TLAPS

-----------------------------------------------------------------------------
(***************************************************************************)
(* Conversations and signatures.                                           *)
(***************************************************************************)

\* Arithmetic of the last position.
LEMMA Predecessor ==
    ASSUME NEW n \in Nat, n >= 1
    PROVE  /\ n - 1 \in 0 .. n /\ n - 1 + 1 = n
           /\ n - 1 = 0 <=> n = 1
           /\ n > 1 <=> n # 1
OBVIOUS

\* A conversation alternates, starting and ending with a user message.
LEMMA ConversationShape ==
    ASSUME NEW m \in Conversations
    PROVE  /\ m \in Seq(Messages) /\ m # <<>>
           /\ Len(m) \in Nat /\ Len(m) >= 1
           /\ m[Len(m)] \in Users
           /\ Len(m) > 1 => m[Len(m) - 1] \in Assistant
<1>1. PICK n \in 1 .. MaxTurns :
         /\ m \in [1 .. (2 * n - 1) -> Messages]
         /\ \A i \in 1 .. (2 * n - 1) : m[i] \in Users <=> i % 2 = 1
  BY DEF Conversations
<1>2. n \in Nat /\ n >= 1 /\ 2 * n - 1 \in Nat
  BY SizesAssumption
<1>3. m \in Seq(Messages) /\ Len(m) = 2 * n - 1
  BY <1>1, <1>2
<1>4. (2 * n - 1) % 2 = 1 /\ (2 * n - 2) % 2 = 0
  BY <1>2
<1>5. m[Len(m)] \in Users
  BY <1>1, <1>2, <1>3, <1>4
<1>6. ASSUME Len(m) > 1
      PROVE  m[Len(m) - 1] \in Assistant
  <2>1. Len(m) - 1 = 2 * n - 2 /\ Len(m) - 1 \in 1 .. (2 * n - 1)
    BY <1>2, <1>3, <1>6
  <2>2. m[Len(m) - 1] \notin Users
    BY <1>1, <1>4, <2>1
  <2>3. m[Len(m) - 1] \in Messages
    BY <1>1, <2>1
  <2>4. QED
    BY <2>2, <2>3 DEF Messages
<1>7. QED
  BY <1>2, <1>3, <1>5, <1>6

\* The last reply of a conversation is the message before its last turn.
LEMMA LastOfConversation ==
    ASSUME NEW m \in Conversations
    PROVE  LastAssistant(m) = Len(m) - 1
<1>1. /\ m \in Seq(Messages) /\ Len(m) \in Nat /\ Len(m) >= 1
      /\ m[Len(m)] \notin Assistant
      /\ Len(m) > 1 => m[Len(m) - 1] \in Assistant
  BY ConversationShape, RolesAssumption
<1>2. ASSUME NEW i \in 0 .. Len(m),
             i = 0 \/ m[i] \in Assistant,
             \A j \in (i + 1) .. Len(m) : m[j] \notin Assistant
      PROVE  i = Len(m) - 1
  <2>1. i # Len(m)
    BY <1>1, <1>2
  <2>2. ~(i < Len(m) - 1)
    BY <1>1, <1>2
  <2>3. QED
    BY <1>1, <2>1, <2>2
<1>3. /\ Len(m) - 1 \in 0 .. Len(m)
      /\ Len(m) - 1 = 0 \/ m[Len(m) - 1] \in Assistant
      /\ \A j \in (Len(m) - 1 + 1) .. Len(m) : m[j] \notin Assistant
  <2>1. (Len(m) - 1 + 1) .. Len(m) = {Len(m)}
    BY <1>1
  <2>2. Len(m) - 1 \in 0 .. Len(m) /\ (Len(m) - 1 = 0 <=> Len(m) = 1)
    BY <1>1, Predecessor
  <2>3. Len(m) = 1 \/ Len(m) > 1
    BY <1>1, Predecessor
  <2>4. QED
    BY <1>1, <2>1, <2>2, <2>3
<1>4. QED
  BY <1>2, <1>3 DEF LastAssistant

\* With a reply appended, the last reply is the last message.
LEMMA LastOfReplied ==
    ASSUME NEW m \in Conversations, NEW x \in Assistant
    PROVE  LastAssistant(Append(m, x)) = Len(m) + 1
<1> DEFINE mx == Append(m, x)
<1>1. m \in Seq(Messages) /\ Len(m) \in Nat /\ x \in Messages
  BY ConversationShape DEF Messages
<1>2. mx \in Seq(Messages) /\ Len(mx) = Len(m) + 1 /\ mx[Len(m) + 1] = x
  BY <1>1
<1>3. ASSUME NEW i \in 0 .. Len(mx),
             \A j \in (i + 1) .. Len(mx) : mx[j] \notin Assistant
      PROVE  i = Len(m) + 1
  BY <1>1, <1>2, <1>3
<1>4. /\ Len(m) + 1 \in 0 .. Len(mx)
      /\ mx[Len(m) + 1] \in Assistant
      /\ \A j \in (Len(m) + 1 + 1) .. Len(mx) : mx[j] \notin Assistant
  BY <1>1, <1>2
<1>5. QED
  BY <1>3, <1>4 DEF LastAssistant

\* Window and SubSeq keep messages.
LEMMA WindowType ==
    ASSUME NEW h \in Seq(Messages)
    PROVE  Window(h) \in Seq(Messages)
<1>1. CASE WindowK = 0 \/ Len(h) <= WindowK
  BY <1>1 DEF Window
<1>2. CASE ~(WindowK = 0 \/ Len(h) <= WindowK)
  <2>1. /\ WindowK \in Nat /\ Len(h) \in Nat
        /\ Len(h) - WindowK + 1 \in 1 .. Len(h)
    BY <1>2, WindowKAssumption
  <2>2. SubSeq(h, Len(h) - WindowK + 1, Len(h)) \in Seq(Messages)
    BY <2>1
  <2>3. QED
    BY <1>2, <2>2 DEF Window
<1>3. QED
  BY <1>1, <1>2

\* The history of a conversation is a non-empty prefix of it.
LEMMA HistoryOfConversation ==
    ASSUME NEW m \in Conversations
    PROVE  /\ History(m) \in Seq(Messages) /\ Len(History(m)) \in Nat
           /\ Len(History(m)) >= 1 /\ History(m)[1] = m[1]
<1>1. m \in Seq(Messages) /\ Len(m) \in Nat /\ Len(m) >= 1
  BY ConversationShape
<1>2. LastAssistant(m) = Len(m) - 1
  BY LastOfConversation
<1>3. CASE Len(m) = 1
  <2>1. LastAssistant(m) = 0
    BY <1>2, <1>3
  <2>2. History(m) = m
    BY <2>1 DEF History
  <2>3. QED
    BY <1>1, <2>2
<1>4. CASE Len(m) > 1
  <2>1. History(m) = SubSeq(m, 1, Len(m) - 1)
    <3>1. Len(m) # 1
      BY <1>1, <1>4, Predecessor
    <3>2. LastAssistant(m) # 0
      BY <1>1, <1>2, <3>1, Predecessor
    <3>3. QED
      BY <1>2, <3>2 DEF History
  <2>2. QED
    BY <1>1, <1>4, <2>1
<1>5. QED
  BY <1>1, <1>3, <1>4

\* A signature is well formed and anchored in the opening message.
LEMMA SignatureOfConversation ==
    ASSUME NEW m \in Conversations
    PROVE  /\ Signature(m) \in Signatures
           /\ Signature(m).anchor = m[1]
           /\ HistLen(m) \in Nat
<1>1. /\ History(m) \in Seq(Messages) /\ Len(History(m)) \in Nat
      /\ Len(History(m)) >= 1 /\ History(m)[1] = m[1]
  BY HistoryOfConversation
<1>2. Window(History(m)) \in Seq(Messages)
  BY <1>1, WindowType
<1>3. Head(History(m)) = m[1] /\ m[1] \in Messages
  BY <1>1
<1>4. QED
  BY <1>1, <1>2, <1>3 DEF Signature, Signatures, HistLen

\* So is the signature under which the next turn will be looked up.
LEMMA SignatureOfReplied ==
    ASSUME NEW m \in Conversations, NEW x \in Assistant
    PROVE  /\ Signature(Append(m, x)) \in Signatures
           /\ Signature(Append(m, x)).anchor = m[1]
           /\ HistLen(Append(m, x)) \in Nat
<1> DEFINE mx == Append(m, x)
<1>1. m \in Seq(Messages) /\ Len(m) \in Nat /\ Len(m) >= 1 /\ x \in Messages
  BY ConversationShape DEF Messages
<1>2. mx \in Seq(Messages) /\ Len(mx) = Len(m) + 1 /\ mx[1] = m[1]
  BY <1>1
<1>3. LastAssistant(mx) = Len(mx) /\ LastAssistant(mx) # 0
  BY <1>1, <1>2, LastOfReplied
<1>4. History(mx) = SubSeq(mx, 1, Len(mx))
  BY <1>3 DEF History
<1>5. /\ History(mx) \in Seq(Messages) /\ Len(History(mx)) = Len(mx)
      /\ History(mx)[1] = m[1]
  BY <1>1, <1>2, <1>4
<1>6. Window(History(mx)) \in Seq(Messages)
  BY <1>5, WindowType
<1>7. Head(History(mx)) = m[1] /\ m[1] \in Messages
  BY <1>1, <1>2, <1>5
<1>8. QED
  BY <1>1, <1>2, <1>5, <1>6, <1>7 DEF Signature, Signatures, HistLen

\* The new turn alone is a list of messages.
LEMMA TrailingType ==
    ASSUME NEW m \in Conversations
    PROVE  Trailing(m) \in Seq(Messages)
<1>1. m \in Seq(Messages) /\ Len(m) \in Nat /\ Len(m) >= 1
  BY ConversationShape
<1>2. Trailing(m) = SubSeq(m, Len(m), Len(m))
  <2>1. LastAssistant(m) + 1 = Len(m)
    BY <1>1, LastOfConversation, Predecessor
  <2>2. QED
    BY <2>1 DEF Trailing
<1>3. QED
  BY <1>1, <1>2

-----------------------------------------------------------------------------
(***************************************************************************)
(* The token table.                                                        *)
(***************************************************************************)

\* pick_token() returns the id of a row, and a row names an account.
LEMMA ActiveTokenRow ==
    ASSUME NEW pool \in TokenTable, NEW t \in ActiveTokens(pool)
    PROVE  t \in TokenIds /\ pool[t] # NoToken /\ pool[t].account \in Accounts
BY DEF ActiveTokens, TokenTable, TokenRow

\* A row that is there names an account.
LEMMA PresentTokenRow ==
    ASSUME NEW pool \in TokenTable, NEW t \in TokenIds, pool[t] # NoToken
    PROVE  pool[t].account \in Accounts
BY DEF TokenTable, TokenRow

\* The updates of the table yield a table.
LEMMA TokenTableClosed ==
    ASSUME NEW pool \in TokenTable, NEW t \in TokenIds, NEW a \in Accounts
    PROVE  /\ MarkLimited(pool, t) \in TokenTable
           /\ MarkActive(pool, t) \in TokenTable
           /\ InsertToken(pool, t, a) \in TokenTable
           /\ RemoveToken(pool, t) \in TokenTable
<1>1. ASSUME NEW status \in Statuses
      PROVE  SetStatus(pool, t, status) \in TokenTable
  <2>1. CASE pool[t] = NoToken
    BY <2>1 DEF SetStatus
  <2>2. CASE pool[t] # NoToken
    <3>1. pool[t] \in TokenRow
      BY <2>2 DEF TokenTable
    <3>2. [pool[t] EXCEPT !.status = status] \in TokenRow
      BY <1>1, <3>1 DEF TokenRow
    <3>3. SetStatus(pool, t, status)
            = [pool EXCEPT ![t] = [pool[t] EXCEPT !.status = status]]
      BY <2>2 DEF SetStatus, TokenTable
    <3>4. QED
      BY <3>2, <3>3 DEF TokenTable
  <2>3. QED
    BY <2>1, <2>2
<1>2. MarkLimited(pool, t) \in TokenTable /\ MarkActive(pool, t) \in TokenTable
  BY <1>1 DEF MarkLimited, MarkActive, Statuses
<1>3. [account |-> a, status |-> "ACTIVE"] \in TokenRow
  BY DEF TokenRow, Statuses
<1>4. QED
  BY <1>2, <1>3 DEF InsertToken, RemoveToken, TokenTable

-----------------------------------------------------------------------------
(***************************************************************************)
(* Rows and handlers against chats.  Chats only grow: no message and no    *)
(* chat is ever taken back.                                                *)
(***************************************************************************)
Grown(old, new) ==
    /\ DOMAIN old \subseteq DOMAIN new
    /\ \A c \in DOMAIN old :
          /\ new[c].token = old[c].token
          /\ new[c].opener = old[c].opener
          /\ Len(old[c].log) \in Nat /\ Len(new[c].log) \in Nat
          /\ Len(old[c].log) <= Len(new[c].log)

\* What was sound stays sound when chats grow.
LEMMA RowStaysSound ==
    ASSUME NEW old, NEW new, Grown(old, new),
           NEW row \in Row, RowSound(row, old)
    PROVE  RowSound(row, new)
<1>1. /\ row.chat \in DOMAIN old /\ row.chat \in DOMAIN new
      /\ Len(old[row.chat].log) \in Nat /\ Len(new[row.chat].log) \in Nat
      /\ Len(old[row.chat].log) <= Len(new[row.chat].log)
      /\ row.parent \in Nat /\ row.parent <= Len(old[row.chat].log)
  BY DEF Grown, RowSound, Row
<1>2. row.parent <= Len(new[row.chat].log)
  BY <1>1
<1>3. QED
  BY <1>1, <1>2 DEF Grown, RowSound

LEMMA RequestStaysSound ==
    ASSUME NEW old, NEW new, Grown(old, new),
           NEW q \in Request, RequestSound(q, old)
    PROVE  RequestSound(q, new)
<1>1. CASE q.chat = 0
  <2>1. q.pc # "replying"
    BY <1>1 DEF RequestSound
  <2>2. QED
    BY <1>1, <2>1 DEF RequestSound
<1>2. CASE q.chat # 0
  <2>1. /\ q.chat \in DOMAIN old /\ q.chat \in DOMAIN new
        /\ Len(old[q.chat].log) \in Nat /\ Len(new[q.chat].log) \in Nat
        /\ Len(old[q.chat].log) <= Len(new[q.chat].log)
        /\ q.parent \in Nat /\ q.parent <= Len(old[q.chat].log)
        /\ new[q.chat].token = old[q.chat].token
        /\ new[q.chat].opener = old[q.chat].opener
    BY <1>2 DEF Grown, RequestSound, Request
  <2>2. q.parent <= Len(new[q.chat].log)
    BY <2>1
  <2>3. q.pc = "replying" /\ q.outcome # Empty =>
          next_parent(q.parent) <= Len(new[q.chat].log)
    BY <1>2, <2>1 DEF RequestSound, next_parent
  <2>4. QED
    BY <1>2, <2>1, <2>2, <2>3 DEF RequestSound
<1>3. QED
  BY <1>1, <1>2

\* Appending a chat grows them.
LEMMA AppendedChat ==
    ASSUME NEW cs \in Seq(Chat), NEW ch \in Chat
    PROVE  /\ Append(cs, ch) \in Seq(Chat)
           /\ Len(Append(cs, ch)) = Len(cs) + 1
           /\ Append(cs, ch)[Len(cs) + 1] = ch
           /\ Len(cs) + 1 \in DOMAIN Append(cs, ch)
           /\ Grown(cs, Append(cs, ch))
<1>1. /\ Append(cs, ch) \in Seq(Chat) /\ Len(cs) \in Nat
      /\ Len(Append(cs, ch)) = Len(cs) + 1
      /\ Append(cs, ch)[Len(cs) + 1] = ch
      /\ \A c \in 1 .. Len(cs) : Append(cs, ch)[c] = cs[c]
      /\ DOMAIN cs = 1 .. Len(cs)
      /\ DOMAIN Append(cs, ch) = 1 .. (Len(cs) + 1)
  OBVIOUS
<1>2. \A c \in DOMAIN cs : cs[c] \in Chat
  BY <1>1
<1>3. \A c \in DOMAIN cs : Len(cs[c].log) \in Nat
  BY <1>2 DEF Chat
<1>4. DOMAIN cs \subseteq DOMAIN Append(cs, ch)
  BY <1>1
<1>5. Grown(cs, Append(cs, ch))
  BY <1>1, <1>3, <1>4 DEF Grown
<1>6. QED
  BY <1>1, <1>5

\* Appending messages to the log of one chat grows them.
LEMMA ExtendedChat ==
    ASSUME NEW cs \in Seq(Chat), NEW c \in DOMAIN cs, NEW more \in Seq(Message)
    PROVE  LET new == [cs EXCEPT ![c].log = cs[c].log \o more]
           IN  /\ new \in Seq(Chat) /\ Len(new) = Len(cs)
               /\ DOMAIN new = DOMAIN cs
               /\ new[c].token = cs[c].token /\ new[c].opener = cs[c].opener
               /\ Len(cs[c].log) \in Nat /\ Len(more) \in Nat
               /\ Len(new[c].log) = Len(cs[c].log) + Len(more)
               /\ Grown(cs, new)
<1> DEFINE new == [cs EXCEPT ![c].log = cs[c].log \o more]
<1>1. cs[c] \in Chat /\ cs[c].log \in Seq(Message)
  <2>1. cs[c] \in Chat
    OBVIOUS
  <2>2. QED
    BY <2>1 DEF Chat
<1>2. cs[c].log \o more \in Seq(Message)
  BY <1>1
<1>3. /\ Len(cs[c].log) \in Nat /\ Len(more) \in Nat
      /\ Len(cs[c].log \o more) = Len(cs[c].log) + Len(more)
  BY <1>1
<1>4. new[c] = [cs[c] EXCEPT !.log = cs[c].log \o more]
  OBVIOUS
<1>5. /\ new[c] \in Chat
      /\ new[c].log = cs[c].log \o more
      /\ new[c].token = cs[c].token /\ new[c].opener = cs[c].opener
  BY <1>1, <1>2, <1>4 DEF Chat
<1>6. \A d \in DOMAIN cs : d # c => new[d] = cs[d]
  OBVIOUS
<1>7. DOMAIN new = DOMAIN cs /\ DOMAIN cs = 1 .. Len(cs) /\ Len(cs) \in Nat
  OBVIOUS
<1>8. new \in [1 .. Len(cs) -> Chat]
  <2>1. new = [d \in DOMAIN cs |-> IF d = c THEN new[c] ELSE cs[d]]
    OBVIOUS
  <2>2. \A d \in DOMAIN cs : cs[d] \in Chat
    BY <1>7
  <2>3. QED
    BY <1>5, <1>7, <2>1, <2>2
<1>9. new \in Seq(Chat) /\ Len(new) = Len(cs)
  BY <1>7, <1>8
<1>10. \A d \in DOMAIN cs : Len(cs[d].log) \in Nat
  BY <1>7 DEF Chat
<1>11. Grown(cs, new)
  <2>1. ASSUME NEW d \in DOMAIN cs
        PROVE  /\ new[d].token = cs[d].token /\ new[d].opener = cs[d].opener
               /\ Len(new[d].log) \in Nat
               /\ Len(cs[d].log) <= Len(new[d].log)
    <3>1. CASE d = c
      BY <1>3, <1>5, <3>1
    <3>2. CASE d # c
      BY <1>6, <1>10, <3>2
    <3>3. QED
      BY <3>1, <3>2
  <2>2. QED
    BY <1>7, <1>10, <2>1 DEF Grown
<1>12. QED
  BY <1>3, <1>5, <1>7, <1>9, <1>11

-----------------------------------------------------------------------------
(***************************************************************************)
(* The per-signature locks.  r is the handler that takes the step and q2   *)
(* its local state after it.                                               *)
(***************************************************************************)

\* A lock's queue is a sequence of handlers.
LEMMA QueueType ==
    ASSUME TypeOK, NEW l \in LockIds
    PROVE  /\ locks[l] \in Lock
           /\ locks[l].queue \in Seq(Requests) /\ Len(locks[l].queue) \in Nat
           /\ DOMAIN locks[l].queue = 1 .. Len(locks[l].queue)
<1>1. locks[l] \in Lock
  BY DEF TypeOK
<1>2. locks[l].queue \in Seq(Requests)
  BY <1>1 DEF Lock
<1>3. QED
  BY <1>1, <1>2

\* The handler keeps its place in the queue, or is in none.
LEMMA LocksKept ==
    ASSUME TypeOK, LocksTracked, NEW r \in Requests, NEW q2 \in Request,
           reqs' = [reqs EXCEPT ![r] = q2], locks' = locks,
           q2.lock = reqs[r].lock,
           q2.lock # 0 /\ q2.pc = "creating" =>
              1 \in DOMAIN locks[q2.lock].queue /\ locks[q2.lock].queue[1] = r
    PROVE  LocksTracked'
<1>1. /\ reqs'[r] = q2
      /\ \A s \in Requests : s # r => reqs'[s] = reqs[s]
      /\ \A s \in Requests : reqs'[s].lock = reqs[s].lock
  BY DEF TypeOK
<1>2. ASSUME NEW l \in LockIds
      PROVE  /\ locks'[l] # FreeLock => locks'[l].queue # <<>>
             /\ \A i \in DOMAIN locks'[l].queue :
                   reqs'[locks'[l].queue[i]].lock = l
             /\ \A i, j \in DOMAIN locks'[l].queue :
                   locks'[l].queue[i] = locks'[l].queue[j] => i = j
  <2>1. \A i \in DOMAIN locks[l].queue : locks[l].queue[i] \in Requests
    BY QueueType
  <2>2. QED
    BY <1>1, <2>1 DEF LocksTracked
<1>3. ASSUME NEW s \in Requests, reqs'[s].lock # 0
      PROVE  \E i \in DOMAIN locks'[reqs'[s].lock].queue :
                /\ locks'[reqs'[s].lock].queue[i] = s
                /\ reqs'[s].pc = "creating" => i = 1
  <2>1. CASE s # r
    BY <1>1, <1>3, <2>1 DEF LocksTracked
  <2>2. CASE s = r /\ q2.pc = "creating"
    BY <1>1, <1>3, <2>2
  <2>3. CASE s = r /\ q2.pc # "creating"
    BY <1>1, <1>3, <2>3 DEF LocksTracked
  <2>4. QED
    BY <2>1, <2>2, <2>3
<1>4. \A k, l \in LockIds :
         locks'[k].listed /\ locks'[l].listed /\ locks'[l].sig = locks'[k].sig
            => k = l
  BY DEF LocksTracked, ListedLock
<1>5. QED
  BY <1>2, <1>3, <1>4 DEF LocksTracked, ListedLock

\* The holder leaves: the next waiter holds the lock, which is not listed any
\* more.
LEMMA LocksReleased ==
    ASSUME TypeOK, LocksTracked, NEW r \in Requests, NEW q2 \in Request,
           NEW l \in LockIds, reqs[r].lock = l,
           reqs' = [reqs EXCEPT ![r] = q2], locks' = Released(l),
           q2.lock = 0,
           1 \in DOMAIN locks[l].queue, locks[l].queue[1] = r
    PROVE  LocksTracked' /\ locks' \in [LockIds -> Lock]
<1> DEFINE old  == locks[l].queue
           rest == Tail(old)
<1>1. /\ reqs'[r] = q2
      /\ \A s \in Requests : s # r => reqs'[s] = reqs[s]
      /\ locks \in [LockIds -> Lock]
  BY DEF TypeOK
<1>2. /\ old \in Seq(Requests) /\ Len(old) \in Nat /\ Len(old) >= 1
      /\ DOMAIN old = 1 .. Len(old) /\ locks[l] \in Lock
  BY QueueType
<1>3. /\ rest \in Seq(Requests) /\ Len(rest) = Len(old) - 1
      /\ DOMAIN rest = 1 .. (Len(old) - 1)
      /\ \A i \in DOMAIN rest : i + 1 \in DOMAIN old /\ rest[i] = old[i + 1]
  BY <1>2
<1>4. /\ \A k \in LockIds : k # l => locks'[k] = locks[k]
      /\ rest = <<>> => locks'[l] = FreeLock
      /\ rest # <<>> => locks'[l] = [sig |-> locks[l].sig, queue |-> rest,
                                    listed |-> FALSE]
      /\ DOMAIN locks' = LockIds
  BY <1>1 DEF Released
<1>5. locks'[l].queue = rest /\ locks'[l].listed = FALSE
  <2>1. CASE rest = <<>>
    <3>1. locks'[l] = FreeLock
      BY <1>4, <2>1
    <3>2. QED
      BY <2>1, <3>1 DEF FreeLock
  <2>2. CASE rest # <<>>
    <3>1. locks'[l] = [sig |-> locks[l].sig, queue |-> rest, listed |-> FALSE]
      BY <1>4, <2>2
    <3>2. QED
      BY <3>1
  <2>3. QED
    BY <2>1, <2>2
<1>6. locks'[l] \in Lock
  <2>1. FreeLock \in Lock
    BY DEF FreeLock, Lock
  <2>2. [sig |-> locks[l].sig, queue |-> rest, listed |-> FALSE] \in Lock
    BY <1>2, <1>3 DEF Lock
  <2>3. QED
    BY <1>4, <2>1, <2>2
<1>7. locks' \in [LockIds -> Lock]
  <2>1. locks' = [k \in LockIds |-> IF k = l THEN locks'[l] ELSE locks[k]]
    BY <1>1 DEF Released
  <2>2. QED
    BY <1>1, <1>6, <2>1
<1>8. \A i \in DOMAIN rest : rest[i] # r /\ rest[i] \in Requests
  <2>1. ASSUME NEW i \in DOMAIN rest
        PROVE  rest[i] # r /\ rest[i] \in Requests
    <3>1. i + 1 # 1 /\ i + 1 \in DOMAIN old /\ rest[i] = old[i + 1]
      BY <1>2, <1>3
    <3>2. old[i + 1] # old[1]
      BY <3>1 DEF LocksTracked
    <3>3. QED
      BY <1>2, <3>1, <3>2
  <2>2. QED
    BY <2>1
<1>9. ASSUME NEW k \in LockIds
      PROVE  /\ locks'[k] # FreeLock => locks'[k].queue # <<>>
             /\ \A i \in DOMAIN locks'[k].queue :
                   reqs'[locks'[k].queue[i]].lock = k
             /\ \A i, j \in DOMAIN locks'[k].queue :
                   locks'[k].queue[i] = locks'[k].queue[j] => i = j
  <2>1. CASE k # l
    <3>1. \A i \in DOMAIN locks[k].queue :
             /\ locks[k].queue[i] \in Requests
             /\ reqs[locks[k].queue[i]].lock = k
      BY QueueType DEF LocksTracked
    <3>2. \A i \in DOMAIN locks[k].queue : locks[k].queue[i] # r
      BY <2>1, <3>1
    <3>3. QED
      BY <1>1, <1>4, <2>1, <3>1, <3>2 DEF LocksTracked
  <2>2. CASE k = l
    <3>1. locks'[l] # FreeLock => rest # <<>>
      BY <1>4
    <3>2. \A i \in DOMAIN rest : reqs'[rest[i]].lock = l
      <4>1. ASSUME NEW i \in DOMAIN rest
            PROVE  reqs'[rest[i]].lock = l
        <5>1. reqs[old[i + 1]].lock = l
          BY <1>3 DEF LocksTracked
        <5>2. QED
          BY <1>1, <1>3, <1>8, <5>1
      <4>2. QED
        BY <4>1
    <3>3. \A i, j \in DOMAIN rest : rest[i] = rest[j] => i = j
      <4>1. ASSUME NEW i \in DOMAIN rest, NEW j \in DOMAIN rest, rest[i] = rest[j]
            PROVE  i = j
        <5>1. i + 1 = j + 1
          BY <1>3, <4>1 DEF LocksTracked
        <5>2. i \in Nat /\ j \in Nat
          BY <1>2, <1>3
        <5>3. QED
          BY <5>1, <5>2
      <4>2. QED
        BY <4>1
    <3>4. locks'[k] = locks'[l] /\ locks'[k].queue = rest
      BY <1>5, <2>2
    <3>5. \A i \in DOMAIN rest : reqs'[rest[i]].lock = k
      BY <2>2, <3>2
    <3>6. QED
      BY <3>1, <3>3, <3>4, <3>5
  <2>3. QED
    BY <2>1, <2>2
<1>10. ASSUME NEW s \in Requests, reqs'[s].lock # 0
       PROVE  \E i \in DOMAIN locks'[reqs'[s].lock].queue :
                 /\ locks'[reqs'[s].lock].queue[i] = s
                 /\ reqs'[s].pc = "creating" => i = 1
  <2>1. s # r /\ reqs'[s] = reqs[s]
    BY <1>1, <1>10
  <2>2. PICK i \in DOMAIN locks[reqs[s].lock].queue :
           /\ locks[reqs[s].lock].queue[i] = s
           /\ reqs[s].pc = "creating" => i = 1
    BY <1>10, <2>1 DEF LocksTracked
  <2>3. reqs[s].lock \in LockIds
    BY <1>10, <2>1 DEF TypeOK, Request
  <2>4. CASE reqs[s].lock # l
    BY <1>4, <2>1, <2>2, <2>3, <2>4
  <2>5. CASE reqs[s].lock = l
    <3>1. i # 1 /\ i \in 1 .. Len(old) /\ old[i] = s
      BY <1>2, <2>1, <2>2, <2>5
    <3>2. i - 1 \in DOMAIN rest /\ rest[i - 1] = s
      BY <1>2, <1>3, <3>1
    <3>3. reqs[s].pc # "creating"
      BY <2>2, <3>1
    <3>4. QED
      BY <1>5, <2>1, <2>5, <3>2, <3>3
  <2>6. QED
    BY <2>4, <2>5
<1>11. \A j, k \in LockIds :
          locks'[j].listed /\ locks'[k].listed /\ locks'[k].sig = locks'[j].sig
             => j = k
  BY <1>4, <1>5 DEF LocksTracked, ListedLock
<1>12. QED
  BY <1>7, <1>9, <1>10, <1>11 DEF LocksTracked, ListedLock

\* A newcomer queues behind the holder of a listed lock.
LEMMA LocksJoined ==
    ASSUME TypeOK, LocksTracked, NEW r \in Requests, NEW q2 \in Request,
           NEW l \in LockIds, locks[l].listed, reqs[r].lock = 0,
           reqs' = [reqs EXCEPT ![r] = q2],
           locks' = [locks EXCEPT ![l].queue = Append(@, r)],
           q2.lock = l, q2.pc = "waiting"
    PROVE  LocksTracked' /\ locks' \in [LockIds -> Lock]
<1> DEFINE old == locks[l].queue
           new == Append(old, r)
<1>1. /\ reqs'[r] = q2
      /\ \A s \in Requests : s # r => reqs'[s] = reqs[s]
      /\ locks \in [LockIds -> Lock]
  BY DEF TypeOK
<1>2. /\ old \in Seq(Requests) /\ Len(old) \in Nat
      /\ DOMAIN old = 1 .. Len(old) /\ locks[l] \in Lock
  BY QueueType
<1>3. /\ new \in Seq(Requests) /\ DOMAIN new = 1 .. (Len(old) + 1)
      /\ new # <<>> /\ new[Len(old) + 1] = r
      /\ \A i \in DOMAIN old : i \in DOMAIN new /\ new[i] = old[i]
      /\ \A i \in DOMAIN new : i \in DOMAIN old \/ i = Len(old) + 1
  BY <1>2
<1>4. /\ \A k \in LockIds : k # l => locks'[k] = locks[k]
      /\ locks'[l] = [locks[l] EXCEPT !.queue = new]
  BY <1>1
<1>5. /\ locks'[l].queue = new /\ locks'[l].listed = locks[l].listed
      /\ locks'[l].sig = locks[l].sig /\ locks'[l] \in Lock
  <2>1. /\ locks[l] \in Lock /\ new \in Seq(Requests)
        /\ locks'[l] = [locks[l] EXCEPT !.queue = new]
    BY <1>2, <1>3, <1>4
  <2> HIDE DEF new
  <2>2. PICK k \in Lock : k = locks[l]
    BY <2>1
  <2>3. locks'[l] = [k EXCEPT !.queue = new]
    BY <2>1, <2>2
  <2>4. locks'[l] = [sig |-> k.sig, queue |-> new, listed |-> k.listed]
    BY <2>2, <2>3 DEF Lock
  <2>5. locks'[l] \in Lock
    BY <2>1, <2>2, <2>4 DEF Lock
  <2>6. locks'[l].queue = new
    BY <2>4
  <2>7. locks'[l].sig = locks[l].sig
    BY <2>2, <2>4
  <2>8. locks'[l].listed = k.listed
    BY <2>4
  <2>9. QED
    BY <2>2, <2>5, <2>6, <2>7, <2>8
<1>6. locks' \in [LockIds -> Lock]
  <2>1. locks' = [k \in LockIds |-> IF k = l THEN locks'[l] ELSE locks[k]]
    BY <1>1
  <2>2. QED
    BY <1>1, <1>5, <2>1
<1>7. ASSUME NEW k \in LockIds, NEW i \in DOMAIN locks[k].queue
      PROVE  /\ locks[k].queue[i] \in Requests /\ locks[k].queue[i] # r
             /\ reqs'[locks[k].queue[i]].lock = k
  <2>1. locks[k].queue[i] \in Requests /\ reqs[locks[k].queue[i]].lock = k
    BY QueueType DEF LocksTracked
  <2>2. k # 0
    BY DEF LockIds
  <2>3. QED
    BY <1>1, <2>1, <2>2
<1>8. ASSUME NEW k \in LockIds
      PROVE  /\ locks'[k] # FreeLock => locks'[k].queue # <<>>
             /\ \A i \in DOMAIN locks'[k].queue :
                   reqs'[locks'[k].queue[i]].lock = k
             /\ \A i, j \in DOMAIN locks'[k].queue :
                   locks'[k].queue[i] = locks'[k].queue[j] => i = j
  <2>1. CASE k # l
    BY <1>4, <1>7, <2>1 DEF LocksTracked
  <2>2. CASE k = l
    <3>1. \A i \in DOMAIN new : reqs'[new[i]].lock = l
      BY <1>1, <1>3, <1>7
    <3>2. \A i, j \in DOMAIN new : new[i] = new[j] => i = j
      <4>1. \A i, j \in DOMAIN old : old[i] = old[j] => i = j
        BY DEF LocksTracked
      <4>2. \A i \in DOMAIN old : old[i] # r
        BY <1>7
      <4>3. QED
        BY <1>3, <4>1, <4>2
    <3>3. QED
      BY <1>3, <1>5, <2>2, <3>1, <3>2
  <2>3. QED
    BY <2>1, <2>2
<1>9. ASSUME NEW s \in Requests, reqs'[s].lock # 0
      PROVE  \E i \in DOMAIN locks'[reqs'[s].lock].queue :
                /\ locks'[reqs'[s].lock].queue[i] = s
                /\ reqs'[s].pc = "creating" => i = 1
  <2>1. CASE s = r
    <3>1. Len(old) + 1 \in DOMAIN new
      BY <1>2, <1>3
    <3>2. QED
      BY <1>1, <1>3, <1>5, <2>1, <3>1
  <2>2. CASE s # r
    <3>1. reqs'[s] = reqs[s] /\ reqs[s].lock \in LockIds
      BY <1>1, <1>9, <2>2 DEF TypeOK, Request
    <3>2. PICK i \in DOMAIN locks[reqs[s].lock].queue :
             /\ locks[reqs[s].lock].queue[i] = s
             /\ reqs[s].pc = "creating" => i = 1
      BY <1>9, <3>1 DEF LocksTracked
    <3>3. QED
      BY <1>3, <1>4, <1>5, <3>1, <3>2
  <2>3. QED
    BY <2>1, <2>2
<1>10. \A j, k \in LockIds :
          locks'[j].listed /\ locks'[k].listed /\ locks'[k].sig = locks'[j].sig
             => j = k
  <2>1. \A k \in LockIds :
           locks'[k].listed = locks[k].listed /\ locks'[k].sig = locks[k].sig
    BY <1>4, <1>5
  <2>2. QED
    BY <2>1 DEF LocksTracked, ListedLock
<1>11. QED
  BY <1>6, <1>8, <1>9, <1>10 DEF LocksTracked, ListedLock

\* A newcomer lists a new lock and holds it.
LEMMA LocksCreated ==
    ASSUME TypeOK, LocksTracked, NEW r \in Requests, NEW q2 \in Request,
           NEW l \in LockIds, NEW sig \in Signatures, reqs[r].lock = 0,
           locks[l] = FreeLock, \A k \in LockIds : ~ListedLock(k, sig),
           reqs' = [reqs EXCEPT ![r] = q2],
           locks' = [locks EXCEPT ![l] =
                       [sig |-> sig, queue |-> <<r>>, listed |-> TRUE]],
           q2.lock = l
    PROVE  LocksTracked' /\ locks' \in [LockIds -> Lock]
<1> DEFINE new == [sig |-> sig, queue |-> <<r>>, listed |-> TRUE]
<1>1. /\ reqs'[r] = q2
      /\ \A s \in Requests : s # r => reqs'[s] = reqs[s]
      /\ locks \in [LockIds -> Lock]
  BY DEF TypeOK
<1>2. /\ \A k \in LockIds : k # l => locks'[k] = locks[k]
      /\ locks'[l] = new
  BY <1>1
<1>3. <<r>> \in Seq(Requests) /\ DOMAIN <<r>> = {1} /\ <<r>>[1] = r /\ <<r>> # <<>>
  OBVIOUS
<1>4. new \in Lock
  BY <1>3 DEF Lock
<1>5. locks' \in [LockIds -> Lock]
  BY <1>1, <1>4
<1>6. ASSUME NEW k \in LockIds, NEW i \in DOMAIN locks[k].queue
      PROVE  /\ locks[k].queue[i] \in Requests /\ locks[k].queue[i] # r
             /\ reqs'[locks[k].queue[i]].lock = k
  <2>1. locks[k].queue[i] \in Requests /\ reqs[locks[k].queue[i]].lock = k
    BY QueueType DEF LocksTracked
  <2>2. k # 0
    BY DEF LockIds
  <2>3. QED
    BY <1>1, <2>1, <2>2
<1>7. ASSUME NEW k \in LockIds
      PROVE  /\ locks'[k] # FreeLock => locks'[k].queue # <<>>
             /\ \A i \in DOMAIN locks'[k].queue :
                   reqs'[locks'[k].queue[i]].lock = k
             /\ \A i, j \in DOMAIN locks'[k].queue :
                   locks'[k].queue[i] = locks'[k].queue[j] => i = j
  <2>1. CASE k # l
    BY <1>2, <1>6, <2>1 DEF LocksTracked
  <2>2. CASE k = l
    BY <1>1, <1>2, <1>3, <2>2
  <2>3. QED
    BY <2>1, <2>2
<1>8. ASSUME NEW s \in Requests, reqs'[s].lock # 0
      PROVE  \E i \in DOMAIN locks'[reqs'[s].lock].queue :
                /\ locks'[reqs'[s].lock].queue[i] = s
                /\ reqs'[s].pc = "creating" => i = 1
  <2>1. CASE s = r
    BY <1>1, <1>2, <1>3, <2>1
  <2>2. CASE s # r
    <3>1. reqs'[s] = reqs[s] /\ reqs[s].lock \in LockIds
      BY <1>1, <1>8, <2>2 DEF TypeOK, Request
    <3>2. PICK i \in DOMAIN locks[reqs[s].lock].queue :
             /\ locks[reqs[s].lock].queue[i] = s
             /\ reqs[s].pc = "creating" => i = 1
      BY <1>8, <3>1 DEF LocksTracked
    <3>3. reqs[s].lock # l
      BY <3>2 DEF FreeLock
    <3>4. QED
      BY <1>2, <3>1, <3>2, <3>3
  <2>3. QED
    BY <2>1, <2>2
<1>9. \A j, k \in LockIds :
         locks'[j].listed /\ locks'[k].listed /\ locks'[k].sig = locks'[j].sig
            => j = k
  BY <1>2 DEF LocksTracked, ListedLock
<1>10. QED
  BY <1>5, <1>7, <1>8, <1>9 DEF LocksTracked, ListedLock

-----------------------------------------------------------------------------
(***************************************************************************)
(* Steps of one handler.                                                   *)
(***************************************************************************)

\* Every cached session is sound, and every chat well formed.
LEMMA TablesParts ==
    ASSUME IInv
    PROVE  /\ TypeOK /\ LocksTracked
           /\ \A row \in sessions : row \in Row /\ RowSound(row, chats)
           /\ tokens \in TokenTable
           /\ chats \in Seq(Chat) /\ Len(chats) \in Nat /\ Len(chats) <= MaxChats
           /\ DOMAIN chats = 1 .. Len(chats)
           /\ \A c \in DOMAIN chats :
                 c \in ChatIds /\ chats[c] \in Chat /\ Len(chats[c].log) \in Nat
           /\ Grown(chats, chats)
<1>1. /\ TypeOK /\ LocksTracked
      /\ \A row \in sessions : row \in Row /\ RowSound(row, chats)
      /\ tokens \in TokenTable
      /\ chats \in Seq(Chat) /\ Len(chats) <= MaxChats
  BY DEF IInv, TypeOK
<1>2. Len(chats) \in Nat /\ DOMAIN chats = 1 .. Len(chats)
  BY <1>1
<1>3. ASSUME NEW c \in DOMAIN chats
      PROVE  c \in ChatIds /\ chats[c] \in Chat /\ Len(chats[c].log) \in Nat
  <2>1. c \in ChatIds
    BY <1>1, <1>2, SizesAssumption DEF ChatIds
  <2>2. chats[c] \in Chat
    BY <1>1, <1>2
  <2>3. QED
    BY <2>1, <2>2 DEF Chat
<1>4. Grown(chats, chats)
  BY <1>3 DEF Grown
<1>5. QED
  BY <1>1, <1>2, <1>3, <1>4

\* The state a handler is in is sound.
LEMMA IInvParts ==
    ASSUME IInv, NEW r \in Requests
    PROVE  /\ TypeOK /\ LocksTracked
           /\ reqs[r] \in Request /\ RequestSound(reqs[r], chats)
BY DEF IInv, TypeOK

\* What a step does to the tables and the chats when it respects IInv.
TablesSound ==
    /\ tokens' \in TokenTable
    /\ chats' \in Seq(Chat) /\ Len(chats') <= MaxChats /\ Grown(chats, chats')
    /\ sessions' \subseteq Row
    /\ \A row \in sessions' : row \in sessions \/ RowSound(row, chats')

\* A step that leaves the handler, the tables and the locks sound preserves
\* IInv.
LEMMA Preserve ==
    ASSUME IInv, NEW r \in Requests, NEW q2 \in Request,
           Become(r, q2), RequestSound(q2, chats'), TablesSound,
           locks' \in [LockIds -> Lock], LocksTracked'
    PROVE  IInv'
<1>1. /\ reqs \in [Requests -> Request] /\ reqs' = [reqs EXCEPT ![r] = q2]
  BY DEF IInv, TypeOK, Become
<1>2. reqs' \in [Requests -> Request]
  BY <1>1
<1>3. TypeOK'
  BY <1>2 DEF TypeOK, TablesSound
<1>4. ASSUME NEW row \in sessions'
      PROVE  RowSound(row, chats')
  <2>1. CASE row \in sessions
    <3>1. row \in Row /\ RowSound(row, chats) /\ Grown(chats, chats')
      BY <2>1 DEF IInv, TypeOK, TablesSound
    <3>2. QED
      BY <3>1, RowStaysSound
  <2>2. QED
    BY <2>1 DEF TablesSound
<1>5. ASSUME NEW s \in Requests
      PROVE  RequestSound(reqs'[s], chats')
  <2>1. CASE s = r
    BY <1>1, <2>1
  <2>2. CASE s # r
    <3>1. /\ reqs'[s] = reqs[s] /\ reqs[s] \in Request
          /\ RequestSound(reqs[s], chats) /\ Grown(chats, chats')
      BY <1>1, <2>2 DEF IInv, TablesSound
    <3>2. RequestSound(reqs[s], chats')
      BY <3>1, RequestStaysSound
    <3>3. QED
      BY <3>1, <3>2
  <2>3. QED
    BY <2>1, <2>2
<1>6. (\A row \in sessions : RowSound(row, chats))'
  BY <1>4
<1>7. (\A s \in Requests : RequestSound(reqs[s], chats))'
  BY <1>5
<1>8. QED
  BY <1>3, <1>6, <1>7 DEF IInv

\* A handler outside the critical section stays outside.
LEMMA OutsideStep ==
    ASSUME IInv, NEW r \in Requests, NEW q2 \in Request,
           Become(r, q2), RequestSound(q2, chats'), TablesSound,
           locks' = locks, reqs[r].lock = 0, q2.lock = 0
    PROVE  IInv'
<1>1. TypeOK /\ LocksTracked /\ reqs' = [reqs EXCEPT ![r] = q2]
  BY DEF IInv, Become
<1>2. LocksTracked'
  BY <1>1, LocksKept
<1>3. locks' \in [LockIds -> Lock]
  BY <1>1 DEF TypeOK
<1>4. QED
  BY <1>2, <1>3, Preserve

\* r holds lock l.
Holds(r, l) ==
    /\ l \in LockIds /\ reqs[r].lock = l
    /\ 1 \in DOMAIN locks[l].queue /\ locks[l].queue[1] = r

\* The holder leaves the critical section.
LEMMA LeavingStep ==
    ASSUME IInv, NEW r \in Requests, NEW q2 \in Request,
           Become(r, q2), RequestSound(q2, chats'), TablesSound,
           Holds(r, reqs[r].lock), locks' = Released(reqs[r].lock), q2.lock = 0
    PROVE  IInv'
<1>1. TypeOK /\ LocksTracked /\ reqs' = [reqs EXCEPT ![r] = q2]
  BY DEF IInv, Become
<1>2. LocksTracked' /\ locks' \in [LockIds -> Lock]
  BY <1>1, LocksReleased DEF Holds
<1>3. QED
  BY <1>2, Preserve

\* A creating handler holds its lock.
LEMMA CreatorHolds ==
    ASSUME IInv, NEW r \in Requests, reqs[r].pc = "creating"
    PROVE  Holds(r, reqs[r].lock)
<1>1. reqs[r] \in Request /\ RequestSound(reqs[r], chats) /\ LocksTracked
  BY IInvParts
<1>2. reqs[r].lock # 0 /\ reqs[r].lock \in LockIds
  BY <1>1 DEF RequestSound, Request
<1>3. QED
  BY <1>1, <1>2 DEF LocksTracked, Holds

\* So does the waiter at the head of the queue.
LEMMA HeadHolds ==
    ASSUME IInv, NEW r \in Requests, reqs[r].pc = "waiting",
           Head(locks[reqs[r].lock].queue) = r
    PROVE  Holds(r, reqs[r].lock)
<1>1. /\ reqs[r] \in Request /\ RequestSound(reqs[r], chats)
      /\ TypeOK /\ LocksTracked
  BY IInvParts
<1>2. reqs[r].lock # 0 /\ reqs[r].lock \in LockIds
  BY <1>1 DEF RequestSound, Request
<1>3. PICK i \in DOMAIN locks[reqs[r].lock].queue : TRUE
  BY <1>1, <1>2 DEF LocksTracked
<1>4. /\ locks[reqs[r].lock].queue \in Seq(Requests)
      /\ DOMAIN locks[reqs[r].lock].queue = 1 .. Len(locks[reqs[r].lock].queue)
      /\ Len(locks[reqs[r].lock].queue) \in Nat
  BY <1>1, <1>2, QueueType
<1>5. 1 \in DOMAIN locks[reqs[r].lock].queue
  BY <1>3, <1>4
<1>6. QED
  BY <1>2, <1>4, <1>5 DEF Holds

-----------------------------------------------------------------------------
(***************************************************************************)
(* The states handlers move to, and the rows they save.                    *)
(***************************************************************************)

\* A handler slot without a request is sound whatever the chats are.
LEMMA IdleSound ==
    /\ IdleRequest \in Request /\ IdleRequest.lock = 0
    /\ \A cs : RequestSound(IdleRequest, cs)
<1>1. 0 \in 0 .. MaxAttempts /\ Empty \in Outcomes
  BY SizesAssumption DEF Outcomes
<1>2. IdleRequest \in Request
  BY <1>1 DEF IdleRequest, NewRequest, Request, Locations
<1>3. \A cs : RequestSound(IdleRequest, cs)
  BY DEF IdleRequest, NewRequest, RequestSound
<1>4. QED
  BY <1>2, <1>3 DEF IdleRequest, NewRequest

\* A new request has the type of one.
LEMMA NewRequestType ==
    ASSUME NEW msgs \in Conversations, NEW stream \in BOOLEAN,
           NEW retried \in BOOLEAN
    PROVE  /\ NewRequest(msgs, stream, retried) \in Request
           /\ NewRequest(msgs, stream, retried).msgs = msgs
           /\ NewRequest(msgs, stream, retried).lock = 0
           /\ NewRequest(msgs, stream, retried).chat = 0
<1>1. 0 \in 0 .. MaxAttempts /\ Empty \in Outcomes
  BY SizesAssumption DEF Outcomes
<1>2. QED
  BY <1>1 DEF NewRequest, Request, Locations

\* A request whose conversation is known is a conversation.
LEMMA BusyRequest ==
    ASSUME IInv, NEW r \in Requests, reqs[r].pc # "idle"
    PROVE  /\ reqs[r].msgs \in Conversations /\ reqs[r].msgs # <<>>
           /\ reqs[r].msgs[1] \in Messages
           /\ SigOf(reqs[r]) \in Signatures
           /\ SigOf(reqs[r]).anchor = reqs[r].msgs[1]
           /\ HistLen(reqs[r].msgs) \in Nat
<1>1. reqs[r] \in Request /\ RequestSound(reqs[r], chats)
  BY IInvParts
<1>2. reqs[r].msgs # <<>> /\ reqs[r].msgs \in Conversations
  BY <1>1 DEF RequestSound, Request
<1>3. /\ reqs[r].msgs \in Seq(Messages) /\ Len(reqs[r].msgs) \in Nat
      /\ Len(reqs[r].msgs) >= 1
  BY <1>2, ConversationShape
<1>4. reqs[r].msgs[1] \in Messages
  BY <1>3
<1>5. QED
  BY <1>2, <1>4, SignatureOfConversation DEF SigOf

\* The prompt goes to chat c after message p, or the token is gone.
LEMMA Resumed ==
    ASSUME NEW r \in Requests, NEW q \in Request, q.msgs \in Conversations,
           NEW pool \in TokenTable, NEW t \in TokenIds,
           NEW cs, NEW c \in ChatIds, NEW p \in Nat,
           c \in DOMAIN cs, p <= Len(cs[c].log),
           cs[c].token = t, cs[c].opener = q.msgs[1],
           Resume(r, q, t, c, p, pool)
    PROVE  \E q2 \in Request :
              Become(r, q2) /\ q2.lock = 0 /\ RequestSound(q2, cs)
<1>1. CASE pool[t] = NoToken
  BY <1>1, IdleSound DEF Resume, Answer
<1>2. CASE pool[t] # NoToken
  <2> DEFINE q2 == [q EXCEPT !.pc = "sending", !.lock = 0, !.token = t,
                             !.account = pool[t].account, !.chat = c,
                             !.parent = p, !.full = (p = 0), !.attempt = 1]
  <2>1. Become(r, q2)
    BY <1>2 DEF Resume
  <2>2. pool[t].account \in Accounts /\ 1 \in 0 .. MaxAttempts
    BY <1>2, PresentTokenRow, SizesAssumption
  <2>3. q2 \in Request
    <3> DEFINE a == pool[t].account
               f == (p = 0)
    <3>1. /\ q \in Request /\ t \in TokenIds /\ c \in ChatIds /\ p \in Nat
          /\ a \in Accounts /\ 1 \in 0 .. MaxAttempts /\ f \in BOOLEAN
      BY <2>2
    <3> HIDE DEF a, f
    <3>2. [q EXCEPT !.pc = "sending", !.lock = 0, !.token = t, !.account = a,
                    !.chat = c, !.parent = p, !.full = f, !.attempt = 1]
              \in Request
      BY <3>1 DEF Request, Locations
    <3>3. QED
      BY <3>2 DEF a, f
  <2>4. /\ q2.pc = "sending" /\ q2.lock = 0 /\ q2.token = t
        /\ q2.account = pool[t].account /\ q2.chat = c /\ q2.parent = p
        /\ q2.msgs = q.msgs
    BY DEF Request
  <2>5. c # 0 /\ q.msgs # <<>>
    BY ConversationShape DEF ChatIds
  <2>6. RequestSound(q2, cs)
    BY <2>2, <2>4, <2>5 DEF RequestSound
  <2>7. QED
    BY <2>1, <2>3, <2>4, <2>6
<1>3. QED
  BY <1>1, <1>2

\* Saving a row adds that row and no other.
LEMMA SavedRows ==
    ASSUME NEW rows, NEW new
    PROVE  SaveSession(rows, new) \subseteq rows \cup {new}
BY DEF SaveSession, PruneSessions

\* A row has the type of one.
LEMMA RowType ==
    ASSUME NEW sig \in Signatures, NEW t \in TokenIds, NEW c \in ChatIds,
           NEW p \in Nat, NEW n \in Nat
    PROVE  /\ SessionRow(sig, t, c, p, n) \in Row
           /\ SessionRow(sig, t, c, p, n).chat = c
           /\ SessionRow(sig, t, c, p, n).parent = p
           /\ SessionRow(sig, t, c, p, n).token = t
           /\ SessionRow(sig, t, c, p, n).sig = sig
BY DEF SessionRow, Row

\* The tables stay sound when no row is added.
LEMMA FewerRows ==
    ASSUME IInv, tokens' \in TokenTable, chats' = chats,
           sessions' \subseteq sessions
    PROVE  TablesSound
BY TablesParts DEF TablesSound, TypeOK

-----------------------------------------------------------------------------
(***************************************************************************)
(* handle_chat up to its first suspension.                                 *)
(***************************************************************************)

\* A request that has just entered handle_chat: nothing is decided yet.
Fresh(q) ==
    q \in Request /\ q.msgs \in Conversations /\ q.lock = 0 /\ q.chat = 0

\* A fresh request is for a conversation, whose signature names its opening.
LEMMA FreshRequest ==
    ASSUME NEW q, Fresh(q)
    PROVE  /\ q.msgs # <<>> /\ SigOf(q) \in Signatures
           /\ SigOf(q).anchor = q.msgs[1]
BY ConversationShape, SignatureOfConversation DEF Fresh, SigOf

\* The request picks a token and creates a chat.
LEMMA CreatingState ==
    ASSUME NEW r \in Requests, NEW q \in Request, q.msgs \in Conversations,
           q.chat = 0, NEW pool \in TokenTable, NEW t \in ActiveTokens(pool), NEW l \in LockIds,
           NEW cs, StartCreating(r, q, l, t, pool)
    PROVE  \E q2 \in Request :
              /\ Become(r, q2) /\ q2.lock = l /\ q2.pc = "creating"
              /\ RequestSound(q2, cs)
<1> DEFINE q2 == [q EXCEPT !.pc = "creating", !.lock = l, !.token = t,
                           !.account = pool[t].account]
<1>1. t \in TokenIds /\ pool[t].account \in Accounts
  BY ActiveTokenRow
<1>2. q2 \in Request
  BY <1>1 DEF Request, Locations
<1>3. /\ q2.pc = "creating" /\ q2.lock = l /\ q2.token = t
      /\ q2.account = pool[t].account /\ q2.chat = 0 /\ q2.msgs = q.msgs
  BY DEF Request
<1>4. l # 0
  BY DEF LockIds
<1>5. RequestSound(q2, cs)
  BY <1>1, <1>3, <1>4, ConversationShape DEF RequestSound
<1>6. Become(r, q2)
  BY DEF StartCreating
<1>7. QED
  BY <1>2, <1>3, <1>5, <1>6

\* A cached session: on to the chat, or to a new one under another token.
LEMMA HitPreserves ==
    ASSUME IInv, NEW r \in Requests, reqs[r].lock = 0,
           NEW q, Fresh(q), NEW pool \in TokenTable,
           NEW row \in sessions, row.sig = SigOf(q),
           Hit(r, q, row, pool), TablesSound, chats' = chats, locks' = locks
    PROVE  IInv'
<1>1. CASE \E t \in ActiveTokens(pool) :
             Become(r, [q EXCEPT !.pc = "rotating", !.rotated = TRUE,
                                 !.token = t, !.account = pool[t].account,
                                 !.full = TRUE])
  <2>1. PICK t \in ActiveTokens(pool) :
           Become(r, [q EXCEPT !.pc = "rotating", !.rotated = TRUE,
                               !.token = t, !.account = pool[t].account,
                               !.full = TRUE])
    BY <1>1
  <2> DEFINE q2 == [q EXCEPT !.pc = "rotating", !.rotated = TRUE, !.token = t,
                             !.account = pool[t].account, !.full = TRUE]
  <2>2. t \in TokenIds /\ pool[t].account \in Accounts /\ q \in Request
    BY ActiveTokenRow DEF Fresh
  <2>3. q2 \in Request
    BY <2>2 DEF Request, Locations
  <2>4. /\ q2.pc = "rotating" /\ q2.lock = 0 /\ q2.token = t
        /\ q2.account = pool[t].account /\ q2.chat = 0 /\ q2.msgs = q.msgs
    BY <2>2 DEF Request, Fresh
  <2>5. RequestSound(q2, chats')
    BY <2>2, <2>4, FreshRequest DEF RequestSound
  <2>6. QED
    BY <2>1, <2>3, <2>4, <2>5, OutsideStep
<1>2. CASE Resume(r, q, row.token, row.chat, row.parent, pool)
  <2>1. row \in Row /\ RowSound(row, chats)
    BY TablesParts
  <2>2. /\ row.token \in TokenIds /\ row.chat \in ChatIds /\ row.parent \in Nat
        /\ row.chat \in DOMAIN chats /\ row.parent <= Len(chats[row.chat].log)
        /\ chats[row.chat].token = row.token
        /\ chats[row.chat].opener = q.msgs[1]
    BY <2>1, FreshRequest DEF Row, RowSound
  <2>3. PICK q2 \in Request :
           Become(r, q2) /\ q2.lock = 0 /\ RequestSound(q2, chats')
    BY <1>2, <2>2, Resumed DEF Fresh
  <2>4. QED
    BY <2>3, OutsideStep
<1>3. QED
  BY <1>1, <1>2 DEF Hit

\* No cached session: queue for the lock, or create it and the chat.
LEMMA MissPreserves ==
    ASSUME IInv, NEW r \in Requests, reqs[r].lock = 0,
           NEW q, Fresh(q), NEW pool \in TokenTable,
           Miss(r, q, pool), TablesSound, chats' = chats
    PROVE  IInv'
<1>1. TypeOK /\ LocksTracked /\ q \in Request /\ q.msgs # <<>>
  BY IInvParts, FreshRequest DEF Fresh
<1>2. ASSUME NEW l \in LockIds, ListedLock(l, SigOf(q)),
             locks' = [locks EXCEPT ![l].queue = Append(@, r)],
             Become(r, [q EXCEPT !.pc = "waiting", !.lock = l])
      PROVE  IInv'
  <2> DEFINE q2 == [q EXCEPT !.pc = "waiting", !.lock = l]
  <2>1. q2 \in Request
    BY <1>1 DEF Request, Locations
  <2>2. /\ q2.pc = "waiting" /\ q2.lock = l /\ q2.chat = 0
        /\ q2.msgs = q.msgs /\ l # 0
    BY <1>1 DEF Request, Fresh, LockIds
  <2>3. RequestSound(q2, chats')
    BY <1>1, <2>2 DEF RequestSound
  <2>4. LocksTracked' /\ locks' \in [LockIds -> Lock]
    BY <1>1, <1>2, <2>1, <2>2, LocksJoined DEF Become, ListedLock
  <2>5. QED
    BY <1>2, <2>1, <2>3, <2>4, Preserve
<1>3. ASSUME Answer(r), locks' = locks
      PROVE  IInv'
  BY <1>3, IdleSound, OutsideStep DEF Answer
<1>4. ASSUME NEW l \in LockIds, NEW t \in ActiveTokens(pool), UnusedLock(l),
             \A k \in LockIds : ~ListedLock(k, SigOf(q)),
             locks' = [locks EXCEPT ![l] = [sig |-> SigOf(q), queue |-> <<r>>,
                                            listed |-> TRUE]],
             StartCreating(r, q, l, t, pool)
      PROVE  IInv'
  <2>1. PICK q2 \in Request :
           Become(r, q2) /\ q2.lock = l /\ RequestSound(q2, chats')
    BY <1>4, CreatingState DEF Fresh
  <2>2. LocksTracked' /\ locks' \in [LockIds -> Lock]
    BY <1>1, <1>4, <2>1, FreshRequest, LocksCreated DEF Become, UnusedLock
  <2>3. QED
    BY <2>1, <2>2, Preserve
<1>5. QED
  BY <1>2, <1>3, <1>4 DEF Miss

\* The whole first segment.  pool and rows are what the caller leaves.
LEMMA EnterPreserves ==
    ASSUME IInv, NEW r \in Requests, reqs[r].lock = 0,
           NEW msgs \in Conversations, NEW stream \in BOOLEAN,
           NEW retried \in BOOLEAN, NEW pool \in TokenTable,
           NEW rows, rows \subseteq sessions,
           Enter(r, NewRequest(msgs, stream, retried), pool, rows)
    PROVE  IInv'
<1> DEFINE q    == NewRequest(msgs, stream, retried)
           hits == FindSession(rows, SigOf(q), HistLen(q.msgs))
<1>1. Fresh(q)
  BY NewRequestType DEF Fresh
<1>2. tokens' = pool /\ sessions' = rows /\ chats' = chats
  BY DEF Enter
<1>3. TablesSound
  BY <1>2, FewerRows
<1>4. CASE Answer(r) /\ UNCHANGED locks
  BY <1>3, <1>4, IdleSound, OutsideStep DEF Answer
<1>5. CASE UNCHANGED locks /\ \E row \in hits : Hit(r, q, row, pool)
  <2>1. PICK row \in hits : Hit(r, q, row, pool)
    BY <1>5
  <2>2. row \in sessions /\ row.sig = SigOf(q)
    BY DEF FindSession
  <2>3. QED
    BY <1>1, <1>2, <1>3, <1>5, <2>1, <2>2, HitPreserves
<1>6. CASE Miss(r, q, pool)
  BY <1>1, <1>2, <1>3, <1>6, MissPreserves
<1>7. QED
  BY <1>4, <1>5, <1>6 DEF Enter

LEMMA ArrivePreserves ==
    ASSUME IInv, NEW r \in Requests, NEW msgs \in Conversations,
           NEW stream \in BOOLEAN, Arrive(r, msgs, stream)
    PROVE  IInv'
<1>1. reqs[r].pc = "idle" /\ RequestSound(reqs[r], chats)
  BY IInvParts DEF Arrive
<1>2. reqs[r].lock = 0
  BY <1>1 DEF RequestSound
<1>3. tokens \in TokenTable
  BY TablesParts
<1>4. QED
  BY <1>2, <1>3, EnterPreserves DEF Arrive

-----------------------------------------------------------------------------
(***************************************************************************)
(* The critical section and the creation of chats.                         *)
(***************************************************************************)

LEMMA EnterLockPreserves ==
    ASSUME IInv, NEW r \in Requests, EnterLock(r)
    PROVE  IInv'
<1> DEFINE q    == reqs[r]
           hits == FindSession(sessions, SigOf(q), HistLen(q.msgs))
<1>1. /\ q \in Request /\ q.pc = "waiting" /\ RequestSound(q, chats)
      /\ q.msgs \in Conversations /\ SigOf(q).anchor = q.msgs[1]
      /\ tokens \in TokenTable /\ TypeOK /\ LocksTracked
  BY IInvParts, TablesParts, BusyRequest DEF EnterLock
<1>2. Holds(r, q.lock)
  BY <1>1, HeadHolds DEF EnterLock
<1>3. TablesSound /\ chats' = chats
  BY <1>1, FewerRows DEF EnterLock
<1>4. ASSUME NEW row \in hits, locks' = Released(q.lock),
             Resume(r, q, row.token, row.chat, row.parent, tokens)
      PROVE  IInv'
  <2>1. row \in Row /\ RowSound(row, chats) /\ row.sig = SigOf(q)
    BY TablesParts DEF FindSession
  <2>2. /\ row.token \in TokenIds /\ row.chat \in ChatIds /\ row.parent \in Nat
        /\ row.chat \in DOMAIN chats /\ row.parent <= Len(chats[row.chat].log)
        /\ chats[row.chat].token = row.token
        /\ chats[row.chat].opener = q.msgs[1]
    BY <1>1, <2>1 DEF Row, RowSound
  <2>3. PICK q2 \in Request :
           Become(r, q2) /\ q2.lock = 0 /\ RequestSound(q2, chats')
    BY <1>1, <1>3, <1>4, <2>2, Resumed
  <2>4. QED
    BY <1>2, <1>3, <1>4, <2>3, LeavingStep
<1>5. ASSUME locks' = Released(q.lock), Answer(r)
      PROVE  IInv'
  BY <1>2, <1>3, <1>5, IdleSound, LeavingStep DEF Answer
<1>6. ASSUME NEW t \in ActiveTokens(tokens), locks' = locks,
             StartCreating(r, q, q.lock, t, tokens)
      PROVE  IInv'
  <2>1. q.chat = 0
    BY <1>1 DEF RequestSound
  <2>2. PICK q2 \in Request :
           /\ Become(r, q2) /\ q2.lock = q.lock /\ q2.pc = "creating"
           /\ RequestSound(q2, chats')
    <3>1. /\ q \in Request /\ q.msgs \in Conversations /\ tokens \in TokenTable
          /\ q.lock \in LockIds
      BY <1>1, <1>2 DEF Holds
    <3> DEFINE lock == q.lock
    <3>2. StartCreating(r, q, lock, t, tokens) /\ lock \in LockIds
      BY <1>6, <3>1
    <3> HIDE DEF q, lock
    <3>3. PICK q2 \in Request :
             /\ Become(r, q2) /\ q2.lock = lock /\ q2.pc = "creating"
             /\ RequestSound(q2, chats')
      BY <3>1, <3>2, <2>1, <1>6, CreatingState, SMTT(30)
    <3>4. QED
      BY <3>3 DEF lock
  <2>3. LocksTracked' /\ locks' \in [LockIds -> Lock]
    BY <1>1, <1>2, <1>6, <2>2, LocksKept DEF Become, Holds, TypeOK
  <2>4. QED
    BY <1>3, <2>2, <2>3, Preserve
<1>7. QED
  BY <1>4, <1>5, <1>6 DEF EnterLock

\* The chat a handler gets: empty, and its own.
LEMMA CreatedChat ==
    ASSUME IInv, NEW r \in Requests, reqs[r].pc \notin {"idle", "waiting"},
           Len(chats) + 1 \in ChatIds,
           chats' = Append(chats, NewChat(reqs[r]))
    PROVE  /\ chats' \in Seq(Chat) /\ Len(chats') <= MaxChats
           /\ Grown(chats, chats')
           /\ Len(chats) + 1 \in DOMAIN chats'
           /\ chats'[Len(chats) + 1].token = reqs[r].token
           /\ chats'[Len(chats) + 1].opener = reqs[r].msgs[1]
           /\ 0 <= Len(chats'[Len(chats) + 1].log)
<1> DEFINE q == reqs[r]
<1>1. /\ q \in Request /\ RequestSound(q, chats) /\ q.msgs[1] \in Messages
      /\ chats \in Seq(Chat) /\ Len(chats) \in Nat
  BY IInvParts, TablesParts, BusyRequest
<1>2. q.token \in TokenIds /\ q.account \in Accounts
  BY <1>1 DEF RequestSound
<1>3. NewChat(q) \in Chat
  BY <1>1, <1>2 DEF NewChat, Chat
<1>4. /\ chats' \in Seq(Chat) /\ Len(chats') = Len(chats) + 1
      /\ chats'[Len(chats) + 1] = NewChat(q)
      /\ Len(chats) + 1 \in DOMAIN chats' /\ Grown(chats, chats')
  BY <1>1, <1>3, AppendedChat
<1>5. Len(chats') <= MaxChats
  BY <1>1, <1>4, SizesAssumption DEF ChatIds
<1>6. /\ NewChat(q).token = q.token /\ NewChat(q).opener = q.msgs[1]
      /\ NewChat(q).log = <<>> /\ Len(<<>>) = 0
  BY DEF NewChat
<1>7. QED
  BY <1>4, <1>5, <1>6

LEMMA CreateDonePreserves ==
    ASSUME IInv, NEW r \in Requests, CreateDone(r)
    PROVE  IInv'
<1> DEFINE q   == reqs[r]
           c   == Len(chats) + 1
           new == SessionRow(SigOf(q), q.token, c, 0, HistLen(q.msgs))
<1>1. /\ q \in Request /\ q.pc = "creating" /\ RequestSound(q, chats)
      /\ q.msgs \in Conversations /\ SigOf(q) \in Signatures
      /\ SigOf(q).anchor = q.msgs[1] /\ HistLen(q.msgs) \in Nat
      /\ tokens \in TokenTable /\ tokens' = tokens /\ sessions \subseteq Row
  BY IInvParts, TablesParts, BusyRequest DEF CreateDone
<1>2. /\ q.token \in TokenIds /\ c \in ChatIds
      /\ locks' = Released(q.lock) /\ Resume(r, q, q.token, c, 0, tokens)
      /\ sessions' = SaveSession(sessions, new)
  BY <1>1 DEF RequestSound, CreateDone
<1>3. /\ chats' \in Seq(Chat) /\ Len(chats') <= MaxChats
      /\ Grown(chats, chats') /\ c \in DOMAIN chats'
      /\ chats'[c].token = q.token /\ chats'[c].opener = q.msgs[1]
      /\ 0 <= Len(chats'[c].log)
  BY <1>1, CreatedChat DEF CreateDone
<1>4. new \in Row /\ RowSound(new, chats')
  BY <1>1, <1>2, <1>3, RowType DEF RowSound
<1>5. sessions' \subseteq sessions \cup {new}
  BY <1>2, SavedRows
<1>6. TablesSound
  BY <1>1, <1>3, <1>4, <1>5 DEF TablesSound
<1>7. PICK q2 \in Request :
         Become(r, q2) /\ q2.lock = 0 /\ RequestSound(q2, chats')
  BY <1>1, <1>2, <1>3, Resumed
<1>8. Holds(r, q.lock)
  BY <1>1, CreatorHolds
<1>9. QED
  BY <1>2, <1>6, <1>7, <1>8, LeavingStep

LEMMA CreateFailsPreserves ==
    ASSUME IInv, NEW r \in Requests, CreateFails(r)
    PROVE  IInv'
<1>1. TablesSound
  BY TablesParts, FewerRows DEF CreateFails
<1>2. Holds(r, reqs[r].lock) /\ locks' = Released(reqs[r].lock) /\ Answer(r)
  BY CreatorHolds DEF CreateFails
<1>3. QED
  BY <1>1, <1>2, IdleSound, LeavingStep DEF Answer

\* A request that has a chat of its own, or is about to get one without the
\* lock, is outside the critical section.
LEMMA OutsideLock ==
    ASSUME IInv, NEW r \in Requests,
           reqs[r].pc \in {"rotating", "sending", "replying", "recreating"}
    PROVE  reqs[r].lock = 0
BY IInvParts DEF RequestSound

LEMMA RotateDonePreserves ==
    ASSUME IInv, NEW r \in Requests, RotateDone(r)
    PROVE  IInv'
<1> DEFINE q  == reqs[r]
           c  == Len(chats) + 1
           q2 == [q EXCEPT !.pc = "sending", !.chat = c, !.parent = 0,
                           !.attempt = 1]
<1>1. /\ q \in Request /\ q.pc = "rotating" /\ RequestSound(q, chats)
      /\ c \in ChatIds /\ q.lock = 0 /\ q.msgs # <<>>
      /\ tokens \in TokenTable /\ tokens' = tokens
      /\ sessions \subseteq Row /\ sessions' = sessions /\ locks' = locks
  BY IInvParts, TablesParts, BusyRequest, OutsideLock DEF RotateDone
<1>2. /\ chats' \in Seq(Chat) /\ Len(chats') <= MaxChats
      /\ Grown(chats, chats') /\ c \in DOMAIN chats'
      /\ chats'[c].token = q.token /\ chats'[c].opener = q.msgs[1]
      /\ 0 <= Len(chats'[c].log)
  BY <1>1, CreatedChat DEF RotateDone
<1>3. TablesSound
  BY <1>1, <1>2 DEF TablesSound
<1>4. 1 \in 0 .. MaxAttempts /\ c # 0
  BY <1>1, SizesAssumption DEF ChatIds
<1>5. q2 \in Request
  <2>1. q \in Request /\ c \in ChatIds \cup {0}
    BY <1>1
  <2> HIDE DEF q, c
  <2>2. QED
    BY <2>1, <1>4 DEF Request, Locations
<1>6. /\ q2.pc = "sending" /\ q2.chat = c /\ q2.lock = 0 /\ q2.parent = 0
      /\ q2.token = q.token /\ q2.account = q.account /\ q2.msgs = q.msgs
  BY <1>1 DEF Request
<1>7. RequestSound(q2, chats')
  BY <1>1, <1>2, <1>4, <1>6 DEF RequestSound
<1>8. Become(r, q2)
  BY DEF RotateDone
<1>9. QED
  BY <1>1, <1>3, <1>5, <1>6, <1>7, <1>8, OutsideStep

-----------------------------------------------------------------------------
(***************************************************************************)
(* The prompt, the retry and the end of a request.                         *)
(***************************************************************************)

\* What a message tells the model is a list of messages.
LEMMA ToldType ==
    ASSUME IInv, NEW r \in Requests, reqs[r].pc = "sending"
    PROVE  Told(reqs[r]) \in Seq(Messages)
<1> DEFINE q   == reqs[r]
           log == chats[q.chat].log
<1>1. /\ q \in Request /\ RequestSound(q, chats) /\ q.msgs \in Conversations
  BY IInvParts, BusyRequest
<1>2. q.chat \in DOMAIN chats
  BY <1>1 DEF RequestSound
<1>3. chats[q.chat] \in Chat
  BY <1>2, TablesParts
<1>4. log \in Seq(Message)
  BY <1>3 DEF Chat
<1>5. Thread(log, q.parent) \in Seq(Messages)
  <2>1. CASE q.parent \in DOMAIN log
    <3>1. log[q.parent] \in Message
      BY <1>4, <2>1
    <3>2. QED
      BY <2>1, <3>1 DEF Thread, Message
  <2>2. CASE q.parent \notin DOMAIN log
    BY <2>2 DEF Thread
  <2>3. QED
    BY <2>1, <2>2
<1>6. q.msgs \in Seq(Messages) /\ Trailing(q.msgs) \in Seq(Messages)
  BY <1>1, ConversationShape, TrailingType
<1>7. QED
  BY <1>5, <1>6 DEF Told

\* The two messages of a turn reach the next parent.
LEMMA TwoMore ==
    ASSUME NEW p \in Nat, NEW m \in Nat, NEW n \in Nat, p <= m, n = 2
    PROVE  next_parent(p) <= m + n
BY DEF next_parent

\* The prompt is accepted with its entries, two of them unless the turn is
\* empty.
LEMMA PostedPreserves ==
    ASSUME IInv, NEW r \in Requests, NEW entries \in Seq(Message),
           NEW outcome \in Outcomes,
           outcome # Empty => Len(entries) = 2,
           Posted(r, entries, outcome)
    PROVE  IInv'
<1> DEFINE q   == reqs[r]
           log == chats[q.chat].log
           n   == Len(log) + Len(entries)
           q2  == [q EXCEPT !.pc = "replying", !.outcome = outcome, !.mid = n]
<1>1. /\ q \in Request /\ q.pc = "sending" /\ RequestSound(q, chats)
      /\ q.lock = 0 /\ q.msgs # <<>>
      /\ tokens \in TokenTable /\ tokens' = tokens
      /\ sessions \subseteq Row /\ sessions' = sessions /\ locks' = locks
      /\ chats \in Seq(Chat) /\ Len(chats) <= MaxChats
  BY IInvParts, TablesParts, BusyRequest, OutsideLock DEF Posted
<1>2. /\ q.chat \in DOMAIN chats /\ q.chat # 0 /\ q.parent <= Len(log)
      /\ chats[q.chat].token = q.token /\ chats[q.chat].opener = q.msgs[1]
      /\ q.token \in TokenIds /\ q.account \in Accounts /\ q.parent \in Nat
  BY <1>1 DEF RequestSound, Request
<1>3. chats' = [chats EXCEPT ![q.chat].log = chats[q.chat].log \o entries]
  BY DEF Posted
<1>4. /\ chats' \in Seq(Chat) /\ Len(chats') = Len(chats)
      /\ DOMAIN chats' = DOMAIN chats
      /\ chats'[q.chat].token = chats[q.chat].token
      /\ chats'[q.chat].opener = chats[q.chat].opener
      /\ Len(log) \in Nat /\ Len(entries) \in Nat
      /\ Len(chats'[q.chat].log) = n
      /\ Grown(chats, chats')
  BY <1>1, <1>2, <1>3, ExtendedChat
<1>5. TablesSound
  BY <1>1, <1>4 DEF TablesSound
<1>6. n \in Nat /\ q.parent <= n
  BY <1>2, <1>4
<1>7. ASSUME outcome # Empty
      PROVE  next_parent(q.parent) <= n
  <2>1. Len(entries) = 2
    BY <1>7
  <2>2. QED
    BY <1>2, <1>4, <2>1, TwoMore
<1>8. Become(r, q2)
  BY DEF Posted
<1> HIDE DEF n
<1>9. q2 \in Request
  BY <1>1, <1>6 DEF Request, Locations
<1>10. /\ q2.pc = "replying" /\ q2.lock = 0 /\ q2.chat = q.chat
       /\ q2.parent = q.parent /\ q2.token = q.token
       /\ q2.account = q.account /\ q2.msgs = q.msgs
  BY <1>1 DEF Request
<1>11. q2.outcome = outcome
  BY <1>1 DEF Request
<1>12. RequestSound(q2, chats')
  BY <1>1, <1>2, <1>4, <1>6, <1>7, <1>10, <1>11 DEF RequestSound
<1>13. QED
  BY <1>1, <1>5, <1>8, <1>9, <1>10, <1>12, OutsideStep

LEMMA PostAnsweredPreserves ==
    ASSUME IInv, NEW r \in Requests, NEW outcome \in Replies \cup {Thinking},
           PostAnswered(r, outcome)
    PROVE  IInv'
<1> DEFINE q       == reqs[r]
           entries == <<Question(q), Reply(q, outcome)>>
<1>1. Posted(r, entries, outcome) /\ q.pc = "sending"
  BY DEF PostAnswered, Posted
<1>2. Told(q) \in Seq(Messages)
  BY <1>1, ToldType
<1>3. Content(outcome) \in Messages
  BY DEF Content, Messages, Assistant
<1>4. Question(q) \in Message /\ Reply(q, outcome) \in Message
  BY <1>2, <1>3 DEF Question, Reply, Message
<1>5. entries \in Seq(Message) /\ Len(entries) = 2 /\ outcome \in Outcomes
  BY <1>4 DEF Outcomes
<1> HIDE DEF entries
<1>6. QED
  BY <1>1, <1>5, PostedPreserves

LEMMA PostEmptyPreserves ==
    ASSUME IInv, NEW r \in Requests, PostEmpty(r)
    PROVE  IInv'
<1>1. Told(reqs[r]) \in Seq(Messages)
  BY ToldType DEF PostEmpty, Posted
<1>2. <<Question(reqs[r])>> \in Seq(Message) /\ Empty \in Outcomes
  BY <1>1 DEF Question, Message, Outcomes
<1>3. QED
  BY <1>2, PostedPreserves DEF PostEmpty

LEMMA RetryEmptyPreserves ==
    ASSUME IInv, NEW r \in Requests, RetryEmpty(r)
    PROVE  IInv'
<1> DEFINE q  == reqs[r]
           q2 == [q EXCEPT !.pc = "recreating"]
<1>1. /\ q \in Request /\ q.pc = "replying" /\ RequestSound(q, chats)
      /\ q.lock = 0 /\ q.attempt < MaxAttempts
      /\ tokens \in TokenTable /\ tokens' = tokens /\ chats' = chats
      /\ sessions' = sessions /\ locks' = locks
  BY IInvParts, TablesParts, OutsideLock DEF RetryEmpty
<1>2. TablesSound
  BY <1>1, FewerRows
<1>3. q2 \in Request
  BY <1>1 DEF Request, Locations
<1>4. /\ q2.pc = "recreating" /\ q2.lock = 0 /\ q2.chat = q.chat
      /\ q2.parent = q.parent /\ q2.token = q.token /\ q2.attempt = q.attempt
      /\ q2.account = q.account /\ q2.msgs = q.msgs
  BY <1>1 DEF Request
<1>5. RequestSound(q2, chats')
  BY <1>1, <1>4 DEF RequestSound
<1>6. Become(r, q2)
  BY DEF RetryEmpty
<1>7. QED
  BY <1>1, <1>2, <1>3, <1>4, <1>5, <1>6, OutsideStep

LEMMA RecreateDonePreserves ==
    ASSUME IInv, NEW r \in Requests, RecreateDone(r)
    PROVE  IInv'
<1> DEFINE q  == reqs[r]
           c  == Len(chats) + 1
           q2 == [q EXCEPT !.pc = "sending", !.chat = c, !.parent = 0,
                           !.attempt = @ + 1, !.mid = 0]
<1>1. /\ q \in Request /\ q.pc = "recreating" /\ RequestSound(q, chats)
      /\ c \in ChatIds /\ q.lock = 0 /\ q.msgs # <<>>
      /\ tokens \in TokenTable /\ tokens' = tokens
      /\ sessions \subseteq Row /\ sessions' = sessions /\ locks' = locks
  BY IInvParts, TablesParts, BusyRequest, OutsideLock DEF RecreateDone
<1>2. /\ chats' \in Seq(Chat) /\ Len(chats') <= MaxChats
      /\ Grown(chats, chats') /\ c \in DOMAIN chats'
      /\ chats'[c].token = q.token /\ chats'[c].opener = q.msgs[1]
      /\ 0 <= Len(chats'[c].log)
  BY <1>1, CreatedChat DEF RecreateDone
<1>3. TablesSound
  BY <1>1, <1>2 DEF TablesSound
<1>4. q.attempt + 1 \in 0 .. MaxAttempts /\ c # 0
  BY <1>1, SizesAssumption DEF ChatIds, RequestSound, Request
<1>5. q2 \in Request
  <2>1. q \in Request /\ c \in ChatIds \cup {0}
    BY <1>1
  <2> HIDE DEF q, c
  <2>2. QED
    BY <2>1, <1>4 DEF Request, Locations
<1>6. /\ q2.pc = "sending" /\ q2.chat = c /\ q2.lock = 0 /\ q2.parent = 0
      /\ q2.token = q.token /\ q2.account = q.account /\ q2.msgs = q.msgs
  BY <1>1 DEF Request
<1>7. RequestSound(q2, chats')
  BY <1>1, <1>2, <1>4, <1>6 DEF RequestSound
<1>8. Become(r, q2)
  BY DEF RecreateDone
<1>9. QED
  BY <1>1, <1>3, <1>5, <1>6, <1>7, <1>8, OutsideStep

\* The rows of a kept turn point behind a reply that exists.
LEMMA AdvancedSound ==
    ASSUME IInv, NEW r \in Requests, reqs[r].pc = "replying", KeepsTurn(reqs[r])
    PROVE  \A row \in Advanced(reqs[r]) :
              row \in sessions \/ (row \in Row /\ RowSound(row, chats))
<1> DEFINE q    == reqs[r]
           x    == Content(q.outcome)
           next == Append(q.msgs, x)
           p    == next_parent(q.parent)
           own  == SessionRow(SigOf(q), q.token, q.chat, p, HistLen(q.msgs))
           then == SessionRow(Signature(next), q.token, q.chat, p, HistLen(next))
<1>1. /\ q \in Request /\ RequestSound(q, chats) /\ q.msgs \in Conversations
      /\ SigOf(q) \in Signatures /\ SigOf(q).anchor = q.msgs[1]
      /\ HistLen(q.msgs) \in Nat
  BY IInvParts, BusyRequest
<1>2. x \in Assistant /\ q.outcome # Empty
  BY OutcomesAssumption DEF KeepsTurn, Content, Assistant
<1>3. /\ Signature(next) \in Signatures /\ Signature(next).anchor = q.msgs[1]
      /\ HistLen(next) \in Nat
  BY <1>1, <1>2, SignatureOfReplied
<1>4. /\ q.token \in TokenIds /\ q.chat \in ChatIds /\ q.chat \in DOMAIN chats
      /\ chats[q.chat].token = q.token /\ chats[q.chat].opener = q.msgs[1]
      /\ p <= Len(chats[q.chat].log)
  BY <1>1, <1>2 DEF RequestSound, Request
<1>5. p \in Nat
  BY <1>1 DEF Request, next_parent
<1>6. own \in Row /\ RowSound(own, chats)
  BY <1>1, <1>4, <1>5, RowType DEF RowSound
<1>7. then \in Row /\ RowSound(then, chats)
  BY <1>3, <1>4, <1>5, RowType DEF RowSound
<1>8. Advanced(q) \subseteq SaveSession(sessions, own) \cup {then}
  BY SavedRows DEF Advanced
<1>9. SaveSession(sessions, own) \subseteq sessions \cup {own}
  BY SavedRows
<1>10. QED
  BY <1>6, <1>7, <1>8, <1>9

LEMMA FinishPreserves ==
    ASSUME IInv, NEW r \in Requests, Finish(r)
    PROVE  IInv'
<1> DEFINE q == reqs[r]
<1>1. /\ q.pc = "replying" /\ q \in Request /\ RequestSound(q, chats)
      /\ q.lock = 0 /\ tokens \in TokenTable /\ sessions \subseteq Row
      /\ tokens' = MarkActive(tokens, q.token) /\ Answer(r)
      /\ chats' = chats /\ locks' = locks
      /\ chats \in Seq(Chat) /\ Len(chats) <= MaxChats /\ Grown(chats, chats)
  BY IInvParts, TablesParts, OutsideLock DEF Finish
<1>2. tokens' \in TokenTable
  <2>1. q.token \in TokenIds /\ q.account \in Accounts
    BY <1>1 DEF RequestSound
  <2>2. QED
    BY <1>1, <2>1, TokenTableClosed
<1>3. TablesSound
  <2>1. CASE KeepsTurn(q)
    <3>1. sessions' = Advanced(q)
      BY <2>1 DEF Finish
    <3>2. \A row \in sessions' :
             row \in sessions \/ (row \in Row /\ RowSound(row, chats))
      BY <1>1, <2>1, <3>1, AdvancedSound
    <3>3. QED
      BY <1>1, <1>2, <3>2 DEF TablesSound
  <2>2. CASE ~KeepsTurn(q)
    <3>1. sessions' \subseteq sessions
      BY <2>2 DEF Finish, DeleteSession
    <3>2. QED
      BY <1>1, <1>2, <3>1, FewerRows
  <2>3. QED
    BY <2>1, <2>2
<1>4. QED
  BY <1>1, <1>3, IdleSound, OutsideStep DEF Answer

-----------------------------------------------------------------------------
(***************************************************************************)
(* Failures.                                                               *)
(***************************************************************************)

\* The request is answered and nothing else happens to it.
LEMMA AnsweredOutside ==
    ASSUME IInv, NEW r \in Requests, reqs[r].lock = 0, Answer(r),
           tokens' \in TokenTable, chats' = chats, locks' = locks,
           sessions' \subseteq sessions
    PROVE  IInv'
<1>1. TablesSound
  BY FewerRows
<1>2. QED
  BY <1>1, IdleSound, OutsideStep DEF Answer

LEMMA FailsOutsideTryPreserves ==
    ASSUME IInv, NEW r \in Requests, FailsOutsideTry(r)
    PROVE  IInv'
<1>1. reqs[r].lock = 0 /\ tokens \in TokenTable
  BY OutsideLock, TablesParts DEF FailsOutsideTry
<1>2. QED
  BY <1>1, AnsweredOutside DEF FailsOutsideTry

LEMMA RaisePreserves ==
    ASSUME IInv, NEW r \in Requests, NEW limited \in BOOLEAN,
           reqs[r].pc \in {"sending", "replying", "recreating"},
           Raise(r, limited)
    PROVE  IInv'
<1> DEFINE q    == reqs[r]
           pool == IF limited THEN MarkLimited(tokens, q.token) ELSE tokens
           rows == DeleteSession(sessions, SigOf(q))
<1>1. /\ q \in Request /\ RequestSound(q, chats) /\ q.lock = 0
      /\ q.msgs \in Conversations /\ tokens \in TokenTable
  BY IInvParts, TablesParts, BusyRequest, OutsideLock
<1>2. pool \in TokenTable
  <2>1. q.token \in TokenIds /\ q.account \in Accounts
    BY <1>1 DEF RequestSound
  <2>2. QED
    BY <1>1, <2>1, TokenTableClosed
<1>3. rows \subseteq sessions
  BY DEF DeleteSession
<1>4. CASE q.stream /\ tokens' = pool /\ Answer(r)
             /\ UNCHANGED <<sessions, chats, locks>>
  BY <1>1, <1>2, <1>4, AnsweredOutside
<1>5. CASE Answer(r) /\ UNCHANGED <<tokens, sessions, chats, locks>>
  BY <1>1, <1>5, AnsweredOutside
<1>6. CASE tokens' = pool /\ sessions' = rows /\ Answer(r)
             /\ UNCHANGED <<chats, locks>>
  BY <1>1, <1>2, <1>3, <1>6, AnsweredOutside
<1>7. CASE Enter(r, NewRequest(q.msgs, FALSE, TRUE), pool, rows)
  BY <1>1, <1>2, <1>3, <1>7, EnterPreserves
<1>8. QED
  BY <1>4, <1>5, <1>6, <1>7 DEF Raise

LEMMA PostLimitedPreserves ==
    ASSUME IInv, NEW r \in Requests, PostLimited(r)
    PROVE  IInv'
BY RaisePreserves DEF PostLimited

LEMMA BreaksPreserves ==
    ASSUME IInv, NEW r \in Requests, Breaks(r)
    PROVE  IInv'
BY RaisePreserves DEF Breaks

LEMMA AbortPreserves ==
    ASSUME IInv, NEW r \in Requests, Abort(r)
    PROVE  IInv'
<1>1. reqs[r].lock = 0 /\ tokens \in TokenTable
  BY OutsideLock, TablesParts DEF Abort
<1>2. QED
  BY <1>1, AnsweredOutside DEF Abort

-----------------------------------------------------------------------------
(***************************************************************************)
(* The dashboard, time and the process.                                    *)
(***************************************************************************)

\* The tables change and the handlers do not.
LEMMA TablesStep ==
    ASSUME IInv, tokens' \in TokenTable, sessions' \subseteq Row,
           \A row \in sessions' : RowSound(row, chats),
           UNCHANGED <<chats, locks, reqs>>
    PROVE  IInv'
<1>1. TypeOK'
  BY DEF IInv, TypeOK
<1>2. (\A row \in sessions : RowSound(row, chats))'
  OBVIOUS
<1>3. (\A r \in Requests : RequestSound(reqs[r], chats))'
  BY DEF IInv
<1>4. LocksTracked'
  BY DEF IInv, LocksTracked, ListedLock
<1>5. QED
  BY <1>1, <1>2, <1>3, <1>4 DEF IInv

LEMMA AddTokenPreserves ==
    ASSUME IInv, NEW a \in Accounts, AddToken(a)
    PROVE  IInv'
<1>1. PICK t \in TokenIds : tokens' = InsertToken(tokens, t, a)
  BY DEF AddToken
<1>2. tokens' \in TokenTable
  BY <1>1, TablesParts, TokenTableClosed
<1>3. QED
  BY <1>2, TablesParts, TablesStep DEF AddToken, IInv, TypeOK

LEMMA DeleteTokenPreserves ==
    ASSUME IInv, NEW t \in TokenIds, DeleteToken(t)
    PROVE  IInv'
<1>1. tokens' \in TokenTable
  BY TablesParts DEF DeleteToken, RemoveToken, TokenTable
<1>2. QED
  BY <1>1, TablesParts, TablesStep DEF DeleteToken, IInv, TypeOK

LEMMA TtlPassesPreserves ==
    ASSUME IInv, TtlPasses
    PROVE  IInv'
<1>1. ASSUME NEW row \in sessions'
      PROVE  row \in Row /\ RowSound(row, chats)
  <2>1. PICK old \in sessions : row = [old EXCEPT !.expired = TRUE]
    BY DEF TtlPasses, ExpireAll
  <2>2. old \in Row /\ RowSound(old, chats)
    BY TablesParts
  <2>3. row \in Row
    BY <2>1, <2>2 DEF Row
  <2>4. /\ row.chat = old.chat /\ row.parent = old.parent
        /\ row.token = old.token /\ row.sig = old.sig
    BY <2>1, <2>2 DEF Row
  <2>5. QED
    BY <2>2, <2>3, <2>4 DEF RowSound
<1>2. tokens' \in TokenTable
  BY TablesParts DEF TtlPasses
<1>3. QED
  BY <1>1, <1>2, TablesStep DEF TtlPasses

LEMMA RestartPreserves ==
    ASSUME IInv, Restart
    PROVE  IInv'
<1>1. /\ tokens' = tokens /\ chats' = chats
      /\ sessions' \subseteq sessions
      /\ locks' = [l \in LockIds |-> FreeLock]
      /\ reqs' = [r \in Requests |-> IdleRequest]
  BY DEF Restart, PruneSessions
<1>2. FreeLock \in Lock
  BY DEF FreeLock, Lock
<1>3. TypeOK'
  BY <1>1, <1>2, IdleSound DEF IInv, TypeOK
<1>4. (\A row \in sessions : RowSound(row, chats))'
  BY <1>1 DEF IInv
<1>5. (\A r \in Requests : RequestSound(reqs[r], chats))'
  BY <1>1, IdleSound
<1>6. LocksTracked'
  BY <1>1, IdleSound DEF LocksTracked, ListedLock, FreeLock
<1>7. QED
  BY <1>3, <1>4, <1>5, <1>6 DEF IInv

-----------------------------------------------------------------------------
(***************************************************************************)
(* The theorems.                                                           *)
(***************************************************************************)

LEMMA InitEstablishes ==
    ASSUME Init
    PROVE  IInv
<1>1. FreeLock \in Lock
  BY DEF FreeLock, Lock
<1>2. EmptyPool \in TokenTable
  BY DEF EmptyPool, TokenTable
<1>3. <<>> \in Seq(Chat) /\ Len(<<>>) <= MaxChats
  BY SizesAssumption
<1>4. TypeOK
  BY <1>1, <1>2, <1>3, IdleSound DEF Init, TypeOK
<1>5. \A r \in Requests : RequestSound(reqs[r], chats)
  BY IdleSound DEF Init
<1>6. LocksTracked
  BY IdleSound DEF Init, LocksTracked, ListedLock, FreeLock
<1>7. QED
  BY <1>4, <1>5, <1>6 DEF IInv, Init

LEMMA AdvancePreserves ==
    ASSUME IInv, NEW r \in Requests, Advance(r)
    PROVE  IInv'
BY EnterLockPreserves, CreateDonePreserves, CreateFailsPreserves,
   RotateDonePreserves, FailsOutsideTryPreserves, PostAnsweredPreserves,
   PostEmptyPreserves, PostLimitedPreserves, RetryEmptyPreserves,
   RecreateDonePreserves, FinishPreserves, BreaksPreserves
   DEF Advance

LEMMA NextPreserves ==
    ASSUME IInv, [Next]_vars
    PROVE  IInv'
<1>1. CASE UNCHANGED vars
  <2>1. UNCHANGED <<chats, locks, reqs>> /\ tokens' = tokens /\ sessions' = sessions
    BY <1>1 DEF vars
  <2>2. QED
    BY <2>1, TablesParts, TablesStep DEF IInv, TypeOK
<1>2. CASE Next
  BY <1>2, ArrivePreserves, AdvancePreserves, AbortPreserves,
     AddTokenPreserves, DeleteTokenPreserves, TtlPassesPreserves,
     RestartPreserves DEF Next
<1>3. QED
  BY <1>1, <1>2

\* In every reachable state of the gateway the tables, handlers and locks are
\* well formed and consistent with the chats on the server.
THEOREM Invariance == Spec => []IInv
<1>1. Init => IInv
  BY InitEstablishes
<1>2. IInv /\ [Next]_vars => IInv'
  BY NextPreserves
<1>3. QED
  BY <1>1, <1>2, PTL DEF Spec

\* The variables keep the shape the code gives them.
THEOREM TypeCorrect == Spec => []TypeOK
<1>1. IInv => TypeOK
  BY DEF IInv
<1>2. QED
  BY <1>1, Invariance, PTL

\* A cached session never points past the messages its chat holds, whatever
\* retries, rotations, lost streams, concurrent turns and restarts do.
THEOREM ParentAlwaysExists == Spec => []ParentExists
<1>1. IInv => ParentExists
  BY DEF IInv, RowSound, ParentExists
<1>2. QED
  BY <1>1, Invariance, PTL

\* Rotation, retry and late saves never recombine a chat with a token row it
\* was not created under.
THEOREM ChatsStayBound == Spec => []ChatBoundToOneToken
<1>1. IInv => ChatBoundToOneToken
  BY DEF IInv, RowSound, ChatBoundToOneToken
<1>2. QED
  BY <1>1, Invariance, PTL

\* A conversation is never continued in a chat created for another opening.
THEOREM ChatsStayApart == Spec => []NoForeignChat
<1>1. IInv => NoForeignChat
  BY DEF IInv, RowSound, RequestSound, NoForeignChat
<1>2. QED
  BY <1>1, Invariance, PTL

\* The dictionary of locks neither leaks an entry nor strands a waiter.
THEOREM LocksStayTracked == Spec => []LocksTracked
<1>1. IInv => LocksTracked
  BY DEF IInv
<1>2. QED
  BY <1>1, Invariance, PTL

-----------------------------------------------------------------------------
(***************************************************************************)
(* The owner of a chat.  Only the administrator takes a row away; then its *)
(* id can be given to another account, and a cached chat of the first is   *)
(* sent to with the credential of the second.  While no row is deleted, an *)
(* id stands for one account for ever, and that account is the one every   *)
(* chat created under it belongs to.                                       *)
(***************************************************************************)
StandsFor(pool, t, a) == pool[t] # NoToken /\ pool[t].account = a

KeepsAccounts(old, new) ==
    \A t \in TokenIds : old[t] # NoToken => StandsFor(new, t, old[t].account)

OwnsToken(q, pool) ==
    q.pc \notin {"idle", "waiting"} => StandsFor(pool, q.token, q.account)

OwnerInv ==
    /\ IInv
    /\ \A c \in DOMAIN chats : StandsFor(tokens, chats[c].token, chats[c].owner)
    /\ \A r \in Requests : OwnsToken(reqs[r], tokens)

\* A status is set and a row is added without touching the accounts there are.
LEMMA AccountsStay ==
    ASSUME NEW pool \in TokenTable, NEW t \in TokenIds
    PROVE  /\ KeepsAccounts(pool, pool)
           /\ KeepsAccounts(pool, MarkLimited(pool, t))
           /\ KeepsAccounts(pool, MarkActive(pool, t))
           /\ \A a : pool[t] = NoToken => KeepsAccounts(pool, InsertToken(pool, t, a))
<1>1. ASSUME NEW status \in Statuses, NEW u \in TokenIds, pool[u] # NoToken
      PROVE  StandsFor(SetStatus(pool, t, status), u, pool[u].account)
  <2>1. CASE pool[t] = NoToken
    BY <1>1, <2>1 DEF SetStatus, StandsFor
  <2>2. CASE pool[t] # NoToken
    <3> DEFINE row == [pool[t] EXCEPT !.status = status]
    <3>1. pool[t] \in TokenRow
      BY <2>2 DEF TokenTable
    <3>2. row.account = pool[t].account /\ row \in TokenRow
      BY <1>1, <3>1 DEF TokenRow
    <3>3. SetStatus(pool, t, status) = [pool EXCEPT ![t] = row]
      BY <2>2 DEF SetStatus, TokenTable
    <3>4. row # NoToken
      BY <3>2, NoTokenAssumption
    <3> HIDE DEF row
    <3> QED
      BY <1>1, <3>2, <3>3, <3>4 DEF StandsFor, TokenTable
  <2> QED
    BY <2>1, <2>2
<1>2. KeepsAccounts(pool, MarkLimited(pool, t)) /\ KeepsAccounts(pool, MarkActive(pool, t))
  BY <1>1 DEF KeepsAccounts, MarkLimited, MarkActive, Statuses
<1>3. KeepsAccounts(pool, pool)
  BY DEF KeepsAccounts, StandsFor
<1>4. \A a : pool[t] = NoToken => KeepsAccounts(pool, InsertToken(pool, t, a))
  BY DEF KeepsAccounts, StandsFor, InsertToken, TokenTable
<1> QED
  BY <1>2, <1>3, <1>4

\* What a step owes: ids keep standing for their accounts, the chats there were
\* keep token and owner, a new one belongs to its token's account, and so does
\* what a handler now carries.
OwnerStep ==
    /\ KeepsAccounts(tokens, tokens')
    /\ \A c \in DOMAIN chats' :
          \/ /\ c \in DOMAIN chats
             /\ chats'[c].token = chats[c].token /\ chats'[c].owner = chats[c].owner
          \/ StandsFor(tokens', chats'[c].token, chats'[c].owner)
    /\ \A s \in Requests : reqs'[s] = reqs[s] \/ OwnsToken(reqs'[s], tokens')

LEMMA OwnerStepPreserves ==
    ASSUME OwnerInv, IInv', OwnerStep
    PROVE  OwnerInv'
<1>1. ASSUME NEW t \in TokenIds, NEW a, StandsFor(tokens, t, a)
      PROVE  StandsFor(tokens', t, a)
  BY <1>1 DEF OwnerStep, KeepsAccounts, StandsFor
<1>2. ASSUME NEW c \in DOMAIN chats'
      PROVE  StandsFor(tokens', chats'[c].token, chats'[c].owner)
  <2>1. CASE /\ c \in DOMAIN chats
             /\ chats'[c].token = chats[c].token /\ chats'[c].owner = chats[c].owner
    <3>1. StandsFor(tokens, chats[c].token, chats[c].owner)
      BY <2>1 DEF OwnerInv
    <3>2. chats[c].token \in TokenIds
      BY <2>1, TablesParts DEF OwnerInv, Chat
    <3> QED
      BY <1>1, <2>1, <3>1, <3>2
  <2> QED
    BY <2>1 DEF OwnerStep
<1>3. ASSUME NEW s \in Requests
      PROVE  OwnsToken(reqs'[s], tokens')
  <2>1. CASE reqs'[s] = reqs[s]
    <3>1. OwnsToken(reqs[s], tokens) /\ RequestSound(reqs[s], chats)
      BY DEF OwnerInv, IInv
    <3>2. reqs[s].pc \notin {"idle", "waiting"} => reqs[s].token \in TokenIds
      BY <3>1 DEF RequestSound
    <3> QED
      BY <1>1, <2>1, <3>1, <3>2 DEF OwnsToken
  <2> QED
    BY <2>1 DEF OwnerStep
<1> QED
  BY <1>2, <1>3 DEF OwnerInv

\* Handler r moves to a state that names the account of its token.
BecomesOwner(r, pool) == \E q2 : Become(r, q2) /\ OwnsToken(q2, pool)

LEMMA BecomesOwnerOthers ==
    ASSUME TypeOK, NEW r \in Requests, NEW pool, BecomesOwner(r, pool)
    PROVE  \A s \in Requests : reqs'[s] = reqs[s] \/ OwnsToken(reqs'[s], pool)
<1>1. PICK q2 : reqs' = [reqs EXCEPT ![r] = q2] /\ OwnsToken(q2, pool)
  BY DEF BecomesOwner, Become
<1> QED
  BY <1>1 DEF TypeOK

\* A free slot, and a handler that only waits, carry no token.
LEMMA AnswerOwns == ASSUME NEW r, NEW pool, Answer(r) PROVE BecomesOwner(r, pool)
<1>1. OwnsToken(IdleRequest, pool)
  BY DEF IdleRequest, NewRequest, OwnsToken
<1> QED
  BY <1>1 DEF Answer, BecomesOwner

\* The token is read again before the prompt is sent.
LEMMA ResumeOwns ==
    ASSUME NEW r, NEW q \in Request, NEW t, NEW c, NEW p, NEW pool,
           Resume(r, q, t, c, p, pool)
    PROVE  BecomesOwner(r, pool)
<1>1. CASE pool[t] = NoToken
  BY <1>1, AnswerOwns DEF Resume
<1>2. CASE pool[t] # NoToken
  <2> DEFINE q2 == [q EXCEPT !.pc = "sending", !.lock = 0, !.token = t,
                             !.account = pool[t].account, !.chat = c,
                             !.parent = p, !.full = (p = 0), !.attempt = 1]
  <2>1. q2.token = t /\ q2.account = pool[t].account
    BY DEF Request
  <2>2. Become(r, q2)
    BY <1>2 DEF Resume
  <2>3. OwnsToken(q2, pool)
    BY <1>2, <2>1 DEF OwnsToken, StandsFor
  <2> HIDE DEF q2
  <2> QED
    BY <2>2, <2>3 DEF BecomesOwner
<1> QED
  BY <1>1, <1>2

LEMMA StartCreatingOwns ==
    ASSUME NEW r, NEW q \in Request, NEW l, NEW pool, NEW t \in ActiveTokens(pool),
           StartCreating(r, q, l, t, pool)
    PROVE  BecomesOwner(r, pool)
<1> DEFINE q2 == [q EXCEPT !.pc = "creating", !.lock = l, !.token = t,
                           !.account = pool[t].account]
<1>1. q2.token = t /\ q2.account = pool[t].account /\ pool[t] # NoToken
  BY DEF Request, ActiveTokens
<1>2. Become(r, q2)
  BY DEF StartCreating
<1>3. OwnsToken(q2, pool)
  BY <1>1 DEF OwnsToken, StandsFor
<1> HIDE DEF q2
<1> QED
  BY <1>2, <1>3 DEF BecomesOwner

\* Whatever handle_chat decides, a handler carries a token with its account.
LEMMA EnterOwns ==
    ASSUME NEW r, NEW msgs \in Conversations, NEW stream \in BOOLEAN,
           NEW retried \in BOOLEAN, NEW pool, NEW rows,
           Enter(r, NewRequest(msgs, stream, retried), pool, rows)
    PROVE  BecomesOwner(r, pool)
<1> DEFINE q    == NewRequest(msgs, stream, retried)
           hits == FindSession(rows, SigOf(q), HistLen(q.msgs))
<1>1. q \in Request
  BY NewRequestType
<1> HIDE DEF q
<1>2. CASE \E row \in hits : Hit(r, q, row, pool)
  <2>1. PICK row \in hits : Hit(r, q, row, pool)
    BY <1>2
  <2>2. ASSUME NEW t \in ActiveTokens(pool),
               Become(r, [q EXCEPT !.pc = "rotating", !.rotated = TRUE,
                                   !.token = t, !.account = pool[t].account,
                                   !.full = TRUE])
        PROVE  BecomesOwner(r, pool)
    <3> DEFINE q2 == [q EXCEPT !.pc = "rotating", !.rotated = TRUE, !.token = t,
                               !.account = pool[t].account, !.full = TRUE]
    <3>1. q2.token = t /\ q2.account = pool[t].account /\ pool[t] # NoToken
      BY <1>1 DEF Request, ActiveTokens
    <3>2. OwnsToken(q2, pool) /\ Become(r, q2)
      BY <2>2, <3>1 DEF OwnsToken, StandsFor
    <3> HIDE DEF q2
    <3> QED
      BY <3>2 DEF BecomesOwner
  <2> QED
    BY <1>1, <2>1, <2>2, ResumeOwns DEF Hit
<1>3. CASE Miss(r, q, pool)
  <2>1. ASSUME NEW l, Become(r, [q EXCEPT !.pc = "waiting", !.lock = l])
        PROVE  BecomesOwner(r, pool)
    <3> DEFINE q2 == [q EXCEPT !.pc = "waiting", !.lock = l]
    <3>1. OwnsToken(q2, pool)
      BY <1>1 DEF OwnsToken, Request
    <3> HIDE DEF q2
    <3> QED
      BY <2>1, <3>1 DEF BecomesOwner, q2
  <2> QED
    BY <1>1, <1>3, <2>1, AnswerOwns, StartCreatingOwns DEF Miss
<1> QED
  BY <1>2, <1>3, AnswerOwns DEF Enter, q

\* Only the tables of tokens and handlers change.
LEMMA OwnerStepTables ==
    ASSUME OwnerInv, NEW r \in Requests, KeepsAccounts(tokens, tokens'),
           chats' = chats, BecomesOwner(r, tokens')
    PROVE  OwnerStep
BY BecomesOwnerOthers DEF OwnerStep, OwnerInv, IInv

\* A handler that has a token keeps it, and the chat it creates is its account's.
LEMMA OwnerStepChat ==
    ASSUME OwnerInv, NEW r \in Requests, reqs[r].pc \notin {"idle", "waiting"},
           tokens' = tokens, chats' = Append(chats, NewChat(reqs[r])),
           BecomesOwner(r, tokens)
    PROVE  OwnerStep
<1>1. tokens \in TokenTable /\ chats \in Seq(Chat) /\ DOMAIN chats = 1 .. Len(chats)
  BY TablesParts DEF OwnerInv
<1>2. KeepsAccounts(tokens, tokens')
  BY <1>1, AccountsStay, MaxTokensAssumption DEF KeepsAccounts, StandsFor
<1>3. StandsFor(tokens, NewChat(reqs[r]).token, NewChat(reqs[r]).owner)
  BY DEF OwnerInv, OwnsToken, NewChat
<1>4. ASSUME NEW c \in DOMAIN chats'
      PROVE  \/ c \in DOMAIN chats /\ chats'[c] = chats[c]
             \/ chats'[c] = NewChat(reqs[r])
  BY <1>1
<1>5. \A s \in Requests : reqs'[s] = reqs[s] \/ OwnsToken(reqs'[s], tokens')
  BY BecomesOwnerOthers DEF OwnerInv, IInv
<1> QED
  BY <1>2, <1>3, <1>4, <1>5 DEF OwnerStep

\* The request goes on with the token and the account it has.
LEMMA SameTokenOwns ==
    ASSUME OwnerInv, NEW r \in Requests, reqs[r].pc \notin {"idle", "waiting"},
           NEW q2, Become(r, q2),
           q2.token = reqs[r].token, q2.account = reqs[r].account
    PROVE  BecomesOwner(r, tokens)
BY DEF OwnerInv, OwnsToken, BecomesOwner

LEMMA AdvanceOwns ==
    ASSUME OwnerInv, NEW r \in Requests, Advance(r)
    PROVE  OwnerStep
<1> DEFINE q == reqs[r]
<1>1. /\ q \in Request /\ RequestSound(q, chats) /\ tokens \in TokenTable
      /\ KeepsAccounts(tokens, tokens) /\ IInv
  BY IInvParts, TablesParts, AccountsStay, MaxTokensAssumption
     DEF OwnerInv, KeepsAccounts, StandsFor
<1>2. CASE EnterLock(r)
  BY <1>1, <1>2, ResumeOwns, AnswerOwns, StartCreatingOwns, OwnerStepTables
     DEF EnterLock
<1>3. CASE CreateDone(r)
  BY <1>1, <1>3, ResumeOwns, OwnerStepChat DEF CreateDone
<1>4. CASE CreateFails(r) \/ FailsOutsideTry(r)
  BY <1>1, <1>4, AnswerOwns, OwnerStepTables DEF CreateFails, FailsOutsideTry
<1>5. CASE RotateDone(r)
  <2> DEFINE q3 == [q EXCEPT !.pc = "sending", !.chat = Len(chats) + 1, !.parent = 0,
                           !.attempt = 1]
  <2>0. Become(r, q3) /\ q3.token = q.token /\ q3.account = q.account
    BY <1>1, <1>5 DEF RotateDone, Request
  <2> HIDE DEF q3
  <2>1. PICK q2 : Become(r, q2) /\ q2.token = q.token /\ q2.account = q.account
    BY <2>0
  <2> QED
    BY <1>5, <2>1, SameTokenOwns, OwnerStepChat DEF RotateDone
<1>6. CASE RecreateDone(r)
  <2> DEFINE q3 == [q EXCEPT !.pc = "sending", !.chat = Len(chats) + 1, !.parent = 0,
                           !.attempt = @ + 1, !.mid = 0]
  <2>0. Become(r, q3) /\ q3.token = q.token /\ q3.account = q.account
    BY <1>1, <1>6 DEF RecreateDone, Request
  <2> HIDE DEF q3
  <2>1. PICK q2 : Become(r, q2) /\ q2.token = q.token /\ q2.account = q.account
    BY <2>0
  <2> QED
    BY <1>6, <2>1, SameTokenOwns, OwnerStepChat DEF RecreateDone
<1>7. ASSUME NEW entries, NEW outcome, Posted(r, entries, outcome)
      PROVE  OwnerStep
  <2> DEFINE q3 == [q EXCEPT !.pc = "replying", !.outcome = outcome,
                           !.mid = Len(chats[q.chat].log) + Len(entries)]
  <2>0. Become(r, q3) /\ q3.token = q.token /\ q3.account = q.account
    BY <1>1, <1>7 DEF Posted, Request
  <2> HIDE DEF q3
  <2>1. PICK q2 : Become(r, q2) /\ q2.token = q.token /\ q2.account = q.account
    BY <2>0
  <2>2. /\ q.pc = "sending" /\ tokens' = tokens
        /\ chats' = [chats EXCEPT ![q.chat].log = chats[q.chat].log \o entries]
    BY <1>7 DEF Posted
  <2>3. \A s \in Requests : reqs'[s] = reqs[s] \/ OwnsToken(reqs'[s], tokens')
    BY <1>1, <2>1, <2>2, SameTokenOwns, BecomesOwnerOthers DEF IInv
  <2>4. ASSUME NEW c \in DOMAIN chats'
        PROVE  /\ c \in DOMAIN chats
               /\ chats'[c].token = chats[c].token /\ chats'[c].owner = chats[c].owner
    <3>1. c \in DOMAIN chats /\ chats[c] \in Chat
      BY <1>1, <2>2, TablesParts
    <3> QED
      BY <2>2, <3>1 DEF Chat
  <2> QED
    BY <1>1, <2>2, <2>3, <2>4 DEF OwnerStep
<1>8. CASE PostEmpty(r) \/ \E outcome \in Replies \cup {Thinking} : PostAnswered(r, outcome)
  BY <1>7, <1>8 DEF PostEmpty, PostAnswered
<1>9. CASE RetryEmpty(r)
  <2>1. PICK q2 : /\ Become(r, q2) /\ q2.token = q.token /\ q2.account = q.account
    BY <1>1, <1>9 DEF RetryEmpty, Request
  <2> QED
    BY <1>1, <1>9, <2>1, SameTokenOwns, OwnerStepTables DEF RetryEmpty
<1>10. CASE Finish(r)
  <2>1. q.token \in TokenIds
    BY <1>1, <1>10 DEF RequestSound, Finish
  <2> QED
    BY <1>1, <1>10, <2>1, AccountsStay, AnswerOwns, OwnerStepTables DEF Finish
<1>11. ASSUME NEW limited \in BOOLEAN, Raise(r, limited),
              q.pc \in {"sending", "replying", "recreating"}
       PROVE  OwnerStep
  <2> DEFINE pool == IF limited THEN MarkLimited(tokens, q.token) ELSE tokens
  <2>1. q.token \in TokenIds /\ q.msgs \in Conversations
    BY <1>1, <1>11, BusyRequest DEF RequestSound
  <2>2. KeepsAccounts(tokens, pool)
    BY <1>1, <2>1, AccountsStay
  <2>3. /\ tokens' = tokens \/ tokens' = pool
        /\ chats' = chats
        /\ \/ Answer(r)
           \/ /\ tokens' = pool
              /\ Enter(r, NewRequest(q.msgs, FALSE, TRUE), pool,
                       DeleteSession(sessions, SigOf(q)))
    BY <1>11 DEF Raise, Enter
  <2> HIDE DEF pool
  <2>4. BecomesOwner(r, tokens')
    BY <2>1, <2>3, AnswerOwns, EnterOwns
  <2> QED
    BY <1>1, <2>2, <2>3, <2>4, OwnerStepTables
<1>12. CASE PostLimited(r) \/ Breaks(r)
  BY <1>11, <1>12 DEF PostLimited, Breaks
<1> QED
  BY <1>2, <1>3, <1>4, <1>5, <1>6, <1>8, <1>9, <1>10, <1>12 DEF Advance

\* Neither the tokens nor the chats change.
LEMMA OwnerStepAside ==
    ASSUME KeepsAccounts(tokens, tokens), tokens' = tokens, chats' = chats,
           \A s \in Requests : reqs'[s] = reqs[s] \/ OwnsToken(reqs'[s], tokens)
    PROVE  OwnerStep
<1>1. KeepsAccounts(tokens, tokens')
  BY DEF KeepsAccounts, StandsFor
<1>2. \A s \in Requests : reqs'[s] = reqs[s] \/ OwnsToken(reqs'[s], tokens')
  BY DEF OwnsToken, StandsFor
<1>3. \A c \in DOMAIN chats' :
          /\ c \in DOMAIN chats
          /\ chats'[c].token = chats[c].token /\ chats'[c].owner = chats[c].owner
  OBVIOUS
<1> QED
  BY <1>1, <1>2, <1>3 DEF OwnerStep

LEMMA NextOwns ==
    ASSUME "delete" \notin Faults, OwnerInv, [Next]_vars
    PROVE  OwnerInv'
<1>1. tokens \in TokenTable /\ KeepsAccounts(tokens, tokens) /\ IInv
  BY TablesParts, AccountsStay, MaxTokensAssumption
     DEF OwnerInv, KeepsAccounts, StandsFor
<1> SUFFICES OwnerStep
  BY <1>1, NextPreserves, OwnerStepPreserves
<1>2. CASE UNCHANGED vars
  BY <1>1, <1>2, OwnerStepAside DEF vars
<1>3. ASSUME NEW r \in Requests, NEW msgs \in Conversations, NEW stream \in BOOLEAN,
             Arrive(r, msgs, stream)
      PROVE  OwnerStep
  BY <1>1, <1>3, EnterOwns, OwnerStepTables DEF Arrive, Enter
<1>4. ASSUME NEW r \in Requests, Abort(r)
      PROVE  OwnerStep
  BY <1>1, <1>4, AnswerOwns, OwnerStepTables DEF Abort
<1>5. ASSUME NEW a \in Accounts, AddToken(a)
      PROVE  OwnerStep
  <2>1. PICK t \in TokenIds : /\ tokens[t] = NoToken
                              /\ tokens' = InsertToken(tokens, t, a)
                              /\ chats' = chats /\ reqs' = reqs
    BY <1>5 DEF AddToken, LowestFreeId
  <2> QED
    BY <1>1, <2>1, AccountsStay DEF OwnerStep
<1>6. ASSUME NEW t \in TokenIds, DeleteToken(t)
      PROVE  OwnerStep
  BY <1>6 DEF DeleteToken
<1>7. CASE TtlPasses
  BY <1>1, <1>7, OwnerStepAside DEF TtlPasses
<1>8. CASE Restart
  <2>1. \A pool : OwnsToken(IdleRequest, pool)
    BY DEF OwnsToken, IdleRequest, NewRequest
  <2> QED
    BY <1>1, <1>8, <2>1, OwnerStepAside DEF Restart
<1>9. CASE Next
  BY <1>9, <1>3, <1>4, <1>5, <1>6, <1>7, <1>8, AdvanceOwns DEF Next
<1> QED
  BY <1>2, <1>9

\* While no token row is deleted, a prompt goes to a chat with the credential of
\* the account that owns the chat, whatever is rotated, rejected and retried.
THEOREM CredentialMatchesChat ==
    ASSUME "delete" \notin Faults
    PROVE  Spec => []SentByOwner
<1>1. Init => OwnerInv
  <2> SUFFICES ASSUME Init PROVE OwnerInv
    OBVIOUS
  <2>1. \A r \in Requests : OwnsToken(reqs[r], tokens)
    BY DEF Init, OwnsToken, IdleRequest, NewRequest
  <2> QED
    BY <2>1, InitEstablishes DEF Init, OwnerInv
<1>2. OwnerInv /\ [Next]_vars => OwnerInv'
  BY NextOwns
<1>3. OwnerInv => SentByOwner
  <2> SUFFICES ASSUME OwnerInv, NEW r \in Requests, reqs[r].pc = "sending"
               PROVE  chats[reqs[r].chat].owner = reqs[r].account
    BY DEF SentByOwner
  <2>1. /\ reqs[r].chat \in DOMAIN chats
        /\ chats[reqs[r].chat].token = reqs[r].token
    BY DEF OwnerInv, IInv, RequestSound
  <2> QED
    BY <2>1 DEF OwnerInv, OwnsToken, StandsFor
<1> QED
  BY <1>1, <1>2, <1>3, PTL DEF Spec
=============================================================================
