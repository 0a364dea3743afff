------------------------------- MODULE Gateway -------------------------------
(***************************************************************************)
(* The live gateway: app.handle_chat, the retrying stream it reads from,   *)
(* and the two response paths (collected and streamed) that write the      *)
(* session cache and the token pool when the upstream answer is complete.  *)
(*                                                                         *)
(* Handlers are coroutines of one asyncio loop.  What runs between two     *)
(* suspension points is one action here; the database calls never suspend. *)
(* A handler suspends while it waits for a per-signature lock, while it    *)
(* creates a chat (creating, rotating, recreating), while its prompt is on *)
(* its way (sending) and while the reply streams in (replying).            *)
(*                                                                         *)
(* DeepSeek is external.  A chat is the log of its messages, numbered from *)
(* 1 in the order the server accepts them, as next_parent() assumes.  Each *)
(* message keeps the conversation it completes (ctx), which is what the    *)
(* model has read when it answers; the gateway cannot see it.              *)
(***************************************************************************)
EXTENDS TokenPool, SessionCache

CONSTANTS Requests,    \* handler slots: how many requests overlap
          Thinking,    \* an upstream turn that only thinks
          Empty,       \* an upstream turn that yields nothing
          NoAccount,
          MaxAttempts, \* max_attempts of _RetryingStream
          MaxTurns,    \* bound: user turns of a conversation
          MaxChats,    \* bound: chats DeepSeek hands out, it refuses more
          MaxLog,      \* bound: messages of one chat, it refuses more
          MaxLocks,    \* bound: locks alive at once, one per handler is enough
          Faults       \* which of AllFaults the environment may produce

AllFaults == {"create",   \* creating a chat fails
              "upload",   \* a file of the request cannot be uploaded
              "limited",  \* HTTP 401, 403 or 429 instead of a stream
              "broken",   \* any other error, before or during the stream
              "empty",    \* an upstream turn without any fragment
              "abort",    \* the client of a stream disconnects
              "delete",   \* the administrator deletes a token
              "ttl",      \* the session TTL passes
              "restart"}  \* the process is stopped and started again

ASSUME SizesAssumption ==
    /\ MaxAttempts \in Nat \ {0}
    /\ MaxTurns \in Nat /\ MaxChats \in Nat /\ MaxLog \in Nat /\ MaxLocks \in Nat
ASSUME FaultsAssumption == Faults \subseteq AllFaults
ASSUME OutcomesAssumption ==
    /\ Thinking \notin Replies /\ Empty \notin Replies /\ Thinking # Empty
    /\ NoAccount \notin Accounts

VARIABLES tokens,      \* the tokens table
          sessions,    \* the sessions table
          chats,       \* DeepSeek's chats, in the order they were created
          locks,       \* the asyncio locks reachable from handlers
          reqs         \* the local state of each handler

vars == <<tokens, sessions, chats, locks, reqs>>

(***************************************************************************)
(* Upstream chats.  owner is the account whose credential created the      *)
(* chat, token the row id that credential had, opener the first message of *)
(* the conversation it was created for.                                    *)
(***************************************************************************)
ChatIds == 1 .. MaxChats
Message == [role : {"user", "assistant"}, ctx : Seq(Messages)]
Chat    == [owner : Accounts, token : TokenIds, opener : Messages,
            log : Seq(Message)]

Row == [sig : Signatures, token : TokenIds, chat : ChatIds, parent : Nat,
        hist_len : Nat, expired : BOOLEAN]

NewChat(q) ==
    [owner |-> q.account, token |-> q.token, opener |-> q.msgs[1], log |-> <<>>]

\* What an upstream turn adds to the conversation the client echoes.
Outcomes == Replies \cup {Thinking, Empty}
Content(outcome) == IF outcome \in Replies THEN outcome ELSE Blank

(***************************************************************************)
(* _sig_locks.  A lock is created for a signature and entered in the       *)
(* dictionary (listed).  The head of its queue holds it, the others wait.  *)
(* It may have waiters long after the dictionary forgot it.                *)
(***************************************************************************)
LockIds  == 1 .. MaxLocks
Lock     == [sig : Signatures \cup {<<>>}, queue : Seq(Requests),
             listed : BOOLEAN]
FreeLock == [sig |-> <<>>, queue |-> <<>>, listed |-> FALSE]

UnusedLock(l) ==
    /\ locks[l] = FreeLock
    /\ \A k \in 1 .. (l - 1) : locks[k] # FreeLock

ListedLock(l, sig) == locks[l].listed /\ locks[l].sig = sig

\* Mutant of Released: the emptied lock stays in the dictionary.
ReleasedNotForgotten(l) ==
    LET rest == Tail(locks[l].queue)
    IN  [locks EXCEPT ![l] = [sig |-> locks[l].sig, queue |-> rest,
                              listed |-> TRUE]]

\* Mutant of Released: the next waiter is not woken.
ReleasedWithoutWakeup(l) ==
    IF Len(locks[l].queue) = 1 THEN [locks EXCEPT ![l] = FreeLock]
    ELSE [locks EXCEPT ![l].listed = FALSE]

\* Leaving "async with create_lock" wakes the next waiter; the finally clause
\* then forgets the lock, whether or not somebody still waits for it.
Released(l) ==
    LET rest == Tail(locks[l].queue)
    IN  [locks EXCEPT ![l] =
            IF rest = <<>> THEN FreeLock
            ELSE [sig |-> locks[l].sig, queue |-> rest, listed |-> FALSE]]

(***************************************************************************)
(* Handlers.  mid is the server's id of the reply being read, which the    *)
(* gateway never learns: it computes next_parent(parent) instead.          *)
(***************************************************************************)
\* What clients send: user turns with replies between them.
Conversations ==
    UNION {{m \in [1 .. (2 * n - 1) -> Messages] :
               \A i \in 1 .. (2 * n - 1) : m[i] \in Users <=> i % 2 = 1}
           : n \in 1 .. MaxTurns}

Locations == {"idle", "waiting", "creating", "rotating", "sending",
              "replying", "recreating"}

Request ==
    [pc : Locations, msgs : Conversations \cup {<<>>}, stream : BOOLEAN,
     retried : BOOLEAN, rotated : BOOLEAN, lock : LockIds \cup {0},
     token : TokenIds \cup {0}, account : Accounts \cup {NoAccount},
     chat : ChatIds \cup {0}, parent : Nat, full : BOOLEAN,
     attempt : 0 .. MaxAttempts, outcome : Outcomes, mid : Nat]

NewRequest(msgs, stream, retried) ==
    [pc |-> "idle", msgs |-> msgs, stream |-> stream, retried |-> retried,
     rotated |-> FALSE, lock |-> 0, token |-> 0, account |-> NoAccount,
     chat |-> 0, parent |-> 0, full |-> FALSE, attempt |-> 0,
     outcome |-> Empty, mid |-> 0]

IdleRequest == NewRequest(<<>>, FALSE, FALSE)

SigOf(q) == Signature(q.msgs)

\* Mutant of next_parent: the user message is not counted.
next_parent_of_reply(parent) == parent + 1

next_parent(parent) == parent + 2

Init ==
    /\ tokens = EmptyPool
    /\ sessions = {}
    /\ chats = <<>>
    /\ locks = [l \in LockIds |-> FreeLock]
    /\ reqs = [r \in Requests |-> IdleRequest]

Become(r, q) == reqs' = [reqs EXCEPT ![r] = q]
Answer(r)    == Become(r, IdleRequest)

(***************************************************************************)
(* The first segment of handle_chat, run on arrival and again when a       *)
(* non-streaming request is retried.  pool and rows are the two tables as  *)
(* the caller leaves them.                                                 *)
(***************************************************************************)

\* The tail of handle_chat up to its first suspension: the token is read
\* again, and the prompt is a full one only if the chat has no parent yet.
Resume(r, q, t, c, p, pool) ==
    IF pool[t] = NoToken
    THEN Answer(r)                                     \* 503 Token expired
    ELSE Become(r, [q EXCEPT !.pc = "sending", !.lock = 0, !.token = t,
                             !.account = pool[t].account, !.chat = c,
                             !.parent = p, !.full = (p = 0), !.attempt = 1])

\* The token of a cached session is gone or limited, and another can serve.
MustRotate(row, pool) ==
    /\ row.token \notin ActiveTokens(pool)
    /\ ActiveTokens(pool) # {}

\* Mutant of Hit: the other token takes over the chat as it is.
HitKeepingChat(r, q, row, pool) ==
    \/ /\ MustRotate(row, pool)
       /\ \E t \in ActiveTokens(pool) :
             Resume(r, q, t, row.chat, row.parent, pool)
    \/ /\ ~MustRotate(row, pool)
       /\ Resume(r, q, row.token, row.chat, row.parent, pool)

\* Mutant of Hit: the new chat is given the new turn alone.
HitWithoutHistory(r, q, row, pool) ==
    \/ /\ MustRotate(row, pool)
       /\ \E t \in ActiveTokens(pool) :
             Become(r, [q EXCEPT !.pc = "rotating", !.rotated = TRUE,
                                 !.token = t, !.account = pool[t].account])
    \/ /\ ~MustRotate(row, pool)
       /\ Resume(r, q, row.token, row.chat, row.parent, pool)

Hit(r, q, row, pool) ==
    \/ /\ MustRotate(row, pool)
       /\ \E t \in ActiveTokens(pool) :
             Become(r, [q EXCEPT !.pc = "rotating", !.rotated = TRUE,
                                 !.token = t, !.account = pool[t].account,
                                 !.full = TRUE])
    \/ /\ ~MustRotate(row, pool)
       /\ Resume(r, q, row.token, row.chat, row.parent, pool)

\* Under the lock, with no cached session: pick a token and create a chat.
StartCreating(r, q, l, t, pool) ==
    Become(r, [q EXCEPT !.pc = "creating", !.lock = l, !.token = t,
                        !.account = pool[t].account])

Miss(r, q, pool) ==
    \/ \E l \in LockIds :
          /\ ListedLock(l, SigOf(q))
          /\ locks' = [locks EXCEPT ![l].queue = Append(@, r)]
          /\ Become(r, [q EXCEPT !.pc = "waiting", !.lock = l])
    \/ /\ \A l \in LockIds : ~ListedLock(l, SigOf(q))
       /\ ActiveTokens(pool) = {}
       /\ Answer(r)                                    \* 503 No tokens
       /\ UNCHANGED locks
    \/ /\ \A l \in LockIds : ~ListedLock(l, SigOf(q))
       /\ \E l \in LockIds, t \in ActiveTokens(pool) :
             /\ UnusedLock(l)
             /\ locks' = [locks EXCEPT ![l] = [sig |-> SigOf(q),
                                               queue |-> <<r>>,
                                               listed |-> TRUE]]
             /\ StartCreating(r, q, l, t, pool)

Enter(r, q, pool, rows) ==
    LET hits == FindSession(rows, SigOf(q), HistLen(q.msgs))
    IN  /\ tokens' = pool
        /\ sessions' = rows
        /\ UNCHANGED chats
        /\ \/ ~HasToken(pool) /\ Answer(r) /\ UNCHANGED locks       \* 401
           \/ HasToken(pool) /\ UNCHANGED locks
                             /\ \E row \in hits : Hit(r, q, row, pool)
           \/ HasToken(pool) /\ hits = {} /\ Miss(r, q, pool)

Arrive(r, msgs, stream) ==
    /\ reqs[r].pc = "idle"
    /\ Enter(r, NewRequest(msgs, stream, FALSE), tokens, sessions)

(***************************************************************************)
(* The critical section of the per-signature lock.                         *)
(***************************************************************************)

\* A waiter gets the lock and looks the session up again.
EnterLock(r) ==
    LET q    == reqs[r]
        hits == FindSession(sessions, SigOf(q), HistLen(q.msgs))
    IN  /\ q.pc = "waiting" /\ Head(locks[q.lock].queue) = r
        /\ UNCHANGED <<tokens, sessions, chats>>
        /\ \/ \E row \in hits :
                 /\ locks' = Released(q.lock)
                 /\ Resume(r, q, row.token, row.chat, row.parent, tokens)
           \/ /\ hits = {} /\ ActiveTokens(tokens) = {}
              /\ locks' = Released(q.lock)
              /\ Answer(r)                             \* 503 No tokens
           \/ /\ hits = {}
              /\ \E t \in ActiveTokens(tokens) : StartCreating(r, q, q.lock, t, tokens)
              /\ UNCHANGED locks

CreateDone(r) ==
    LET q == reqs[r]
        c == Len(chats) + 1
    IN  /\ q.pc = "creating" /\ c \in ChatIds
        /\ chats' = Append(chats, NewChat(q))
        /\ sessions' = SaveSession(sessions,
                         SessionRow(SigOf(q), q.token, c, 0, HistLen(q.msgs)))
        /\ locks' = Released(q.lock)
        /\ Resume(r, q, q.token, c, 0, tokens)
        /\ UNCHANGED tokens

CreateMayFail == "create" \in Faults \/ Len(chats) = MaxChats

CreateFails(r) ==
    /\ reqs[r].pc = "creating" /\ CreateMayFail
    /\ locks' = Released(reqs[r].lock)
    /\ Answer(r)                                       \* 500
    /\ UNCHANGED <<tokens, sessions, chats>>

(***************************************************************************)
(* Token rotation: a new chat under another token, a full prompt, and no   *)
(* exception handler around it.                                            *)
(***************************************************************************)
RotateDone(r) ==
    LET q == reqs[r]
        c == Len(chats) + 1
    IN  /\ q.pc = "rotating" /\ c \in ChatIds
        /\ chats' = Append(chats, NewChat(q))
        /\ Become(r, [q EXCEPT !.pc = "sending", !.chat = c, !.parent = 0,
                               !.attempt = 1])
        /\ UNCHANGED <<tokens, sessions, locks>>

\* Creating the chat of a rotation, or uploading the files of any request,
\* fails outside the try block: the exception reaches the client untouched.
FailsOutsideTry(r) ==
    /\ \/ CreateMayFail /\ reqs[r].pc = "rotating"
       \/ "upload" \in Faults /\ reqs[r].pc = "sending" /\ reqs[r].attempt = 1
    /\ Answer(r)
    /\ UNCHANGED <<tokens, sessions, chats, locks>>

(***************************************************************************)
(* The prompt reaches DeepSeek (_RetryingStream._run over send_message).   *)
(***************************************************************************)

\* What the model has read once the prompt is appended after message p of the
\* log: the thread that ends at p, then the whole conversation if the prompt
\* is a full one and only the new turn otherwise.
Thread(log, p) == IF p \in DOMAIN log THEN log[p].ctx ELSE <<>>
Told(q) ==
    Thread(chats[q.chat].log, q.parent)
        \o (IF q.full THEN q.msgs ELSE Trailing(q.msgs))

\* The server takes a prompt only from the chat's owner, after a message that
\* exists, and while the bound leaves room for the turn.
Accepts(q) ==
    /\ chats[q.chat].owner = q.account
    /\ q.parent <= Len(chats[q.chat].log)
    /\ Len(chats[q.chat].log) + 2 <= MaxLog

Posted(r, entries, outcome) ==
    LET q   == reqs[r]
        log == chats[q.chat].log
    IN  /\ q.pc = "sending" /\ Accepts(q)
        /\ chats' = [chats EXCEPT ![q.chat].log = log \o entries]
        /\ Become(r, [q EXCEPT !.pc = "replying", !.outcome = outcome,
                               !.mid = Len(log) + Len(entries)])
        /\ UNCHANGED <<tokens, sessions, locks>>

Question(q) == [role |-> "user", ctx |-> Told(q)]
Reply(q, outcome) ==
    [role |-> "assistant", ctx |-> Append(Told(q), Content(outcome))]

PostAnswered(r, outcome) ==
    Posted(r, <<Question(reqs[r]), Reply(reqs[r], outcome)>>, outcome)

\* An empty turn: the server keeps the user message alone.
PostEmpty(r) == "empty" \in Faults /\ Posted(r, <<Question(reqs[r])>>, Empty)

\* Mutant of RetryEmpty: the attempts are not counted.
RetryEmptyForever(r) ==
    /\ reqs[r].pc = "replying" /\ reqs[r].outcome = Empty
    /\ Become(r, [reqs[r] EXCEPT !.pc = "recreating"])
    /\ UNCHANGED <<tokens, sessions, chats, locks>>

\* Nothing was yielded and attempts are left: the same prompt goes to a fresh
\* chat of the same account.
RetryEmpty(r) ==
    /\ reqs[r].pc = "replying" /\ reqs[r].outcome = Empty
    /\ reqs[r].attempt < MaxAttempts
    /\ Become(r, [reqs[r] EXCEPT !.pc = "recreating"])
    /\ UNCHANGED <<tokens, sessions, chats, locks>>

RecreateDone(r) ==
    LET q == reqs[r]
        c == Len(chats) + 1
    IN  /\ q.pc = "recreating" /\ c \in ChatIds
        /\ chats' = Append(chats, NewChat(q))
        /\ Become(r, [q EXCEPT !.pc = "sending", !.chat = c, !.parent = 0,
                               !.attempt = @ + 1, !.mid = 0])
        /\ UNCHANGED <<tokens, sessions, locks>>

(***************************************************************************)
(* The end of a request.                                                   *)
(***************************************************************************)

\* Mutant of KeepsTurn: an empty turn advances the parent as well.
KeepsEveryTurn(q) == TRUE

\* The collected path keeps a turn that has text or tool calls; the streamed
\* path also keeps one that only thinks.
KeepsTurn(q) == q.outcome \in Replies \/ (q.stream /\ q.outcome = Thinking)

\* Mutant of Advanced: the token is picked anew when the turn is saved.
AdvancedUnderAnyToken(q) ==
    LET next == Append(q.msgs, Content(q.outcome))
        p    == next_parent(q.parent)
        t    == CHOOSE t \in TokenIds : tokens[t] # NoToken
    IN  SaveSession(
          SaveSession(sessions,
            SessionRow(SigOf(q), t, q.chat, p, HistLen(q.msgs))),
          SessionRow(Signature(next), t, q.chat, p, HistLen(next)))

\* The request's own signature and that of the conversation with the reply
\* appended both point behind the reply.
Advanced(q) ==
    LET next == Append(q.msgs, Content(q.outcome))
        p    == next_parent(q.parent)
    IN  SaveSession(
          SaveSession(sessions,
            SessionRow(SigOf(q), q.token, q.chat, p, HistLen(q.msgs))),
          SessionRow(Signature(next), q.token, q.chat, p, HistLen(next)))

Finish(r) ==
    LET q == reqs[r]
    IN  /\ q.pc = "replying"
        /\ q.outcome = Empty => q.attempt = MaxAttempts
        /\ tokens' = MarkActive(tokens, q.token)
        /\ sessions' = IF KeepsTurn(q) THEN Advanced(q)
                       ELSE DeleteSession(sessions, SigOf(q))
        /\ Answer(r)
        /\ UNCHANGED <<chats, locks>>

\* An exception while the answer is read.  The streamed path marks the token
\* and ends; so does the collected path after a rotation, without the mark.
\* Otherwise the session row goes, and HTTP 401, 403 and 429 start handle_chat
\* over once.
Raise(r, limited) ==
    LET q    == reqs[r]
        pool == IF limited THEN MarkLimited(tokens, q.token) ELSE tokens
        rows == DeleteSession(sessions, SigOf(q))
    IN  \/ /\ q.stream
           /\ tokens' = pool
           /\ Answer(r)
           /\ UNCHANGED <<sessions, chats, locks>>
        \/ /\ ~q.stream /\ q.rotated
           /\ Answer(r)
           /\ UNCHANGED <<tokens, sessions, chats, locks>>
        \/ /\ ~q.stream /\ ~q.rotated
           /\ q.retried \/ ~limited
           /\ tokens' = pool /\ sessions' = rows
           /\ Answer(r)
           /\ UNCHANGED <<chats, locks>>
        \/ /\ ~q.stream /\ ~q.rotated /\ limited /\ ~q.retried
           /\ Enter(r, NewRequest(q.msgs, FALSE, TRUE), pool, rows)

PostLimited(r) ==
    /\ "limited" \in Faults /\ reqs[r].pc = "sending"
    /\ Raise(r, TRUE)

\* A connection error, a timeout, an upstream refusal, or a fresh chat that
\* cannot be created.
Breaks(r) ==
    /\ \/ "broken" \in Faults /\ reqs[r].pc \in {"sending", "replying"}
       \/ reqs[r].pc = "sending" /\ ~Accepts(reqs[r])
       \/ CreateMayFail /\ reqs[r].pc = "recreating"
    /\ Raise(r, FALSE)

\* The client of a stream goes away: the generator is closed where it waits.
Abort(r) ==
    /\ "abort" \in Faults
    /\ reqs[r].stream /\ reqs[r].pc \in {"sending", "replying", "recreating"}
    /\ Answer(r)
    /\ UNCHANGED <<tokens, sessions, chats, locks>>

(***************************************************************************)
(* The dashboard, time and the process itself.                             *)
(***************************************************************************)
AddToken(a) ==
    /\ \E t \in TokenIds : /\ LowestFreeId(tokens, t)
                           /\ tokens' = InsertToken(tokens, t, a)
    /\ UNCHANGED <<sessions, chats, locks, reqs>>

DeleteToken(t) ==
    /\ "delete" \in Faults /\ tokens[t] # NoToken
    /\ tokens' = RemoveToken(tokens, t)
    /\ UNCHANGED <<sessions, chats, locks, reqs>>

\* Longer than the TTL passes without a save.
TtlPasses ==
    /\ "ttl" \in Faults
    /\ sessions' = ExpireAll(sessions)
    /\ UNCHANGED <<tokens, chats, locks, reqs>>

\* Handlers and locks live in memory; init_db() prunes the table that stays.
Restart ==
    /\ "restart" \in Faults
    /\ sessions' = PruneSessions(sessions)
    /\ locks' = [l \in LockIds |-> FreeLock]
    /\ reqs' = [r \in Requests |-> IdleRequest]
    /\ UNCHANGED <<tokens, chats>>

Advance(r) ==
    \/ EnterLock(r)
    \/ CreateDone(r) \/ CreateFails(r)
    \/ RotateDone(r) \/ FailsOutsideTry(r)
    \/ \E outcome \in Replies \cup {Thinking} : PostAnswered(r, outcome)
    \/ PostEmpty(r) \/ PostLimited(r)
    \/ RetryEmpty(r) \/ RecreateDone(r)
    \/ Finish(r) \/ Breaks(r)

Next ==
    \/ \E r \in Requests, msgs \in Conversations, stream \in BOOLEAN :
          Arrive(r, msgs, stream)
    \/ \E r \in Requests : Advance(r) \/ Abort(r)
    \/ \E a \in Accounts : AddToken(a)
    \/ \E t \in TokenIds : DeleteToken(t)
    \/ TtlPasses \/ Restart

Spec == Init /\ [][Next]_vars

\* Every wait of a handler ends: each outbound call carries a timeout, and the
\* loop resumes a coroutine whose future is done.
FairSpec == Spec /\ \A r \in Requests : WF_vars(Advance(r))
-----------------------------------------------------------------------------
(***************************************************************************)
(* What must hold.                                                         *)
(***************************************************************************)

\* Every variable has the shape the code gives it.
TypeOK ==
    /\ tokens \in TokenTable
    /\ sessions \subseteq Row
    /\ chats \in Seq(Chat) /\ Len(chats) <= MaxChats
    /\ locks \in [LockIds -> Lock]
    /\ reqs \in [Requests -> Request]

\* A cached session never points past the messages its chat really holds:
\* the comments at app.py:279-283 and 348-351 describe what happens if it does
\* (every later turn of the conversation comes back empty).  The gateway
\* counts messages it cannot list, across retries on fresh chats, rotations,
\* aborted streams and two requests on one chat.
ParentExists ==
    \A row \in sessions :
        /\ row.chat \in DOMAIN chats
        /\ row.parent <= Len(chats[row.chat].log)

\* A cached session names the token row its chat was created under, so chat
\* and credential are never recombined by rotation, retry or a late save.
ChatBoundToOneToken ==
    \A row \in sessions : chats[row.chat].token = row.token

\* A conversation only ever resumes, or writes into, a chat that was created
\* for a conversation with the same opening (model, scope, system prompt and
\* first message), however far the window of the signature has moved on.
NoForeignChat ==
    /\ \A row \in sessions : chats[row.chat].opener = row.sig.anchor
    /\ \A r \in Requests : reqs[r].chat # 0 =>
          chats[reqs[r].chat].opener = reqs[r].msgs[1]

\* _sig_locks never leaks an entry or strands a waiter: a lock in use has a
\* live holder, its queue is exactly the handlers inside or in front of its
\* critical section, each once, and a signature is listed at most once.
LocksTracked ==
    /\ \A l \in LockIds :
          /\ locks[l] # FreeLock => locks[l].queue # <<>>
          /\ \A i \in DOMAIN locks[l].queue : reqs[locks[l].queue[i]].lock = l
          /\ \A i, j \in DOMAIN locks[l].queue :
                locks[l].queue[i] = locks[l].queue[j] => i = j
    /\ \A r \in Requests : reqs[r].lock # 0 =>
          \E i \in DOMAIN locks[reqs[r].lock].queue :
             /\ locks[reqs[r].lock].queue[i] = r
             /\ reqs[r].pc = "creating" => i = 1
    /\ \A k, l \in LockIds :
          locks[k].listed /\ ListedLock(l, locks[k].sig) => k = l

\* A prompt is sent to a chat with the credential of the account that owns the
\* chat.
SentByOwner ==
    \A r \in Requests : reqs[r].pc = "sending" =>
        chats[reqs[r].chat].owner = reqs[r].account

\* The message id that is about to be saved as parent is the server's id of
\* the reply this very request received (the docstring of next_parent).
NextParentIsOwnReply ==
    \A r \in Requests :
        reqs[r].pc = "replying" /\ reqs[r].outcome # Empty =>
            reqs[r].mid = next_parent(reqs[r].parent)

\* A chat that holds no message yet is given the whole conversation.
FreshChatGetsHistory ==
    \A r \in Requests :
        reqs[r].pc = "sending" /\ chats[reqs[r].chat].log = <<>> =>
            Told(reqs[r]) = reqs[r].msgs

\* Every request is answered: no lock, retry or rotation keeps it for ever.
EveryRequestAnswered ==
    \A r \in Requests : reqs[r].pc # "idle" ~> reqs[r].pc = "idle"
-----------------------------------------------------------------------------
(***************************************************************************)
(* The inductive invariant behind TypeOK, ParentExists, NoForeignChat,     *)
(* ChatBoundToOneToken and LocksTracked: what a suspended handler may rely *)
(* on when it resumes.  The one fact about the future is the last: once a  *)
(* reply streams in, its chat has grown by two messages since the parent   *)
(* was read, whatever else was posted there.                               *)
(***************************************************************************)
RequestSound(q, cs) ==
    /\ q.pc = "idle" <=> q.msgs = <<>>
    /\ q.lock # 0 <=> q.pc \in {"waiting", "creating"}
    /\ q.chat # 0 <=> q.pc \in {"sending", "replying", "recreating"}
    /\ q.pc \notin {"idle", "waiting"} =>
          q.token \in TokenIds /\ q.account \in Accounts
    /\ q.chat # 0 =>
          /\ q.chat \in DOMAIN cs
          /\ q.parent <= Len(cs[q.chat].log)
          /\ cs[q.chat].token = q.token
          /\ cs[q.chat].opener = q.msgs[1]
    /\ q.pc = "recreating" => q.attempt < MaxAttempts
    /\ q.pc = "replying" /\ q.outcome # Empty =>
          next_parent(q.parent) <= Len(cs[q.chat].log)

RowSound(row, cs) ==
    /\ row.chat \in DOMAIN cs
    /\ row.parent <= Len(cs[row.chat].log)
    /\ cs[row.chat].token = row.token
    /\ cs[row.chat].opener = row.sig.anchor

\* TypeOK, and every row, handler and lock consistent with the chats.
IInv ==
    /\ TypeOK
    /\ \A row \in sessions : RowSound(row, chats)
    /\ \A r \in Requests : RequestSound(reqs[r], chats)
    /\ LocksTracked
=============================================================================
