---------------------------- MODULE Orchestrator ----------------------------
(***************************************************************************)
(* The v2 pipeline: Orchestrator.handle over the projection store, the     *)
(* token table, the token budget and the DeepSeek adapter, as api/app.py   *)
(* puts them together (the streaming route collects the same handle()).    *)
(*                                                                         *)
(* A handler suspends at each database call, in front of the lock of its   *)
(* projection, while the provider opens a chat, and while it answers.      *)
(* A lookup is one step: its queries read what one of them would.          *)
(* Requests are for DeepSeek's models; the Qwen adapter is not modelled.   *)
(*                                                                         *)
(* DeepSeek is external.  A chat is the log of its messages, numbered from *)
(* 1, each with what the model has read up to it (read): the branch of the *)
(* parent it was posted under.  What DeepSeek does with an empty turn and  *)
(* with a parent it does not know is what app.py:279-283 and 348-351 say.  *)
(***************************************************************************)
EXTENDS ProjectionStore, TokenBudget

CONSTANTS Requests,   \* handler slots: how many requests overlap
          Inputs,     \* what clients ask DeepSeek: [provider, msgs]
          Plannable,  \* conversations the budget is tried on
          Secrets,    \* what the administrator may add: [provider, account]
          Answer,     \* what the model answers
          MaxTokens,  \* bound: rows of the token table
          MaxChats,   \* bound: chats DeepSeek opens, it refuses more
          MaxLog,     \* bound: messages of one chat, it refuses more
          Faults      \* which of AllFaults the environment may produce

AllFaults == {"open",     \* opening a chat fails
              "send",     \* DeepSeek refuses or breaks off an answer
              "empty",    \* DeepSeek FINISHes an answer without a fragment
              "leave",    \* a client disconnects, its handler is cancelled
              "delete",   \* the administrator deletes a token
              "prune",    \* the administrator prunes sessions
              "restart"}  \* the process is stopped and started again

ASSUME FaultsAssumption == Faults \subseteq AllFaults
ASSUME BoundsAssumption == MaxTokens \in Nat /\ MaxChats \in Nat /\ MaxLog \in Nat
ASSUME InputsAssumption ==
    Inputs \subseteq [provider : {"deepseek"}, msgs : Seq(DOMAIN Role)]

VARIABLES tokens,   \* the tokens table
          rows,     \* the provider_sessions table
          chats,    \* DeepSeek's chats, in the order they were opened
          queues,   \* per projection, who holds (first) or waits for its lock
          reqs      \* the local state of each handler

vars == <<tokens, rows, chats, queues, reqs>>

Accounts == {secret.account : secret \in Secrets}

\* proj at line 92, and the key step 9 saves under: the conversation without
\* the answer, two messages longer.
ProjOf == [input \in Inputs |->
    Projection(input.msgs, input.msgs, Len(input.msgs), input.provider)]
NextProjOf == [input \in Inputs |->
    Projection(input.msgs, input.msgs, Len(input.msgs) + 2, input.provider)]

Projections == {ProjOf[input] : input \in Inputs}

\* step 5: self._budget.plan(conv).
Rendered == [input \in Inputs |-> plan(input.msgs)]

(***************************************************************************)
(* A handler: its request, the chat and parent of the row it goes by, the  *)
(* token it picked and the account that token's secret belongs to.         *)
(***************************************************************************)
Idle == [pc |-> "idle", input |-> [provider |-> "", msgs |-> <<>>],
         chat |-> 0, parent |-> 0, token |-> 0, account |-> NoText]

Init ==
    /\ tokens = <<>>
    /\ rows = <<>>
    /\ chats = <<>>
    /\ queues = [p \in Projections |-> <<>>]
    /\ reqs = [r \in Requests |-> Idle]

Row(proj, q, parent) ==
    [proj |-> proj, chat |-> q.chat, parent |-> parent, token |-> q.token]

\* The request goes by a row: its chat and its parent, not its token.
GoBy(q, row, pc) ==
    [q EXCEPT !.pc = pc, !.chat = row.chat, !.parent = row.parent]

\* lines 78 to 83.
Arrive(r, input) ==
    LET hits == lookup(rows, input.msgs, Len(input.msgs), input.provider)
        q    == [Idle EXCEPT !.pc = "picking", !.input = input]
    IN  /\ reqs[r] = Idle
        /\ \/ /\ hits = {}
              /\ reqs' = [reqs EXCEPT ![r] = q]
           \/ \E row \in hits : reqs' = [reqs EXCEPT ![r] = GoBy(q, row, "picking")]
        /\ UNCHANGED <<tokens, rows, chats, queues>>

\* lines 86 to 95: no token is a 503; a miss queues for the lock of its
\* projection.  _locks never forgets a lock, so there is one per projection.
Pick(r) ==
    LET q  == reqs[r]
        id == pick_available(tokens, q.input.provider)
        picked == [q EXCEPT !.token = id, !.account = tokens[id].account]
    IN  /\ q.pc = "picking"
        /\ IF Available(tokens, q.input.provider) = {}
           THEN reqs' = [reqs EXCEPT ![r] = Idle] /\ UNCHANGED queues
           ELSE /\ reqs' = [reqs EXCEPT ![r] =
                    [picked EXCEPT !.pc = IF q.chat = 0 THEN "waiting" ELSE "sending"]]
                /\ queues' = IF q.chat # 0 THEN queues
                             ELSE [queues EXCEPT ![ProjOf[q.input]] = Append(@, r)]
        /\ UNCHANGED <<tokens, rows, chats>>

\* The holder r leaves "async with lock": the next in the queue holds it.
Release(r) ==
    queues' = [queues EXCEPT ![ProjOf[reqs[r].input]] = Tail(@)]

\* Mutant of Enter: no second lookup.
EnterWithoutLooking(r) ==
    LET q == reqs[r]
    IN  /\ q.pc = "waiting"
        /\ Head(queues[ProjOf[q.input]]) = r
        /\ reqs' = [reqs EXCEPT ![r].pc = "opening"]
        /\ UNCHANGED <<tokens, rows, chats, queues>>

\* lines 95 to 98 and 110: the lock, and the second lookup under it.
Enter(r) ==
    LET q    == reqs[r]
        hits == lookup(rows, q.input.msgs, Len(q.input.msgs), q.input.provider)
    IN  /\ q.pc = "waiting"
        /\ Head(queues[ProjOf[q.input]]) = r
        /\ \/ /\ hits = {}
              /\ reqs' = [reqs EXCEPT ![r].pc = "opening"]
              /\ UNCHANGED queues
           \/ /\ \E row \in hits : reqs' = [reqs EXCEPT ![r] = GoBy(q, row, "sending")]
              /\ Release(r)
        /\ UNCHANGED <<tokens, rows, chats>>

\* A handler may be cancelled at any of its calls, with or without the effect
\* of that call: its client leaves, or the process goes down.
Cancellable == Faults \cap {"leave", "restart"} # {}

\* lines 99 to 110: the chat is open; its row is saved with parent 0, unless
\* the token was deleted meanwhile, which raises, or the handler is cancelled.
Opened(r) ==
    LET q    == reqs[r]
        chat == [account |-> q.account, token |-> q.token,
                 proj |-> ProjOf[q.input], log |-> <<>>]
        mine == [q EXCEPT !.pc = "sending", !.chat = Len(chats) + 1, !.parent = 0]
    IN  /\ q.pc = "opening"
        /\ Len(chats) < MaxChats
        /\ chats' = Append(chats, chat)
        /\ Release(r)
        /\ \/ /\ Exists(tokens, q.token)
              /\ rows' = save(rows, Row(ProjOf[q.input], mine, 0))
              /\ reqs' = [reqs EXCEPT ![r] = mine]
           \/ /\ ~Exists(tokens, q.token) \/ Cancellable
              /\ reqs' = [reqs EXCEPT ![r] = Idle]
              /\ UNCHANGED rows
        /\ UNCHANGED tokens

\* Mutant of OpenFails: the lock is not released.
OpenFailsLocked(r) ==
    /\ reqs[r].pc = "opening"
    /\ "open" \in Faults \/ Len(chats) = MaxChats
    /\ reqs' = [reqs EXCEPT ![r] = Idle]
    /\ UNCHANGED <<tokens, rows, chats, queues>>

\* ensure_chat raises, and leaves the lock like every exception does.
OpenFails(r) ==
    /\ reqs[r].pc = "opening"
    /\ "open" \in Faults \/ Len(chats) = MaxChats
    /\ Release(r)
    /\ reqs' = [reqs EXCEPT ![r] = Idle]
    /\ UNCHANGED <<tokens, rows, chats>>

\* The adapter itself answers no messages at all, with an empty text.
Unasked(input) == input.msgs = <<>>

\* DeepSeek takes a message: it knows the chat as this account's, and has
\* room for it.
Accepts(q) ==
    /\ q.account = chats[q.chat].account
    /\ Len(chats[q.chat].log) + 2 <= MaxLog

\* The parent is one of the chat's messages, or its beginning.
KnownParent(q) == q.parent <= Len(chats[q.chat].log)

\* What the model has read up to the parent.
ReadUpTo(chat, parent) ==
    IF parent \in DOMAIN chat.log THEN chat.log[parent].read ELSE <<>>

\* What the model reads before it answers: the branch of the parent and the
\* prompt the adapter takes from what plan kept.
Asked(q) ==
    ReadUpTo(chats[q.chat], q.parent) \o Prompt(Rendered[q.input].messages)

UserMessage(q) == [role |-> "user", read |-> Asked(q)]
AnswerTo(q)    == [role |-> "assistant", read |-> Append(Asked(q), Answer)]

\* lines 115 to 144: the handler has its row and is about to send.
Sending(q) == q.pc = "sending" /\ ~Rendered[q.input].raised

\* The chat takes the messages, and the handler goes on at pc.
Tell(r, messages, next) ==
    /\ chats' = [chats EXCEPT ![reqs[r].chat].log = @ \o messages]
    /\ reqs' = [reqs EXCEPT ![r] = next]
    /\ UNCHANGED <<tokens, rows, queues>>

Completed(q) == [q EXCEPT !.pc = "saving"]

\* lines 115 to 144, when plan raises.
PlanRaises(r) ==
    /\ reqs[r].pc = "sending" /\ Rendered[reqs[r].input].raised
    /\ reqs' = [reqs EXCEPT ![r] = Idle]
    /\ UNCHANGED <<tokens, rows, chats, queues>>

\* Without messages the adapter finishes at once.
SendNothing(r) ==
    /\ Sending(reqs[r]) /\ Unasked(reqs[r].input)
    /\ reqs' = [reqs EXCEPT ![r] = Completed(reqs[r])]
    /\ UNCHANGED <<tokens, rows, chats, queues>>

\* lines 115 to 151: the prompt goes to the chat, and the answer is collected.
Send(r) ==
    LET q == reqs[r]
    IN  /\ Sending(q) /\ ~Unasked(q.input) /\ Accepts(q) /\ KnownParent(q)
        /\ Tell(r, <<UserMessage(q), AnswerTo(q)>>, Completed(q))

\* An answer without a fragment: the chat keeps the user message alone, or, when
\* it does not know the parent, perhaps nothing.  It finishes like any other, and
\* an empty text is completed.
EmptyTurn(r) ==
    LET q == reqs[r]
    IN  /\ Sending(q) /\ ~Unasked(q.input) /\ Accepts(q)
        /\ \/ /\ "empty" \in Faults \/ ~KnownParent(q)
              /\ Tell(r, <<UserMessage(q)>>, Completed(q))
           \/ ~KnownParent(q) /\ Tell(r, <<>>, Completed(q))

\* DeepSeek refuses the message.
Refused(q) ==
    /\ Sending(q) /\ ~Unasked(q.input)
    /\ "send" \in Faults \/ ~Accepts(q)

\* Mutant of SendFails: the adapter yields the error, which has no text, and an
\* empty answer is completed.
SendFailsQuietly(r) ==
    /\ Refused(reqs[r])
    /\ reqs' = [reqs EXCEPT ![r] = Completed(reqs[r])]
    /\ UNCHANGED <<tokens, rows, chats, queues>>

\* The adapter then names a ProviderError it did not import and raises NameError:
\* nothing is saved.
SendFails(r) ==
    /\ Refused(reqs[r])
    /\ reqs' = [reqs EXCEPT ![r] = Idle]
    /\ UNCHANGED <<tokens, rows, chats, queues>>

\* The connection breaks behind the POST, or the handler is cancelled there: the
\* chat keeps the message, with the answer or without, and nothing is saved.
BreaksOff(r) ==
    LET q == reqs[r]
    IN  /\ "send" \in Faults \/ Cancellable
        /\ Sending(q) /\ ~Unasked(q.input) /\ Accepts(q) /\ KnownParent(q)
        /\ \E messages \in {<<UserMessage(q)>>, <<UserMessage(q), AnswerTo(q)>>} :
              Tell(r, messages, Idle)

\* lines 168 to 191: the row of the conversation two messages longer, with the
\* chat it went by, the token it picked and the parent moved on by two.
Finish(r) ==
    LET q == reqs[r]
    IN  /\ q.pc = "saving"
        /\ rows' = IF Exists(tokens, q.token)
                   THEN save(rows, Row(NextProjOf[q.input], q, q.parent + 2))
                   ELSE rows
        /\ reqs' = [reqs EXCEPT ![r] = Idle]
        /\ UNCHANGED <<tokens, chats, queues>>

-----------------------------------------------------------------------------
(***************************************************************************)
(* The administrator, and the process.                                     *)
(***************************************************************************)
\* Bound: a secret is not added again once a chat or a handler goes by it.
InUse(account) ==
    \/ \E id \in DOMAIN tokens : tokens[id].account = account
    \/ \E i \in DOMAIN chats : chats[i].account = account
    \/ \E r \in Requests : reqs[r].account = account

AddToken(secret) ==
    /\ ~InUse(secret.account)
    /\ Cardinality(DOMAIN tokens) < MaxTokens
    /\ Max(DOMAIN tokens \cup {0}) < MaxTokens
    /\ tokens' = add(tokens, secret)
    /\ UNCHANGED <<rows, chats, queues, reqs>>

DeleteToken(id) ==
    /\ "delete" \in Faults
    /\ Exists(tokens, id) /\ ~Referenced(rows, id)
    /\ tokens' = delete(tokens, id)
    /\ UNCHANGED <<rows, chats, queues, reqs>>

PruneSessions(n) ==
    /\ "prune" \in Faults
    /\ rows' = prune_ttl(rows, n)
    /\ UNCHANGED <<tokens, chats, queues, reqs>>

\* The client of the streaming route disconnects: its handler is cancelled where
\* it stands, and leaves the queue of its lock.
Leaves(r) ==
    LET q == reqs[r]
    IN  /\ "leave" \in Faults /\ q.pc # "idle"
        /\ IF q.pc \in {"waiting", "opening"}
           THEN \E i \in DOMAIN queues[ProjOf[q.input]] :
                  /\ queues[ProjOf[q.input]][i] = r
                  /\ queues' = [queues EXCEPT ![ProjOf[q.input]] = RemoveAt(@, i)]
           ELSE UNCHANGED queues
        /\ reqs' = [reqs EXCEPT ![r] = Idle]
        /\ UNCHANGED <<tokens, rows, chats>>

Restart ==
    /\ "restart" \in Faults
    /\ reqs' = [r \in Requests |-> Idle]
    /\ queues' = [p \in Projections |-> <<>>]
    /\ UNCHANGED <<tokens, rows, chats>>

Handle(r) ==
    \/ Pick(r) \/ Enter(r) \/ Opened(r) \/ OpenFails(r)
    \/ PlanRaises(r) \/ SendNothing(r) \/ Send(r) \/ EmptyTurn(r)
    \/ SendFails(r) \/ BreaksOff(r) \/ Finish(r)

Next ==
    \/ \E r \in Requests, input \in Inputs : Arrive(r, input)
    \/ \E r \in Requests : Handle(r) \/ Leaves(r)
    \/ \E secret \in Secrets : AddToken(secret)
    \/ \E id \in DOMAIN tokens : DeleteToken(id)
    \/ \E n \in 1 .. Len(rows) : PruneSessions(n)
    \/ Restart

Spec == Init /\ [][Next]_vars
-----------------------------------------------------------------------------
(***************************************************************************)
(* What must hold.                                                         *)
(***************************************************************************)
Handler == [pc : {"idle", "picking", "waiting", "opening", "sending", "saving"},
            input : Inputs \cup {Idle.input}, chat : 0 .. MaxChats, parent : Nat,
            token : 0 .. MaxTokens, account : Accounts \cup {NoText}]

\* Every variable has the shape the code gives it: one row for a projection,
\* for a token that is in the table (the foreign key of db.py:79); and the
\* lock of a projection is held by the handler that opens its chat and awaited
\* by those behind it, never by one that was answered, raised or went down with
\* the process (orchestrator.py:91-110).
OrchestratorTypeOK ==
    /\ DOMAIN tokens \subseteq 1 .. MaxTokens
    /\ \A id \in DOMAIN tokens : tokens[id] \in Secrets
    /\ \A i \in DOMAIN rows :
          /\ rows[i].chat \in DOMAIN chats /\ rows[i].parent \in Nat
          /\ rows[i].token \in DOMAIN tokens
          /\ \A j \in DOMAIN rows : rows[i].proj = rows[j].proj => i = j
    /\ Len(chats) <= MaxChats
    /\ \A i \in DOMAIN chats : chats[i].proj \in Projections
    /\ queues \in [Projections -> Seq(Requests)]
    /\ reqs \in [Requests -> Handler]
    /\ \A p \in Projections :
          /\ IsInjective(queues[p])
          /\ ToSet(queues[p]) = {r \in Requests :
                 /\ reqs[r].pc \in {"waiting", "opening"} /\ ProjOf[reqs[r].input] = p}
          /\ \A i \in DOMAIN queues[p] : reqs[queues[p][i]].pc = "opening" => i = 1

\* A session points at a message its chat really holds (v1's rule, which
\* V2_DESIGN.md:239 keeps: functions.py:430-433).  Does not hold: an empty turn is
\* completed like any other, and its row moved on by two (step 9 of handle).
SessionParentExists ==
    \A row \in ToSet(rows) :
        row.proj.tail # <<>> => row.parent <= Len(chats[row.chat].log)

\* The chat holds a user message that no answer follows.
Unanswered(log) ==
    \E i \in DOMAIN log :
        /\ log[i].role = "user"
        /\ i = Len(log) \/ log[i + 1].role = "user"

\* Even so a session that points past the end of its chat is one of a chat that
\* left a message unanswered: where every message was answered, no refused answer,
\* cancelled handler, restart, pruned row or second request that goes by the same
\* row has counted a parent up that its chat did not follow (steps 4 to 9).
OverrunMeansUnanswered ==
    \A row \in ToSet(rows) :
        row.proj.tail # <<>> =>
            LET log == chats[row.chat].log
            IN  row.parent <= Len(log) \/ Unanswered(log)

\* No chat is opened for a conversation while the store holds one that was
\* opened for it: of the requests that miss together, the first opens it, and
\* the second lookup under the lock takes the others there (lines 94 to 98),
\* whatever is pruned, deleted or saved while the chat is being opened.
OpenedAgain(proj) ==
    \E row \in Under(rows, proj) : proj.tail # <<>> /\ chats[row.chat].proj = proj

OneChatPerConversation ==
    [][\A i \in DOMAIN chats' \ DOMAIN chats : ~OpenedAgain(chats'[i].proj)]_vars

Holds(id, account) == Exists(tokens, id) /\ tokens[id].account = account

\* A message only reaches for a chat with the credential of another account
\* after the token of one of the two was deleted.  A row is found before a
\* token is picked, the picked token need not be the row's, the row is saved
\* under the picked one, and the ids of deleted tokens come back.
SentByItsAccount ==
    \A r \in Requests : reqs[r].pc = "sending" =>
        LET chat == chats[reqs[r].chat]
        IN  \/ reqs[r].account = chat.account
            \/ ~Holds(reqs[r].token, reqs[r].account)
            \/ ~Holds(chat.token, chat.account)

\* The message to be answered as a row shows it: the last user message of the
\* window, or else the first of the conversation.
AskedOf(anchor, tail) ==
    IF Prompt(tail) # <<>> THEN Prompt(tail)
    ELSE IF anchor = NoText THEN <<>> ELSE <<anchor>>

\* Rows show what their conversations ask.  Not so where the last user message
\* stands in front of the window and is not the first, as after many calls.
QuestionsAreCompared ==
    \A input \in Inputs :
        AskedOf(Anchor(input.msgs), Latest(input.msgs, WindowK)) = Prompt(input.msgs)

\* Two conversations may share a row, since only the first user text and the
\* last WindowK messages are compared; even so, where QuestionsAreCompared, a
\* request never continues a branch in which its user did not say every word.
OwnWordsOnly ==
    \A r \in Requests : reqs[r].pc = "sending" =>
        ToSet(ReadUpTo(chats[reqs[r].chat], reqs[r].parent)) \subseteq
            ToSet(reqs[r].input.msgs) \cup {Answer}

\* plan reads nothing but the conversation, so one state is enough to try it.
Unused == tokens = <<>> /\ chats = <<>> /\ reqs = [r \in Requests |-> Idle]

\* Compaction never costs the message to be answered (the docstring of plan:
\* the final user message is never clipped), wherever it stands.
FinalUserMessageSent ==
    Unused => \A msgs \in Plannable :
        ~plan(msgs).raised => Prompt(plan(msgs).messages) = Prompt(msgs)

\* A prompt is over budget only when not even the smallest window fits.
BudgetKept ==
    Unused => \A msgs \in Plannable :
        \/ measure(plan(msgs).messages) <= Total
        \/ measure(build_tier(msgs, MinRecent).messages) > Total

\* No chat is opened for a conversation that DeepSeek has answered: the row saved
\* behind that answer (step 9: "this should be the conversation WITH the new
\* assistant message") is found when the next message follows it.  Does not hold.
FollowUpFindsItsChat ==
    \A r \in Requests :
        reqs[r].pc = "opening" /\ ~Unasked(reqs[r].input) =>
            \A i \in DOMAIN chats : \A n \in DOMAIN chats[i].log :
                LET message == chats[i].log[n]
                IN  ~(/\ message.role = "assistant"
                      /\ message.read = Front(reqs[r].input.msgs))

\* A chat opened for a conversation is sent that conversation (deepseek/
\* adapter.py:72: "we send the full conversation as the prompt").  Does not hold.
ModelReadsConversation ==
    \A r \in Requests :
        reqs[r].pc = "sending" /\ chats[reqs[r].chat].log = <<>> =>
            Prompt(Rendered[reqs[r].input].messages) = reqs[r].input.msgs
=============================================================================
