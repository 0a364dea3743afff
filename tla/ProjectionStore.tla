--------------------------- MODULE ProjectionStore ---------------------------
(***************************************************************************)
(* v2 store: the provider_sessions table behind ProjectionStore and the    *)
(* tokens table behind TokenRepo.                                          *)
(*                                                                         *)
(* rows is the sessions table ordered by last_used_at, oldest first.       *)
(* A message is an atom with a Role.  Equal projections and equal SHA-256  *)
(* keys are the same thing here.  The system prompt of a conversation is   *)
(* part of its first user message.                                         *)
(*                                                                         *)
(* tokens maps the ids in the table to [provider, account].  Every status  *)
(* is ACTIVE: nothing in v2 calls mark_rate_limited or mark_invalid.       *)
(***************************************************************************)
EXTENDS Messages

CONSTANTS CallsIn,    \* the ids of the tool calls in each message
          WindowK,    \* sig_window_k
          NoText      \* the anchor of a conversation without user message

ASSUME WindowAssumption == WindowK \in Nat

\* _has_trailing_assistant, and _build_projection with drop_last_assistant.
TrailingAssistant(msgs) == msgs # <<>> /\ Role[Last(msgs)] = "assistant"
DropAssistant(msgs) == IF TrailingAssistant(msgs) THEN Front(msgs) ELSE msgs

Anchor(msgs) ==
    IF Of("user", msgs) = {} THEN NoText ELSE msgs[Min(Of("user", msgs))]

\* The ids of the tool calls in the last assistant message.
PendingCalls(msgs) ==
    IF Of("assistant", msgs) = {} THEN <<>>
    ELSE CallsIn[msgs[LastOf("assistant", msgs)]]

\* Mutant of Projection: the tail is forgotten.
ProjectionWithoutTail(msgs, tailed, hist_len, provider) ==
    [anchor |-> Anchor(msgs), tail |-> <<>>, hist_len |-> hist_len,
     pending |-> PendingCalls(msgs), provider |-> provider]

\* _build_projection.  Anchor and pending calls are read from the whole
\* conversation, only the tail is without the assistant message dropped.
Projection(msgs, tailed, hist_len, provider) ==
    [anchor |-> Anchor(msgs), tail |-> Latest(tailed, WindowK), hist_len |-> hist_len,
     pending |-> PendingCalls(msgs), provider |-> provider]

\* _structural_match with the WHERE clause in front of it: like equality of
\* projections, but pending calls in any order.
structural_match(a, b) ==
    /\ a.provider = b.provider /\ a.hist_len = b.hist_len
    /\ a.anchor = b.anchor /\ a.tail = b.tail
    /\ ToSet(a.pending) = ToSet(b.pending)

Under(rows, proj) == {row \in ToSet(rows) : row.proj = proj}

\* lookup: the rows it may return.  The fallback projection is built without
\* a provider, and the default is DeepSeek's whatever the request asks for.
lookup(rows, msgs, hist_len, provider) ==
    LET proj     == Projection(msgs, msgs, hist_len, provider)
        matching == {row \in ToSet(rows) : structural_match(proj, row.proj)}
        fallback == Projection(msgs, DropAssistant(msgs), hist_len, "deepseek")
    IN  IF msgs = <<>>                  THEN {}
        ELSE IF Under(rows, proj) # {}  THEN Under(rows, proj)
        ELSE IF matching # {}           THEN matching
        ELSE IF TrailingAssistant(msgs) THEN Under(rows, fallback)
        ELSE {}

\* save: the row is inserted, or overwrites the one with its key, and becomes
\* the latest.
save(rows, row) ==
    LET old == {i \in DOMAIN rows : rows[i].proj = row.proj}
    IN  Append(IF old = {} THEN rows ELSE RemoveAt(rows, Min(old)), row)

\* prune_ttl: the n rows that have not been saved for longest.
prune_ttl(rows, n) == SubSeq(rows, n + 1, Len(rows))
-----------------------------------------------------------------------------
\* add: the id is the largest in use and one, the table keeps no counter.
add(tokens, token) ==
    LET new == Max(DOMAIN tokens \cup {0}) + 1
    IN  [id \in DOMAIN tokens \cup {new} |-> IF id = new THEN token ELSE tokens[id]]

\* pick_available: the provider's token with the smallest id.
Available(tokens, provider) ==
    {id \in DOMAIN tokens : tokens[id].provider = provider}

\* Mutant of pick_available: the newest token first.
pick_availableNewest(tokens, provider) == Max(Available(tokens, provider))

pick_available(tokens, provider) == Min(Available(tokens, provider))

\* token_id REFERENCES tokens(id), with foreign_keys=ON: a row may only be
\* saved for a token that exists, a token may only be deleted when no row
\* names it.
Exists(tokens, id) == id \in DOMAIN tokens

Referenced(rows, id) == \E row \in ToSet(rows) : row.token = id

delete(tokens, id) == [other \in DOMAIN tokens \ {id} |-> tokens[other]]
=============================================================================
