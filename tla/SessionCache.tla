---------------------------- MODULE SessionCache ----------------------------
(***************************************************************************)
(* The sessions table of deeperseeker.db, which remembers the DeepSeek     *)
(* chat that holds a conversation, and the signature under which it is     *)
(* looked up (plugin_helper.project_signature).  A conversation is the     *)
(* list of messages the client sends; the first one stands for everything  *)
(* that precedes the first reply: model, scope, system prompt and the      *)
(* opening user message, all of which the signature hashes.                *)
(***************************************************************************)
EXTENDS Naturals, Sequences

CONSTANTS Users,       \* what a user message (or a tool result) can say
          Replies,     \* what an assistant message can say
          Blank,       \* an assistant message whose content is empty
          WindowK      \* DEEPSEEKER_SIG_WINDOW_K

ASSUME WindowKAssumption == WindowK \in Nat

Assistant == Replies \cup {Blank}
Messages  == Users \cup Assistant

ASSUME RolesAssumption == Users \cap Assistant = {}

\* The index of the last assistant message, 0 when there is none.
LastAssistant(msgs) ==
    CHOOSE i \in 0 .. Len(msgs) :
        /\ i = 0 \/ msgs[i] \in Assistant
        /\ \A j \in (i + 1) .. Len(msgs) : msgs[j] \notin Assistant

\* The history a signature is taken of stops at the last assistant message.
History(msgs) ==
    IF LastAssistant(msgs) = 0 THEN msgs ELSE SubSeq(msgs, 1, LastAssistant(msgs))

\* What follows the last assistant message: the new turn of the client.
Trailing(msgs) == SubSeq(msgs, LastAssistant(msgs) + 1, Len(msgs))

Window(h) ==
    IF WindowK = 0 \/ Len(h) <= WindowK THEN h
    ELSE SubSeq(h, Len(h) - WindowK + 1, Len(h))

\* The projection that is hashed, and the history length kept beside it.  The
\* hash itself is taken to be injective.
Signature(msgs) ==
    [anchor |-> Head(History(msgs)), tail |-> Window(History(msgs))]
HistLen(msgs) == Len(History(msgs))

Signatures == [anchor : Messages, tail : Seq(Messages)]

(***************************************************************************)
(* The table.  expired marks a row whose created_at lies further back than *)
(* the TTL.                                                                *)
(***************************************************************************)
\* Mutant of SessionRow: two columns of the INSERT change places.
RowWithSwappedIds(sig, token, chat, parent, hist_len) ==
    [sig |-> sig, token |-> chat, chat |-> token, parent |-> parent,
     hist_len |-> hist_len, expired |-> FALSE]

SessionRow(sig, token, chat, parent, hist_len) ==
    [sig |-> sig, token |-> token, chat |-> chat, parent |-> parent,
     hist_len |-> hist_len, expired |-> FALSE]

\* Mutant of FindSession: the projection forgets the anchor.
FindWithoutAnchor(rows, sig, hist_len) ==
    {row \in rows : row.sig.tail = sig.tail /\ hist_len <= row.hist_len}

\* find_session() followed by session_hit_ok(): a row for a history shorter
\* than the one in hand is not a hit.  Neither looks at created_at.
FindSession(rows, sig, hist_len) ==
    {row \in rows : row.sig = sig /\ hist_len <= row.hist_len}

PruneSessions(rows) == {row \in rows : ~row.expired}

\* INSERT OR REPLACE with a new created_at, then prune_sessions().
SaveSession(rows, new) ==
    PruneSessions({row \in rows : row.sig # new.sig} \cup {new})

DeleteSession(rows, sig) == {row \in rows : row.sig # sig}

ExpireAll(rows) == {[row EXCEPT !.expired = TRUE] : row \in rows}
=============================================================================
