------------------------------ MODULE Messages ------------------------------
(***************************************************************************)
(* v2 conversations: what the projection store and the token budget ask of *)
(* the messages of the IR.  A message is an atom with a Role.              *)
(***************************************************************************)
EXTENDS Integers, Sequences, SequencesExt, FiniteSetsExt

CONSTANT Role   \* of each message: "user", "assistant" or "tool"

\* Positions of a role's messages, and the first and last of them, 0 if none.
Of(role, msgs)      == {i \in DOMAIN msgs : Role[msgs[i]] = role}
LastOf(role, msgs)  == Max(Of(role, msgs) \cup {0})

\* The Python slice [-n:], which is everything for n = 0.
Latest(msgs, n) ==
    IF n = 0 \/ n >= Len(msgs) THEN msgs
    ELSE SubSeq(msgs, Len(msgs) - n + 1, Len(msgs))
=============================================================================
