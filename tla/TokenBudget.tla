----------------------------- MODULE TokenBudget -----------------------------
(***************************************************************************)
(* v2 compaction: TokenBudget.plan picks the messages of a conversation    *)
(* that reach the provider.  A message is an atom with a Role and a Size   *)
(* in tokens; a tool message holds one result block, every other message   *)
(* one text block.  Total is what the system prompt leaves of the budget.  *)
(*                                                                         *)
(* Text that is over a clip limit is never shortened: _clip_text calls a   *)
(* count_tokens the module does not have, so plan raises NameError.        *)
(***************************************************************************)
EXTENDS Messages

CONSTANTS Size,          \* of each message, in tokens
          Stub,          \* the tool message "[tool:... completed]"
          Total,         \* BudgetPolicy.total, less the system prompt
          ToolClip,      \* BudgetPolicy.tool_result_clip
          OldTextClip,   \* BudgetPolicy.old_text_clip
          RecentTurns,   \* BudgetPolicy.recent_turns, at least MinRecent
          MinRecent      \* BudgetPolicy.min_recent_turns

ASSUME PolicyAssumption ==
    /\ Total \in Nat /\ ToolClip \in Nat /\ OldTextClip \in Nat
    /\ MinRecent \in Nat \ {0} /\ RecentTurns \in Nat
    /\ Size[Stub] <= ToolClip /\ Role[Stub] = "tool"

\* What an attempt comes to: the messages it keeps, or the NameError.
Kept(msgs) == [raised |-> FALSE, messages |-> msgs]
NameError  == [raised |-> TRUE, messages |-> <<>>]

measure(msgs) ==
    LET total[i \in 0 .. Len(msgs)] ==
            IF i = 0 THEN 0 ELSE total[i - 1] + Size[msgs[i]]
    IN  total[Len(msgs)]

\* 0 when no message is the user's.
FinalUser(msgs) == LastOf("user", msgs)

IsRecent(msgs, i, recent) == i > Len(msgs) - recent

\* _process_message: raises for a tool result over its limit, keeps the rest.
TooLong(m) == Role[m] = "tool" /\ Size[m] > ToolClip
Processed(msgs) ==
    IF \E i \in DOMAIN msgs : TooLong(msgs[i]) THEN NameError ELSE Kept(msgs)

\* Mutant of build_tier: the final user message is not added to the window.
build_tierWithoutFinalUser(msgs, recent) == Processed(Latest(msgs, recent))

\* Tier 1: the last messages, and the final user message wherever it is.
build_tier(msgs, recent) ==
    Processed(IF FinalUser(msgs) # 0 /\ ~IsRecent(msgs, FinalUser(msgs), recent)
              THEN Append(Latest(msgs, recent - 1), msgs[FinalUser(msgs)])
              ELSE Latest(msgs, recent))

\* Tier 2: every message, older tool results as stubs.
build_with_stubs(msgs, recent) ==
    Processed([i \in DOMAIN msgs |->
        IF Role[msgs[i]] = "tool" /\ ~IsRecent(msgs, i, recent)
        THEN Stub ELSE msgs[i]])

\* Tier 3: every message, older text and older tool results clipped.
build_with_clipped_text(msgs, recent) ==
    IF \E i \in DOMAIN msgs :
          /\ ~IsRecent(msgs, i, recent)
          /\ \/ TooLong(msgs[i])
             \/ Role[msgs[i]] # "tool" /\ Size[msgs[i]] > OldTextClip
    THEN NameError ELSE Kept(msgs)

\* Mutant of Windows: the smallest window is never tried.
WindowsStopEarly == [i \in 1 .. RecentTurns - MinRecent |-> RecentTurns - i + 1]

\* Windows from RecentTurns down to MinRecent.
Windows == [i \in 1 .. RecentTurns - MinRecent + 1 |-> RecentTurns - i + 1]

\* plan(): the first attempt that fits or raises decides; the smallest window
\* of tier 3 when none does.
plan(msgs) ==
    LET Tier(build(_, _)) == [i \in DOMAIN Windows |-> build(msgs, Windows[i])]
        attempts == Tier(build_tier) \o Tier(build_with_stubs)
                       \o Tier(build_with_clipped_text)
        decisive == {i \in DOMAIN attempts :
                        attempts[i].raised \/ measure(attempts[i].messages) <= Total}
    IN  IF decisive # {} THEN attempts[Min(decisive)]
        ELSE build_with_clipped_text(msgs, MinRecent)

-----------------------------------------------------------------------------
\* DeepSeekAdapter.send: all that is put to the chat is the
\* last user message of what plan kept; nothing when there is none.
Prompt(msgs) ==
    IF FinalUser(msgs) = 0 THEN <<>> ELSE <<msgs[FinalUser(msgs)]>>
=============================================================================
