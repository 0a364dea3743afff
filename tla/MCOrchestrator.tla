--------------------------- MODULE MCOrchestrator ---------------------------
(***************************************************************************)
(* Orchestrator on small instances.  The conversations are chosen for what *)
(* the store, the budget and the adapters tell apart; with a window of two *)
(* messages three turns do what takes six with the eight of api/app.py.    *)
(***************************************************************************)
EXTENDS Orchestrator

CONSTANT AccountNames   \* the accounts there are tokens for

MCRole == [m \in {"hello", "more", "essay"} |-> "user"]
             @@ [m \in {"answer", "call"} |-> "assistant"]
             @@ [m \in {"result", "page", "stub"} |-> "tool"]
MCCalls == [m \in DOMAIN MCRole |-> IF m = "call" THEN <<"c1">> ELSE <<>>]
MCSize  == [m \in DOMAIN MCRole |->
               CASE m \in {"essay", "result"} -> 3 [] m = "page" -> 9 [] OTHER -> 1]

\* Turns in the same words: with a window of two, after the second the row of the
\* last turn is found.
Second == <<"hello", "answer", "more">>
Third  == Second \o <<"answer", "more">>
\* As long as the third, with a tool result that is over its limit.
Reading == <<"hello", "call", "page", "answer", "hello">>

Ask(p, msgs) == [provider |-> p, msgs |-> msgs]
MCInputs == {Ask("deepseek", <<>>), Ask("deepseek", Second), Ask("deepseek", Third),
             Ask("deepseek", Reading)}
MCFirstTurns == {Ask("deepseek", <<"hello">>),
                 Ask("deepseek", Second)}

MCPlannable ==
    UNION {[1 .. n -> {"hello", "essay", "answer", "call", "result", "page"}] :
              n \in 0 .. 5}

MCSecrets == {[provider |-> "deepseek", account |-> a] : a \in AccountNames}

\* The condition under which OwnWordsOnly holds.
ASSUME InputsAssumed == QuestionsAreCompared

\* Handler slots and accounts are interchangeable; token ids are not.
Symmetry == Permutations(Requests) \cup Permutations(AccountNames)
=============================================================================
