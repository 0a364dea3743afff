------------------------------ MODULE TokenPool ------------------------------
(***************************************************************************)
(* The tokens table of deeperseeker.db and the functions of functions.py   *)
(* that read and write it.  A token is the credential of one DeepSeek web  *)
(* account.  The table is a function from row id to row, NoToken where no  *)
(* row has that id.  The operators take the table and return it changed,   *)
(* because one handler segment may run several of them without yielding.   *)
(***************************************************************************)
EXTENDS Naturals

CONSTANTS MaxTokens,   \* bound: row ids 1 .. MaxTokens
          Accounts,    \* the DeepSeek accounts whose credentials are pasted
          NoToken      \* no row under this id

ASSUME MaxTokensAssumption == MaxTokens \in Nat \ {0}

TokenIds == 1 .. MaxTokens
Statuses == {"ACTIVE", "RATE_LIMITED"}
TokenRow == [account : Accounts, status : Statuses]

ASSUME NoTokenAssumption == NoToken \notin TokenRow

TokenTable == [TokenIds -> TokenRow \cup {NoToken}]

EmptyPool == [t \in TokenIds |-> NoToken]

\* get_auth_token() finds some row, whatever its status.
HasToken(pool) == \E t \in TokenIds : pool[t] # NoToken

\* The rows pick_token() chooses from at random; it returns None when there
\* are none.
ActiveTokens(pool) ==
    {t \in TokenIds : pool[t] # NoToken /\ pool[t].status = "ACTIVE"}

SetStatus(pool, t, status) ==
    IF pool[t] = NoToken THEN pool ELSE [pool EXCEPT ![t].status = status]

\* UPDATE ... WHERE id = ?: a no-op when the row was deleted meanwhile.
MarkLimited(pool, t) == SetStatus(pool, t, "RATE_LIMITED")
MarkActive(pool, t)  == SetStatus(pool, t, "ACTIVE")

\* add_token() fills the lowest id that is free, so an id is used again once
\* its row was deleted.
LowestFreeId(pool, t) ==
    /\ pool[t] = NoToken
    /\ \A u \in 1 .. (t - 1) : pool[u] # NoToken

InsertToken(pool, t, a) ==
    [pool EXCEPT ![t] = [account |-> a, status |-> "ACTIVE"]]

RemoveToken(pool, t) == [pool EXCEPT ![t] = NoToken]
=============================================================================
