SPECIFICATION FairSpec
CONSTANTS
  MaxTokens = 1
  Accounts = {acc1}
  NoToken = NoToken
  NoAccount = NoAccount
  Users = {u}
  Replies = {a}
  Blank = Blank
  Thinking = Thinking
  Empty = Empty
  WindowK = 1
  Requests = {r1, r2, r3}
  MaxAttempts = 1
  MaxTurns = 1
  MaxChats = 1
  MaxLog = 2
  MaxLocks = 3
  Faults = {"create", "limited", "broken", "empty", "abort"}
PROPERTIES
  EveryRequestAnswered
