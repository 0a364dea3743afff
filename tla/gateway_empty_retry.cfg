SPECIFICATION Spec
CONSTANTS
  MaxTokens = 2
  Accounts = {acc1}
  NoToken = NoToken
  NoAccount = NoAccount
  Users = {u}
  Replies = {a}
  Blank = Blank
  Thinking = Thinking
  Empty = Empty
  WindowK = 8
  Requests = {r1}
  MaxAttempts = 2
  MaxTurns = 2
  MaxChats = 2
  MaxLog = 4
  MaxLocks = 2
  Faults = {"empty"}
INVARIANTS
  FreshChatGetsHistory
