SPECIFICATION Spec
CONSTANTS
  MaxTokens = 2
  Accounts = {acc1, acc2}
  NoToken = NoToken
  NoAccount = NoAccount
  Users = {u}
  Replies = {a}
  Blank = Blank
  Thinking = Thinking
  Empty = Empty
  WindowK = 8
  Requests = {r1, r2}
  MaxAttempts = 2
  MaxTurns = 1
  MaxChats = 3
  MaxLog = 2
  MaxLocks = 2
  Faults = {"limited", "empty"}
SYMMETRY Symmetry
INVARIANTS
  ChatBoundToOneToken
  SentByOwner
