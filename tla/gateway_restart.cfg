SPECIFICATION Spec
CONSTANTS
  MaxTokens = 1
  Accounts = {acc1}
  NoToken = NoToken
  NoAccount = NoAccount
  Users = {u, v}
  Replies = {a}
  Blank = Blank
  Thinking = Thinking
  Empty = Empty
  WindowK = 1
  Requests = {r1}
  MaxAttempts = 1
  MaxTurns = 2
  MaxChats = 2
  MaxLog = 2
  MaxLocks = 2
  Faults = {"restart", "ttl", "delete", "upload"}
SYMMETRY Symmetry
INVARIANTS
  NoForeignChat
