SPECIFICATION OrderlySpec
CONSTANTS
  MaxTokens = 2
  Accounts = {acc1}
  NoToken = NoToken
  NoAccount = NoAccount
  Users = {u}
  Replies = {a}
  Blank = Blank
  Thinking = Thinking
  Empty = Empty
  WindowK = 8
  Requests = {r1, r2}
  MaxAttempts = 1
  MaxTurns = 2
  MaxChats = 2
  MaxLog = 6
  MaxLocks = 2
  Faults = {"create", "limited", "broken", "delete", "ttl", "restart", "upload"}
INVARIANTS
  NextParentIsOwnReply
PROPERTIES
  ImplementsStatelessChat
CHECK_DEADLOCK FALSE
