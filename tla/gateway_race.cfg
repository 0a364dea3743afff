SPECIFICATION Spec
CONSTANTS
  MaxTokens = 1
  Accounts = {acc1}
  NoToken = NoToken
  NoAccount = NoAccount
  Users = {u}
  Replies = {a}
  Blank = Blank
  Thinking = Thinking
  Empty = Empty
  WindowK = 1
  Requests = {r1, r2}
  MaxAttempts = 2
  MaxTurns = 1
  MaxChats = 2
  MaxLog = 4
  MaxLocks = 2
  Faults = {"create", "limited", "broken", "empty", "abort"}
SYMMETRY Symmetry
INVARIANTS
  TypeOK
  ParentExists
  LocksTracked
  IInv
