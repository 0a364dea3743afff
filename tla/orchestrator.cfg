SPECIFICATION Spec
CONSTANTS
  WindowK = 2
  NoText = NoText
  Role <- MCRole
  CallsIn <- MCCalls
  Size <- MCSize
  Stub = "stub"
  Total = 5
  ToolClip = 4
  OldTextClip = 2
  RecentTurns = 3
  MinRecent = 2
  Requests = {r1, r2}
  AccountNames = {acc1, acc2}
  Inputs <- MCInputs
  Plannable <- MCPlannable
  Secrets <- MCSecrets
  Answer = "answer"
  MaxTokens = 2
  MaxChats = 2
  MaxLog = 3
  Faults = {"open", "send", "empty", "leave", "delete", "prune", "restart"}
SYMMETRY Symmetry
INVARIANTS
  OrchestratorTypeOK
  SentByItsAccount
  FinalUserMessageSent
  BudgetKept
  OverrunMeansUnanswered
  OwnWordsOnly
PROPERTIES
  OneChatPerConversation
