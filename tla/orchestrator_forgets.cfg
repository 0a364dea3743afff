SPECIFICATION Spec
CONSTANTS
  WindowK = 8
  NoText = NoText
  Role <- MCRole
  CallsIn <- MCCalls
  Size <- MCSize
  Stub = "stub"
  Total = 5
  ToolClip = 4
  OldTextClip = 2
  RecentTurns = 3
  MinRecent = 2
  Requests = {r1}
  AccountNames = {acc1, acc2}
  Inputs <- MCFirstTurns
  Plannable <- MCPlannable
  Secrets <- MCSecrets
  Answer = "answer"
  MaxTokens = 2
  MaxChats = 2
  MaxLog = 4
  Faults = {}
INVARIANTS
  FollowUpFindsItsChat
