SPECIFICATION Spec
CONSTANTS
  Pieces <- MCPieces
  MaxLines = 2
INVARIANTS
  AnthropicTurnResumes
CHECK_DEADLOCK FALSE
