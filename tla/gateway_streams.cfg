SPECIFICATION Spec
CONSTANTS
  Pieces <- MCPieces
  MaxLines = 4
INVARIANTS
  StreamsTypeOK
  ThinkingKeptApart
  BlocksWellFormed
  FailureIsNotAnEnd
  CallsAreTheAnswers
  OpenAITurnResumes
  StreamedIsCollected
CHECK_DEADLOCK FALSE
