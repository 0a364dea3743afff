SPECIFICATION PipelineSpec
CONSTANTS
  ToolIndices = {0, 1, 2, 3, 4}
  MaxEvents = 14
  Chunks <- MCChunks
  MaxChunks = 4
INVARIANTS
  TypeOK
  OneBlockOpen
  FinishedIsClosed
  FrontEndsAgree
  ChunksInOrder
  ValidWhenCallsComeFirst
  NothingInvented
  CallsMatchFullText
  NothingLost
PROPERTIES
  Spec
