SPECIFICATION FairSpec
CONSTANTS
  Name = {1, 2, 5}
  NameSpace = 4
  BufferSize = 2
  PipeSize = 1
  Second = 5
  FrameRate = 2
  Steps <- MCSteps
  MaxLines = 4
  None = None
INVARIANTS NoAnswerUnread FramesShowLog LeadInAndOut PoolsAgree
PROPERTIES SimulationEnds
CHECK_DEADLOCK FALSE
