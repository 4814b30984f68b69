\* Prompts, commands and follow-ups, faults and restarts.
SPECIFICATION MCFairSpec
CONSTANTS
  Last = 12
  History = 1
  Commands = {2, 6, 7, 8, 11}
  Web = {9, 10, 11, 12}
  MaxTries = 1
  Scenes <- MCScenes
INVARIANTS
  CursorTypeOK
  NoneForgotten
  CommittedIsHandled
  ReceiptsTracked
  QuietIsCommitted
PROPERTIES
  
  RewindsToCommitted
  EveryMessageIsHandled
CHECK_DEADLOCK FALSE
