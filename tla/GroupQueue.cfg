\* Two folders and a limit; siblings; a lane; gates; overlapping mutations.
SPECIFICATION MCSpec
CONSTANTS
  c1 = c1
  c2 = c2
  h1 = h1
  h2 = h2
  lane = lane
  hlane = hlane
  f1 = f1
  f2 = f2
  host = host
  turn = turn
  recovery = recovery
  Chats = {c1, c2, h1, h2}
  Lanes = {lane, hlane}
  Agents = {lane, hlane}
  Folder <- MCFolder
  Containers = {f1, f2}
  Tasks = {turn, recovery}
  Scheduled = {turn}
  Recovery = recovery
  MaxRetries = 1
  MaxLimit = 2
  MaxPauses = 2
  Scenes <- MCSafetyScenes
INVARIANTS
  QueueTypeOK
  OneRunnerPerKey
  SlotsAreCounted
  TimerHasNoRunner
  NoLostWakeup
  QueuedTasksWaitUnstopped
PROPERTIES
  StartsWithinLimit
  StoppedStaysStopped
  GatesHold
  UnacknowledgedIsReplayed
CHECK_DEADLOCK FALSE
