\* Expected to fail: a message whose retry timer a mutation disarms.
SPECIFICATION MCSpec
CONSTANTS
  c1 = c1
  c2 = c2
  h1 = h1
  h2 = h2
  lane = lane
  hlane = hlane
  f1 = f1
  f2 = f2
  host = host
  turn = turn
  recovery = recovery
  Chats = {h1, h2}
  Lanes = {}
  Agents = {}
  Folder <- MCFolder
  Containers = {}
  Tasks = {turn, recovery}
  Scheduled = {turn}
  Recovery = recovery
  MaxRetries = 1
  MaxLimit = 2
  MaxPauses = 2
  Scenes <- MCDroppedScenes
PROPERTIES
  MutationDropsNothing
CHECK_DEADLOCK FALSE
