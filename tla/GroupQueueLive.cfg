\* Two chats compete for one slot: parked work is started.
SPECIFICATION MCFairSpec
CONSTANTS
  c1 = c1
  c2 = c2
  h1 = h1
  h2 = h2
  lane = lane
  hlane = hlane
  f1 = f1
  f2 = f2
  host = host
  turn = turn
  recovery = recovery
  Chats = {c1, c2}
  Lanes = {}
  Agents = {}
  Folder <- MCFolder
  Containers = {f1, f2}
  Tasks = {turn, recovery}
  Scheduled = {turn}
  Recovery = recovery
  MaxRetries = 1
  MaxLimit = 2
  MaxPauses = 2
  Scenes <- MCLiveScenes
PROPERTIES
  ParkedWorkStarts
CHECK_DEADLOCK FALSE
