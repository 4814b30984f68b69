\* A proactive turn with one output; two turns with cards: what was left is released.
SPECIFICATION MCFairSpec
CONSTANTS
  text = text
  edit = edit
  note = note
  plain = plain
  carded = carded
  later = later
  a = a
  c1 = c1
  c2 = c2
  sender = sender
  e1 = e1
  e2 = e2
  Rows = {text}
  Turns = {plain, carded, later}
  TurnOf <- MCTurnOf
  UploadRows = {text}
  Calls = {c1}
  Instances = {a}
  InstanceOf <- MCInstanceOf
  Owners = {sender}
  OwnerOf <- MCOwnerOf
  NoOwner = NoOwner
  NoRow = NoRow
  MaxToken = 2
  MutationRows = {}
  ProactiveTurns = {plain}
  CardTurns = {carded, later}
  Execs = {e1, e2}
  NoExec = NoExec
  NoTurn = NoTurn
  Scenes <- MCLiveScenes
PROPERTIES
  AbandonedTurnIsReleased
  WaitingTurnIsReleased
  LapsedIsFencedByNextStart
CHECK_DEADLOCK FALSE
