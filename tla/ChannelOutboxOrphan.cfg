\* Expected to fail: a process that is back before the lease lapses never fences.
SPECIFICATION OutboxFairSpec
CONSTANTS
  text = text
  file = file
  t1 = t1
  a = a
  b = b
  c1 = c1
  c2 = c2
  sender = sender
  Rows = {text}
  Turns = {t1}
  TurnOf <- MCTurnOf
  UploadRows = {}
  Calls = {c1, c2}
  Instances = {a, b}
  InstanceOf <- MCInstanceOf
  Owners = {sender}
  OwnerOf <- MCOwnerOf
  NoOwner = NoOwner
  NoRow = NoRow
  MaxToken = 3
PROPERTIES
  OrphanedSendIsFenced
CHECK_DEADLOCK FALSE
