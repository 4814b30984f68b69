\* Two processes share the database; both calls claim under one owner string,
\* so only the lease token separates them.
SPECIFICATION OutboxSpec
CONSTANTS
  text = text
  file = file
  t1 = t1
  a = a
  b = b
  c1 = c1
  c2 = c2
  sender = sender
  Rows = {text, file}
  Turns = {t1}
  TurnOf <- MCTurnOf
  UploadRows = {file}
  Calls = {c1, c2}
  Instances = {a, b}
  InstanceOf <- MCInstanceOf
  Owners = {sender}
  OwnerOf <- MCOwnerOf
  NoOwner = NoOwner
  NoRow = NoRow
  MaxToken = 4
INVARIANTS
  OutboxTypeOK
  ShownAtMostOnce
  ReplayableIsInvisible
  DeliveredIsShown
PROPERTIES
  LiveClaimNeverStolen
  VerdictIsFinal
  KeepsPromise
CHECK_DEADLOCK FALSE
