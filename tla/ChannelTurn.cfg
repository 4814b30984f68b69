\* A turn with a text and a Feishu mutation; a turn with a card and a text.
SPECIFICATION MCSpec
CONSTANTS
  text = text
  edit = edit
  note = note
  plain = plain
  carded = carded
  later = later
  a = a
  c1 = c1
  c2 = c2
  sender = sender
  e1 = e1
  e2 = e2
  Rows = {text, edit, note}
  Turns = {plain, carded}
  TurnOf <- MCTurnOf
  UploadRows = {}
  Calls = {c1, c2}
  Instances = {a}
  InstanceOf <- MCInstanceOf
  Owners = {sender}
  OwnerOf <- MCOwnerOf
  NoOwner = NoOwner
  NoRow = NoRow
  MaxToken = 4
  MutationRows = {edit}
  ProactiveTurns = {}
  CardTurns = {carded}
  Execs = {e1, e2}
  NoExec = NoExec
  NoTurn = NoTurn
  Scenes <- MCSafetyScenes
SYMMETRY MCSymmetry
INVARIANTS
  TurnTypeOK
  CompletedMeansSettled
  OneCardPerTurn
  RecoveredTurnIsUnheld
PROPERTIES
  KnownEffectIsNotReplayed
  AnsweredIsNotRetried
  EndedTurnIsFinal
CHECK_DEADLOCK FALSE
