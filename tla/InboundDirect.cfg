\* The first message of a direct chat that nobody registered; nothing fails.
SPECIFICATION InboundFairSpec
CONSTANTS
  Last = 8
  History = 1
  Commands = {2, 6, 7, 8}
  Web = {}
  MaxTries = 1
  Events = {2, 3, 4, 5, 6, 7, 8}
  Slash = {2, 5}
  Known = {2}
  Bare = {6}
  Unwanted = {7}
  Direct = {8}
  Scenes <- MCDirectScenes
PROPERTY FirstMessageIsAdmitted
CHECK_DEADLOCK FALSE
