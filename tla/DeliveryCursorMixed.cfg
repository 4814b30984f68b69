\* A prompt and a command in one batch, without a runner.
SPECIFICATION MCSpec
CONSTANTS
  Last = 12
  History = 1
  Commands = {2, 6, 7, 8, 11}
  Web = {9, 10, 11, 12}
  MaxTries = 1
  Scenes <- MCMixedScenes
INVARIANT NoneForgotten
CHECK_DEADLOCK FALSE
