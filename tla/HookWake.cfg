\* Two listeners, one of them torn, and a process that is resumed by another:
\* liveness of the relay of one message, and what an end leaves behind.
SPECIFICATION FairSpec
CONSTANTS
  w1 = w1
  w2 = w2
  NoPoll = NoPoll
  NoTurn = NoTurn
  MaxMessages = 1
  Privileged = {1}
  Polls = {w1, w2}
  Torn = {w1}
  QueueCap = 2
  Fits = 1
  Aging = {}
  ModeSwitches = FALSE
  HookTimesOut = FALSE
  MaxTurns = 2
  MaxProcesses = 2
INVARIANTS
  NothingOutlives
PROPERTIES
  QueueDrains
CHECK_DEADLOCK FALSE
