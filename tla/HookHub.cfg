\* Three messages for a queue of two, the second from a privileged sender; one
\* listener whose connection may break; hooks that may give up on their answer.
\* One turn at the desk and up to three woken ones.
SPECIFICATION Spec
CONSTANTS
  w1 = w1
  w2 = w2
  NoPoll = NoPoll
  NoTurn = NoTurn
  MaxMessages = 3
  Privileged = {2}
  Polls = {w1}
  Torn = {w1}
  QueueCap = 2
  Fits = 1
  Aging = {1}
  ModeSwitches = TRUE
  HookTimesOut = TRUE
  MaxTurns = 1
  MaxProcesses = 1
INVARIANTS
  TypeOK
  HandedInOrder
  BypassTakesPrivileged
CHECK_DEADLOCK FALSE
