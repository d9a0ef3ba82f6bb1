\* One turn, a switch whose calls may time out, and a host that
\* is replaced once.
SPECIFICATION Spec
CONSTANTS
  t1 = t1
  t2 = t2
  s1 = s1
  i1 = i1
  w1 = w1
  Nobody = Nobody
  Turns = {t1}
  Steers = {}
  Interrupts = {}
  Switches = {w1}
  Names <- MCNames
  Leaving = {}
  Hasty = {w1}
  MaxActive = 2
  MaxHosts = 2
  PipeRoom = 1
INVARIANTS
  SwitchExcludesTurns
PROPERTIES
  ReopenedStays
  SwitchFinishes
CHECK_DEADLOCK FALSE
