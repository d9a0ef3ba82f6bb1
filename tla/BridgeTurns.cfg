\* Two turns, the client of one may hang up, an interrupt of the other, and a
\* host that is replaced once.
SPECIFICATION Spec
CONSTANTS
  t1 = t1
  t2 = t2
  s1 = s1
  i1 = i1
  w1 = w1
  Nobody = Nobody
  Turns = {t1, t2}
  Steers = {}
  Interrupts = {i1}
  Switches = {}
  Names <- MCNames
  Leaving = {t2}
  Hasty = {}
  MaxActive = 2
  MaxHosts = 2
  PipeRoom = 2
INVARIANTS
  TypeOK
  OneTerminal
  HostDeathEndsOps
PROPERTIES
  NewHostUnharmed
CHECK_DEADLOCK FALSE
