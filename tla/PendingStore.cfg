\* Two requests in two sessions, one of them dangerous, both bringing the same
\* host id; three callers; one withdrawal.  A cap of one remembered id makes ids
\* fall out of memory while their publication is under way.
SPECIFICATION Spec
CONSTANTS
  r1 = r1
  r2 = r2
  r3 = r3
  p1 = p1
  p2 = p2
  p3 = p3
  w1 = w1
  s1 = s1
  s2 = s2
  h1 = h1
  Nobody = Nobody
  NoId = NoId
  Raisers = {r1, r2}
  Responders = {p1, p2}
  Withdrawers = {w1}
  Sessions = {s1, s2}
  HostIds = {h1}
  FinishedCap = 1
  Home <- MCHome
  Wanted <- MCWanted
  Dangerous = {r1}
  Allows = {p1, p2}
  Trusted = {p1}
  Malformed = {}
  Named = {p2}
  Patient = {}
  Reason <- MCReason
INVARIANTS
  ItemsKept
  AnswerStands
  LateAnswerIsConflict
  PublishedOnce
PROPERTIES
  Implements
CHECK_DEADLOCK FALSE
