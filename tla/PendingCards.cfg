\* Two requests of one session raised at once, the second one patient, a caller
\* answering one of them and the monitor refreshing.
SPECIFICATION FairCardsSpec
CONSTANTS
  r1 = r1
  r2 = r2
  r3 = r3
  p1 = p1
  p2 = p2
  p3 = p3
  w1 = w1
  s1 = s1
  s2 = s2
  h1 = h1
  Nobody = Nobody
  NoId = NoId
  Raisers = {r1, r2}
  Responders = {p1}
  Withdrawers = {}
  Sessions = {s1}
  HostIds = {}
  FinishedCap = 2
  Home <- MCHome
  Wanted <- MCWanted
  Dangerous = {}
  Allows = {p1}
  Trusted = {}
  Malformed = {}
  Named = {}
  Patient = {r2}
  Reason <- MCReason
INVARIANTS
  NoSilentCard
PROPERTIES
  EndedIsPublished
  CardsConverge
CHECK_DEADLOCK FALSE
