\* A log of two events or three bytes, with events of one, two and four bytes
\* (more than the cap), and a stream, which nothing but the log
\* has an effect on.
SPECIFICATION FairSpec
CONSTANTS
  s1 = s1
  MaxEvents = 2
  MaxBytes = 3
  Sizes = {1, 2, 4}
  MaxAppends = 4
  Streams = {s1}
INVARIANTS
  TypeOK
  NoGap
PROPERTIES
  StreamsEnd
  EventsReach
CHECK_DEADLOCK FALSE
