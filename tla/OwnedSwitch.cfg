\* One session with two messages; up to three of two switch requests, two
\* continues and one stop; one failure, or two where less is asked.
CONSTANTS
    m1 = m1
    m2 = m2
    Messages = {m1, m2}
    MaxSwitches = 2
    MaxProcs = 5
    MaxContinues = 2
    MaxFail = 2
    MaxRequests = 3
SPECIFICATION Spec
SYMMETRY MessageSymmetry
CONSTRAINT FewRequests
CHECK_DEADLOCK FALSE
INVARIANTS
    OneWriter
    CancelledStays
    RunsAtHome
PROPERTIES
    GivenOnce
