\* One phone on the local network and one behind a tunnel, two codes of which
\* one may be unused, two devices, one restart.
CONSTANTS
    Phones = {home, away}
    Lan = {home}
    MaxCode = 2
    MaxDevice = 2
    MaxTok = 1
    MAX_ACTIVE_CODES = 1
    MAX_PENDING = 1
    MAX_FINGERPRINT_ATTEMPTS = 2
    MaxExtra = 1
    MaxRestart = 1
SPECIFICATION Spec
CHECK_DEADLOCK FALSE
INVARIANTS
    OneTokenPerCode
    ContestedNeverPairs
PROPERTIES
    RevokedStays
    RunsEnd
