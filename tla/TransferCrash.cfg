\* A transcript, and one death of the app.
SPECIFICATION Spec
CONSTANTS
    NFiles = 1
    MaxWrites = 0
    MaxFail = 0
    MaxCrash = 1
CHECK_DEADLOCK FALSE
INVARIANTS
    UndoPutsBack
