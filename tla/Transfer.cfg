\* A transcript and a side file, two lines written meanwhile, two failures and
\* two deaths of the app.
CONSTANTS
    NFiles = 2
    MaxWrites = 2
    MaxFail = 2
    MaxCrash = 2
SPECIFICATION Spec
CHECK_DEADLOCK FALSE
INVARIANTS
    NeverLost
    FailedIsClean
    UndoneIsBack
    UndoAccepted
