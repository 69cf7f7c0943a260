\* A job with a redirection helper is resumed.
CONSTANTS
    MAXJOBS = 1
    MaxCmds = 2
    MaxLaunches = 1
    WithHelper = TRUE
    WithTimeout = FALSE
SPECIFICATION Spec
CHECK_DEADLOCK FALSE
INVARIANTS
    LiveIsTracked
