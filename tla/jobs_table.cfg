\* Two pipelines of up to two commands, with timeouts and without.
CONSTANTS
    MAXJOBS = 2
    MaxCmds = 2
    MaxLaunches = 2
    WithHelper = FALSE
    WithTimeout = TRUE
SPECIFICATION Spec
CHECK_DEADLOCK FALSE
INVARIANTS
    TypeOK
    LiveIsTracked
    TerminalOwner
    DoneIsExact
    DoneIsPending
