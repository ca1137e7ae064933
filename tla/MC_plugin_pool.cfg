\* Plugin loading: every enabler file of up to four lines over the five
\* kinds of line, and a listOfHacks of three slots, so that the limit of
\* MAXPLUGINS - 1 plugins is reached with lines left to read; two hacked
\* packets, each copying the pool.  The process exits after the
\* destructor, so the final state has no successor.
SPECIFICATION Spec
CONSTANTS
    MAXPLUGINS = 3
    MaxLines = 4
    MaxCopies = 2
    Files <- MC_Files
CHECK_DEADLOCK FALSE
INVARIANTS
    TypeOK
    PoolHoldsVerifiedPlugins
    HandlesReleasedAtExit
