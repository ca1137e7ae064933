\* Plugin loading followed by one hacked packet: inject_hack_in_queue's
\* copy of the pool is destroyed when the call returns.
SPECIFICATION Spec
CONSTANTS
    MAXPLUGINS = 3
    MaxLines = 2
    MaxCopies = 1
    Files <- MC_Files
CHECK_DEADLOCK FALSE
INVARIANT
    PoolPluginsLoaded
