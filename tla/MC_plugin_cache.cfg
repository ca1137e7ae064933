\* One plugin's cache: two packet keys, three addresses for records, a
\* timeout of 2 seconds and a clock that runs for 4 timeouts, so that the
\* generations rotate twice and a record can be freed by manage().
SPECIFICATION Spec
CONSTANTS
    a1 = a1
    a2 = a2
    a3 = a3
    k1 = k1
    k2 = k2
    Keys <- MC_Keys
    Addrs <- MC_Addrs
    timeout_len = 2
    MaxClock = 8
SYMMETRY Symmetry
INVARIANTS
    TypeOK
    NoAliasing
    TwoGenerations
PROPERTY
    CacheRetention
