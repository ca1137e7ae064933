\* TTL bruteforce of one destination two hops away, with a budget of two
\* probes: the first expires, the second arrives.  Two segments from the
\* host (a SYN and its retransmission, or a SYN and a later segment), to
\* a hacked remote port or to one configured NONE; one plugin places a
\* decoy before or after each segment it hacks, while the distance is
\* still being found or once it is known.
SPECIFICATION Spec
CONSTANTS
    Dst = {d1}
    LPorts = {p1}
    RPorts = {r1, r2}
    r2 = r2
    Puppet = pp
    Hacks = {h1}
    DecoyVerdicts <- MC_VerdictsTTL
    PortConf <- MC_PortSomeNone
    HackFreq <- MC_Freq1
    Hops <- MC_Hops2
    max_sex_track = 1
    max_ttl_probe = 2
    STARTING_ARB_TTL = 46
    HostTTL = 64
    MaxTunnel = 2
    MaxNetwork = 0
VIEW View
INVARIANTS
    TypeOK
    KnownDistanceSound
    HeldOnlyWhileUnknown
    DecoyOrder
