\* A destination one hop away: every probe is answered by a SYN/ACK, the
\* first one possibly before the next probe leaves.
SPECIFICATION Spec
CONSTANTS
    Dst = {d1}
    LPorts = {p1}
    RPorts = {r1}
    r2 = r2
    Puppet = pp
    Hacks = {}
    DecoyVerdicts <- MC_VerdictsTTL
    PortConf <- MC_PortHeavy
    HackFreq <- MC_Freq1
    Hops <- MC_Hops1
    max_sex_track = 1
    max_ttl_probe = 2
    STARTING_ARB_TTL = 46
    HostTTL = 64
    MaxTunnel = 1
    MaxNetwork = 0
VIEW View
PROPERTY ProbeTrafficConfined
