\* One segment from the host to a remote port configured NONE.
SPECIFICATION Spec
CONSTANTS
    Dst = {d1}
    LPorts = {p1}
    RPorts = {r1}
    r2 = r2
    Puppet = pp
    Hacks = {}
    DecoyVerdicts <- MC_VerdictsTTL
    PortConf <- MC_PortNone
    HackFreq <- MC_Freq1
    Hops <- MC_Hops2
    max_sex_track = 1
    max_ttl_probe = 2
    STARTING_ARB_TTL = 46
    HostTTL = 64
    MaxTunnel = 1
    MaxNetwork = 0
VIEW View
PROPERTY CycleCompletes
