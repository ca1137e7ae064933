\* A destination three hops away and a budget of two probes: discovery
\* must end UNKNOWN, with the SYN that started it held.
SPECIFICATION Spec
CONSTANTS
    Dst = {d1}
    LPorts = {p1}
    RPorts = {r1}
    r2 = r2
    Puppet = pp
    Hacks = {}
    DecoyVerdicts <- MC_VerdictsTTL
    PortConf <- MC_PortHeavy
    HackFreq <- MC_Freq1
    Hops <- MC_Hops3
    max_sex_track = 1
    max_ttl_probe = 2
    STARTING_ARB_TTL = 46
    HostTTL = 64
    MaxTunnel = 1
    MaxNetwork = 0
VIEW View
PROPERTY HeldSynsReleased
