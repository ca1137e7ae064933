\* Progress and refinement of TTL bruteforce, progress of the cycle: one
\* destination two hops away, a budget of three probes (the first expires,
\* the second and third arrive, their SYN/ACKs in either order), one
\* segment from the host.
SPECIFICATION Spec
CONSTANTS
    Dst = {d1}
    LPorts = {p1}
    RPorts = {r1}
    r2 = r2
    Puppet = pp
    Hacks = {}
    DecoyVerdicts <- MC_VerdictsTTL
    PortConf <- MC_PortHeavy
    HackFreq <- MC_Freq1
    Hops <- MC_Hops2
    max_sex_track = 1
    max_ttl_probe = 3
    STARTING_ARB_TTL = 46
    HostTTL = 64
    MaxTunnel = 1
    MaxNetwork = 0
VIEW View
PROPERTIES
    DiscoveryTerminates
    CycleCompletes
    DiscoveryRefined
