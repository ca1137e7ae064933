\* A destination two hops away and a plugin that makes PRESCRIPTION decoys:
\* the host sends a second segment while the distance is being bruteforced,
\* and decoys are made once it is known.
SPECIFICATION Spec
CONSTANTS
    Dst = {d1}
    LPorts = {p1}
    RPorts = {r1}
    r2 = r2
    Puppet = pp
    Hacks = {h1}
    DecoyVerdicts <- MC_VerdictsTTL
    PortConf <- MC_PortHeavy
    HackFreq <- MC_Freq1
    Hops <- MC_Hops2
    max_sex_track = 1
    max_ttl_probe = 2
    STARTING_ARB_TTL = 46
    HostTTL = 64
    MaxTunnel = 2
    MaxNetwork = 0
VIEW View
PROPERTY TtlChoiceSound
