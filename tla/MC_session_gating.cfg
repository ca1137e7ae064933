\* Two connections to a destination one hop away and a session table with
\* room for both: the second connection's SYN may reach the queue in the
\* same cycle as the SYN/ACK that answers the first connection's probe,
\* and the host may close a connection and send on it again.
SPECIFICATION Spec
CONSTANTS
    Dst = {d1}
    LPorts = {p1, p2}
    RPorts = {r1}
    r2 = r2
    Puppet = pp
    Hacks = {h1}
    DecoyVerdicts <- MC_VerdictsNoScramble
    PortConf <- MC_PortHeavy
    HackFreq <- MC_Freq1
    Hops <- MC_Hops1
    max_sex_track = 2
    max_ttl_probe = 1
    STARTING_ARB_TTL = 46
    HostTTL = 64
    MaxTunnel = 3
    MaxNetwork = 0
VIEW View
PROPERTY
    SessionGatesHacks
