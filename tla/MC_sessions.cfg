\* Sessions: two connections to a destination one hop away, found by one
\* probe, share a session table of capacity one; a remote peer may close,
\* or send on, either connection, so a session can see a closing flag
\* from both hosts.  No plugin: hacks do not touch the session table.
\* The two local ports are interchangeable model values.
SPECIFICATION Spec
CONSTANTS
    Dst = {d1}
    LPorts = {p1, p2}
    RPorts = {r1}
    r2 = r2
    Puppet = pp
    Hacks = {}
    DecoyVerdicts <- MC_VerdictsTTL
    PortConf <- MC_PortHeavy
    HackFreq <- MC_Freq1
    Hops <- MC_Hops1
    max_sex_track = 1
    max_ttl_probe = 1
    STARTING_ARB_TTL = 46
    HostTTL = 64
    MaxTunnel = 2
    MaxNetwork = 1
VIEW View
INVARIANTS
    SessionCapacity
PROPERTIES
    SessionCloseTwoPhase
SYMMETRY LPortSymmetry
