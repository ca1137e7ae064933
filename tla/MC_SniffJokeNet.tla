--------------------------- MODULE MC_SniffJokeNet ---------------------------
(* Small instances of SniffJokeNet for TLC.                                 *)
EXTENDS SniffJokeNet

CONSTANTS r2   \* a remote port configured NONE

\* Every destination one hop away.
MC_Hops1 == [d \in Dst |-> 1]
\* Every destination two hops away.
MC_Hops2 == [d \in Dst |-> 2]
\* Every destination three hops away.
MC_Hops3 == [d \in Dst |-> 3]
\* Every remote port hacked at the heaviest level.
MC_PortHeavy == [r \in RPorts |-> "HEAVY"]
\* The remote port r2 configured NONE, the others HEAVY.
MC_PortSomeNone == [r \in RPorts |-> IF r = r2 THEN "NONE" ELSE "HEAVY"]
\* Every remote port configured NONE.
MC_PortNone == [r \in RPorts |-> "NONE"]
\* The hack plugins' frequency: the lowest non-zero one.
\* The verdicts of a plugin that supports both scrambles, when the TTL
\* scramble is available and when none is.
MC_VerdictsTTL == Plugin_pktRandomDamage({"TTL"}, {"TTL", "MALFORMED"})
MC_VerdictsNoScramble == Plugin_pktRandomDamage({}, {"TTL", "MALFORMED"})

MC_Freq1 == [h \in Hacks |-> 1]

\* The local ports are model values nothing in the engine tells apart: no
\* port is configured, chosen or compared with another except for equality.
LPortSymmetry == Permutations(LPorts)
=============================================================================
