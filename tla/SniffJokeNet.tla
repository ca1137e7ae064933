---------------------------- MODULE SniffJokeNet ----------------------------
(***************************************************************************)
(* TCPTrack between the local host and the Internet.  The host's tunnel    *)
(* hands TCP segments of its connections to writepacket; remote peers send *)
(* their own segments; every packet readpacket emits travels towards its   *)
(* destination, Hops[d] routers away: a TCP packet whose TTL is below that *)
(* distance expires and the router answers with an ICMP time exceeded that *)
(* quotes it, a probe that arrives is answered by a SYN/ACK to the puppet  *)
(* port, a real SYN by a SYN/ACK.  Answers travel in `net`, a set: they    *)
(* may be delayed, reordered or lost.  The poll loop interleaves these     *)
(* I/O calls, the passing of time and start/stop from the administrator   *)
(* with whole classification cycles.                                       *)
(***************************************************************************)
EXTENDS TCPTrack

CONSTANTS
    Hops,         \* Dst -> the number of hops to the destination
    HostTTL,      \* the TTL the host's stack gives its packets
    MaxTunnel,    \* bound on the segments the host sends
    MaxNetwork    \* bound on the segments remote peers send on their own

VARIABLES
    net,          \* answers travelling back to us
    tunnelSent,   \* segments the host has sent
    netSent,      \* segments remote peers have sent on their own
    sentIds       \* ids of the tunnel packets emitted so far (history)

env_vars == <<net, tunnelSent, netSent, sentIds>>
vars == <<track_vars, env_vars>>

Kinds == {"SYN", "SYNACK", "FIN", "DATA", "TIMEEXC", "ECHO"}

MkPkt(src, proto, kind, d, lp, rp, ttl, n, n2, tag) ==
    [id |-> 0, src |-> src, proto |-> proto, kind |-> kind, dst |-> d,
     lport |-> lp, rport |-> rp, status |-> "YOUNG", wtf |-> "INNOCENT",
     ttl |-> ttl, n |-> n, n2 |-> n2, pos |-> "NONE", anchor |-> tag]

\* What the Internet answers to an emitted packet p.  A time exceeded
\* quotes p's ip->id and tcp->seq: for a probe they recover its number,
\* for any other packet two numbers that do not agree.
Replies(p) ==
    LET expires == p.proto = "TCP" /\ p.ttl < Hops[p.dst]
    IN  CASE p.src = "NETWORK" \/ p.proto # "TCP" -> {}
          [] expires /\ p.src = "TTLBFORCE" ->
                {MkPkt("NETWORK", "ICMP", "TIMEEXC", p.dst, p.lport, p.rport, 0, p.n, p.n, p.id)}
          [] expires ->
                {MkPkt("NETWORK", "ICMP", "TIMEEXC", p.dst, p.lport, p.rport, 0, 0, 1, p.id)}
          [] p.src = "TTLBFORCE" \/ (p.src = "TUNNEL" /\ p.kind = "SYN") ->
                {MkPkt("NETWORK", "TCP", "SYNACK", p.dst, p.lport, p.rport, 0, p.n, p.n, p.id)}
          [] OTHER -> {}

-----------------------------------------------------------------------------
\* The host's stack sends a segment of one of its connections.
TunnelWrite ==
    /\ tunnelSent < MaxTunnel
    /\ \E d \in Dst, lp \in LPorts, rp \in RPorts, k \in {"SYN", "DATA", "FIN"} :
          writepacket(MkPkt("TUNNEL", "TCP", k, d, lp, rp, HostTTL, 0, 0, 0))
    /\ tunnelSent' = tunnelSent + 1
    /\ UNCHANGED <<net, netSent, sentIds>>

\* A remote peer sends a segment or an ICMP echo on its own, or a router
\* a time exceeded for a segment that is not a probe (sent before the
\* engine ran, or by another program).
PeerWrite ==
    /\ netSent < MaxNetwork
    /\ \E d \in Dst, lp \in LPorts, rp \in RPorts :
          \/ \E k \in {"DATA", "FIN"} :
                writepacket(MkPkt("NETWORK", "TCP", k, d, lp, rp, 0, 0, 0, 0))
          \/ writepacket(MkPkt("NETWORK", "ICMP", "ECHO", d, lp, rp, 0, 0, 0, 0))
          \/ writepacket(MkPkt("NETWORK", "ICMP", "TIMEEXC", d, lp, rp, 0, 0, 1, 0))
    /\ netSent' = netSent + 1
    /\ UNCHANGED <<net, tunnelSent, sentIds>>

\* An answer reaches us.
Deliver ==
    \E r \in net :
        /\ writepacket(r)
        /\ net' = net \ {r}
        /\ UNCHANGED <<tunnelSent, netSent, sentIds>>

\* An answer is lost.
Lose ==
    \E r \in net :
        /\ net' = net \ {r}
        /\ UNCHANGED <<track_vars, tunnelSent, netSent, sentIds>>

\* Time passes beyond a destination's next probe time.
Tick ==
    /\ pc = "idle"
    /\ \E d \in DOMAIN ttlfocus_map :
          /\ ~ttlfocus_map[d].probe_ready
          /\ ttlfocus_map' = [ttlfocus_map EXCEPT ![d].probe_ready = TRUE]
    /\ UNCHANGED <<p_queue, passed, youngpacketspresent, sex_map, sj_run, pc, pkt,
                   nextId, emitted, env_vars>>

\* The administrator's start / stop.
StartStop ==
    /\ pc = "idle"
    /\ sj_run' = ~sj_run
    /\ UNCHANGED <<p_queue, passed, youngpacketspresent, sex_map, ttlfocus_map, pc,
                   pkt, nextId, emitted, env_vars>>

\* readpacket, and the packet goes out on the wire.
Emit ==
    /\ readpacket
    /\ net' = net \cup Replies(emitted')
    /\ sentIds' = IF emitted'.src = "TUNNEL" THEN sentIds \cup {emitted'.id} ELSE sentIds
    /\ UNCHANGED <<tunnelSent, netSent>>

Classify == CycleStep /\ UNCHANGED env_vars

\* Between two cycles the get() cursor is dead: every traversal, and
\* readpacket, restarts it.  States that differ only there are the same.
View == <<p_queue, IF pc = "idle" THEN {} ELSE passed, youngpacketspresent, sex_map,
          ttlfocus_map, sj_run, pc, pkt, nextId, emitted, env_vars>>

Init ==
    /\ TrackInit
    /\ net = {}
    /\ tunnelSent = 0
    /\ netSent = 0
    /\ sentIds = {}

Next ==
    \/ Classify
    \/ TunnelWrite \/ PeerWrite \/ Deliver \/ Lose
    \/ Tick \/ StartStop \/ Emit

\* The poll loop runs a cycle on every wake-up and always finishes it
\* (spec section 5).  readpacket and the clock are only reached between
\* two cycles, so they are enabled intermittently: the loop calls
\* readpacket whenever the wire is writable, which recurs, and the clock
\* keeps advancing, hence strong fairness for both.  The network, the host
\* and the administrator owe nothing.
Spec == Init /\ [][Next]_vars /\ WF_vars(Classify) /\ SF_vars(Emit) /\ SF_vars(Tick)

-----------------------------------------------------------------------------
(* Properties.                                                             *)

PacketType ==
    [id : Nat, src : Sources, proto : {"TCP", "ICMP"}, kind : Kinds, dst : Dst,
     lport : LPorts \cup {Puppet}, rport : RPorts, status : Statuses,
     wtf : Verdicts, ttl : Byte, n : Byte, n2 : Byte,
     pos : Positions \cup {"NONE"}, anchor : Nat]

FocusType ==
    [status : TTLStatus, sent_probe : 0..max_ttl_probe, expiring_ttl : Byte, min_working_ttl : Byte, probe_ready : BOOLEAN]

TypeOK ==
    /\ \A t \in Tiers : \A i \in DOMAIN p_queue[t] : p_queue[t][i] \in PacketType
    /\ passed \subseteq Nat
    /\ youngpacketspresent \in BOOLEAN
    /\ DOMAIN sex_map \subseteq Dst \X LPorts \X RPorts
    /\ \A k \in DOMAIN sex_map : sex_map[k] \in [packet_number : Nat, shutdown : BOOLEAN]
    /\ DOMAIN ttlfocus_map \subseteq Dst
    /\ \A d \in DOMAIN ttlfocus_map : ttlfocus_map[d] \in FocusType
    /\ sj_run \in BOOLEAN
    /\ pc \in {"idle"} \cup DOMAIN Filter
    /\ pkt \in {NoPkt} \cup QueueIds(p_queue)
    /\ nextId \in Nat
    /\ emitted \in {NoPacket} \cup PacketType
    /\ net \subseteq PacketType
    /\ tunnelSent \in 0..MaxTunnel /\ netSent \in 0..MaxNetwork
    /\ sentIds \subseteq Nat

\* The packets in the queue, and the ids of the held ones.
Queued == Range(Order(p_queue))
HeldIds == {p.id : p \in {q \in Queued : q.status = "KEEP"}}

\* Once a destination's distance is KNOWN (analyze_incoming_synack), the
\* minimum working TTL is one at which packets do reach it, no larger than
\* the probes sent, and the expiring TTL is the one just below it: late,
\* lost and reordered time-exceeded messages and SYN/ACKs cannot break it.
KnownDistanceSound ==
    \A d \in DOMAIN ttlfocus_map :
        LET f == ttlfocus_map[d] IN
        f.status = "KNOWN" =>
            /\ Hops[d] <= f.min_working_ttl
            /\ f.min_working_ttl <= f.sent_probe
            /\ f.expiring_ttl = f.min_working_ttl - 1

\* A SYN is held (KEEP) only while its destination's distance is unknown:
\* when analyze_incoming_synack makes it KNOWN, mark_real_syn_packets_SEND
\* has released every held SYN towards it, retransmissions included.
HeldOnlyWhileUnknown ==
    \A p \in Queued : p.status = "KEEP" => ttlfocus_map[p.dst].status # "KNOWN"

\* inject_hack_in_queue places an ANTICIPATION packet before the packet it
\* was made from and a POSTICIPATION one after it; readpacket must emit them
\* on the wire in that order.
DecoyOrder ==
    emitted # NoPacket /\ emitted.src = "LOCAL" =>
        /\ emitted.pos = "ANTICIPATION"  => emitted.anchor \notin sentIds
        /\ emitted.pos = "POSTICIPATION" => emitted.anchor \in sentIds

\* The session table never grows past runcopy->max_sex_track
\* (init_sessiontrack clears it when full).
SessionCapacity == Cardinality(DOMAIN sex_map) <= max_sex_track

\* A connection's session survives its first closing flag: clear_session
\* only marks it shutdown, because FIN-ACK and RST-ACK come from both
\* hosts (comment in clear_session), and erases it at the second one.  A
\* session that was not shutting down leaves the table only in the
\* capacity clear of init_sessiontrack, which makes room for a new one.
SessionCloseTwoPhase ==
    [][\A k \in DOMAIN sex_map \ DOMAIN sex_map' :
          \/ sex_map[k].shutdown
          \/ DOMAIN sex_map' # {} /\ DOMAIN sex_map \cap DOMAIN sex_map' = {}]_vars

\* TTL bruteforce of a destination ends: the held SYN keeps triggering
\* probes (analyze_packets_queue, enque_ttl_probe) until a SYN/ACK makes
\* the distance KNOWN or the probe budget makes it UNKNOWN, whatever the
\* network loses.
Bruteforcing(d) == d \in DOMAIN ttlfocus_map /\ ttlfocus_map[d].status = "BRUTALFORCE"

DiscoveryTerminates == \A d \in Dst : Bruteforcing(d) ~> ~Bruteforcing(d)

\* Every classification cycle ends: each loop of analyze_packets_queue
\* advances the shared cursor past the packet it handled, so the poll loop
\* gets back to its I/O.
CycleCompletes == pc # "idle" ~> pc = "idle"

\* A held SYN waits only for the end of discovery (spec 4.3, 4.4 step 5):
\* every SYN manage_outgoing_packets holds is eventually released.
HeldSynsReleased == HeldIds # {} ~> HeldIds = {}

\* A step in which readpacket emits a packet (ids are never reused).
EmittedNow == emitted' # emitted

\* last_pkt_fix picks a TTL that does what the packet is for (comment at
\* its head): a PRESCRIPTION decoy expires before the destination, and the
\* host's own TCP segments, at or above the minimum working TTL, reach it.
TtlChoiceSound ==
    [][EmittedNow /\ sj_run =>
         /\ emitted'.wtf = "PRESCRIPTION" => emitted'.ttl < Hops[emitted'.dst]
         /\ emitted'.src = "TUNNEL" /\ emitted'.proto = "TCP"
              => emitted'.ttl >= Hops[emitted'.dst]]_vars

\* The bruteforce's traffic stays within discovery: a probe enque_ttl_probe
\* queued is emitted only while its destination is still being
\* bruteforced ("probes are never sent once status != BRUTALFORCE", spec
\* TTL Focus invariant), and a SYN/ACK answering a probe is consumed by
\* analyze_incoming_synack, never handed to the host.
ProbeTrafficConfined ==
    [][EmittedNow =>
         /\ emitted'.src = "TTLBFORCE" => Bruteforcing(emitted'.dst)
         /\ emitted'.src = "NETWORK" => emitted'.lport # Puppet]_vars

\* A step in which readpacket emits a host SYN whose session is not in
\* sex_map.
UntrackedSynSent ==
    EmittedNow /\ emitted'.src = "TUNNEL" /\ emitted'.kind = "SYN"
    /\ Key(emitted') \notin DOMAIN sex_map

\* A step that queues a plugin packet for a connection whose session is
\* shutting down.
HackForClosingSession ==
    \E k \in DOMAIN sex_map :
        /\ sex_map[k].shutdown
        /\ \E id \in QueueIds(p_queue') \ QueueIds(p_queue) :
               PktOf(p_queue', id).src = "LOCAL" /\ Key(PktOf(p_queue', id)) = k

\* Mangling follows the session table.  Every SYN the host sends opens its
\* session: manage_outgoing_packets runs init_sessiontrack on it (spec 4.2,
\* "created on first observed outbound SYN").  And "a closed or shutdown
\* session don't require to be hacked" (manage_outgoing_packets): no
\* plugin packet is made for a connection whose session is shutting down.
SessionGatesHacks == [][~UntrackedSynSent /\ ~HackForClosingSession]_vars

\* The TTL focus table seen as the abstract discovery of TTLDiscovery: its
\* status, and the minimum working TTL as the distance.
Discovery == INSTANCE TTLDiscovery WITH
    focus <- [d \in DOMAIN ttlfocus_map |->
                 [status |-> ttlfocus_map[d].status,
                  dist   |-> ttlfocus_map[d].min_working_ttl]]

\* init_ttlfocus, analyze_ttl_stats and analyze_incoming_synack implement the
\* promise of discovery (spec 3, "min_working_ttl is monotonically
\* non-increasing"): a destination leaves BRUTALFORCE only for KNOWN or
\* UNKNOWN, never returns to it, and its minimum working TTL only goes down
\* and never below the real distance, whatever order the SYN/ACKs of the
\* probes arrive in.
DiscoveryRefined == Discovery!Spec

=============================================================================
