------------------------------ MODULE TCPTrack ------------------------------
(***************************************************************************)
(* The packet-mangling engine of src/src/TCPTrack.cc: the queue of         *)
(* in-flight packets, the session table sex_map, the TTL focus table       *)
(* ttlfocus_map, the per-cycle classification analyze_packets_queue, TTL   *)
(* bruteforce probing, hack injection and the final fix-up last_pkt_fix.   *)
(*                                                                         *)
(* analyze_packets_queue runs its five loops one packet per step: `pc` is  *)
(* the loop being run, `pkt` the packet the loop holds (NoPkt = NULL) and  *)
(* `passed` the queue's shared get() cursor.  writepacket and readpacket   *)
(* are called by the poll loop between two cycles (pc = "idle").           *)
(*                                                                         *)
(* A packet is a record.  For a packet from the network, dst is the remote *)
(* source address, lport the destination port and rport the source port;   *)
(* for every other packet dst is the destination address, lport the        *)
(* source port and rport the destination port.  So <<dst, lport, rport>>   *)
(* is the SessionTrackKey of both directions.  n and n2 carry the probe    *)
(* number a packet encodes: the TTL of a probe, the number recovered from  *)
(* a SYN/ACK's ack_seq, and for an ICMP time-exceeded the numbers          *)
(* recovered from the quoted ip->id and tcp->seq.                          *)
(***************************************************************************)
EXTENDS Integers, FiniteSets, Sequences, TLC, SequencesExt, PacketQueue, HackSelection

CONSTANTS
    Dst,              \* remote addresses
    LPorts,           \* local ports of real connections
    RPorts,           \* remote ports
    Puppet,           \* the puppet port of the TTL probes
    PortConf,         \* runcopy->portconf: RPorts -> {"NONE", "LIGHT", "NORMAL", "HEAVY"}
    Hacks,            \* the loaded hack plugins
    HackFreq,         \* hack_frequency of each plugin
    DecoyVerdicts,    \* the verdicts (wtf) the plugins give their packets
    max_sex_track,    \* runcopy->max_sex_track
    max_ttl_probe,    \* runcopy->max_ttl_probe
    STARTING_ARB_TTL  \* the baseline TTL when no TTL focus is usable

VARIABLES
    p_queue,              \* the packet queue
    passed,               \* its get() cursor
    youngpacketspresent,
    sex_map,              \* SessionTrackKey -> session
    ttlfocus_map,         \* daddr -> TTLFocus
    sj_run,               \* runcopy->sj_run
    pc,                   \* the loop of analyze_packets_queue being run
    pkt,                  \* the packet that loop holds
    nextId,               \* the id of the next packet created
    emitted               \* the packet the last readpacket returned

track_vars == <<p_queue, passed, youngpacketspresent, sex_map, ttlfocus_map,
                sj_run, pc, pkt, nextId, emitted>>

Statuses == {"YOUNG", "KEEP", "SEND"}
Sources  == {"NETWORK", "TUNNEL", "LOCAL", "TTLBFORCE"}
Verdicts == {"INNOCENT", "PRESCRIPTION", "GUILTY"}
Positions == {"ANTICIPATION", "POSTICIPATION", "ANY_POSITION"}
TTLStatus == {"BRUTALFORCE", "KNOWN", "UNKNOWN"}
Byte == 0..255

Key(p) == <<p.dst, p.lport, p.rport>>

\* The SessionTrack constructor (SessionTrack.cc).
NewSession == [packet_number |-> 1, shutdown |-> FALSE]

\* The TTLFocus constructor: probing starts at once, with no expiring TTL
\* seen yet and the largest TTL as minimum working one.  received_probe
\* and synack_ttl are only written and logged, never read: left out.
NewFocus == [status |-> "BRUTALFORCE", sent_probe |-> 0, expiring_ttl |-> 0,
             min_working_ttl |-> 255, probe_ready |-> TRUE]

Cur == PktOf(p_queue, pkt)

\* What readpacket has returned before its first packet.
NoPacket == [id |-> NoPkt]

-----------------------------------------------------------------------------
(* The loops of analyze_packets_queue and the filter each gives get().     *)
Filter == [icmp   |-> <<"YOUNG", "NETWORK", "ICMP">>,
           tcpin  |-> <<"YOUNG", "NETWORK", "TCP">>,
           tunnel |-> <<"YOUNG", "TUNNEL", "TCP">>,
           young  |-> <<"YOUNG", ANY, ANY>>,
           keep   |-> <<"KEEP", "TUNNEL", "TCP">>]
NextLoop == [icmp |-> "tcpin", tcpin |-> "tunnel", tunnel |-> "young",
             young |-> "keep", keep |-> "idle"]

LoopGet(q, c, loop, advance) ==
    Get(q, c, Filter[loop][1], Filter[loop][2], Filter[loop][3], advance)

\* Fault: the loop fetches its next packet with get(..., false).
Continue_restart(c) ==
    LET g == LoopGet(p_queue', c, pc, FALSE)
    IN  pkt' = g.pkt /\ passed' = g.passed

\* pkt = p_queue.get(<filter of the loop>, true), on the queue the step left.
Continue(c) ==
    LET g == LoopGet(p_queue', c, pc, TRUE)
    IN  pkt' = g.pkt /\ passed' = g.passed

\* Enter a loop: pkt = p_queue.get(<filter>, false).
EnterLoop(loop) ==
    LET g == LoopGet(p_queue, passed, loop, FALSE)
    IN  /\ pc' = loop
        /\ pkt' = g.pkt
        /\ passed' = g.passed

-----------------------------------------------------------------------------
(* Session table.                                                          *)

\* Fault: the table is cleared only once it holds more than the maximum.
init_sessiontrack_late(m, k) ==
    IF k \in DOMAIN m THEN m
    ELSE LET base == IF Cardinality(DOMAIN m) > max_sex_track
                     THEN [x \in {} |-> NewSession] ELSE m
         IN  base @@ (k :> NewSession)

\* init_sessiontrack: find the session, or create it after clearing the
\* whole table when it is full.
init_sessiontrack(m, k) ==
    IF k \in DOMAIN m THEN m
    ELSE LET base == IF Cardinality(DOMAIN m) = max_sex_track
                     THEN [x \in {} |-> NewSession] ELSE m
         IN  base @@ (k :> NewSession)

\* Fault: the session is erased at the first closing packet.
clear_session_once(m, k) == [x \in DOMAIN m \ {k} |-> m[x]]

\* clear_session: the first closing packet sets shutdown, the second erases.
clear_session(m, k) ==
    IF m[k].shutdown THEN [x \in DOMAIN m \ {k} |-> m[x]]
    ELSE [m EXCEPT ![k].shutdown = TRUE]

\* Fault: the budget test is > instead of ==.
analyze_ttl_stats_late(f) == f.sent_probe > max_ttl_probe

\* analyze_ttl_stats: the probe budget is spent.
analyze_ttl_stats(f) == f.sent_probe = max_ttl_probe

init_ttlfocus(fm, d) ==
    IF d \in DOMAIN fm THEN fm ELSE fm @@ (d :> NewFocus)

-----------------------------------------------------------------------------
(* TTL bruteforce.                                                         *)

\* Fault: a spent budget stops the probes without making the focus UNKNOWN.
enque_ttl_probe_nounknown(syn, d) ==
    LET f == ttlfocus_map[d]
        n == f.sent_probe + 1
        probe == [syn EXCEPT !.id = nextId, !.src = "TTLBFORCE", !.status = "SEND",
                             !.wtf = "INNOCENT", !.ttl = n, !.lport = Puppet,
                             !.n = n, !.n2 = n]
    IN  \/ /\ ~f.probe_ready \/ analyze_ttl_stats(f)
           /\ UNCHANGED <<p_queue, ttlfocus_map, nextId>>
        \/ /\ f.probe_ready
           /\ ~analyze_ttl_stats(f)
           /\ ttlfocus_map' = [ttlfocus_map EXCEPT ![d].sent_probe = n,
                                                   ![d].probe_ready = FALSE]
           /\ p_queue' = Insert(p_queue, "high", probe)
           /\ nextId' = nextId + 1

\* enque_ttl_probe: unless the pacing interval is running, or the budget is
\* spent (analyze_ttl_stats: the focus becomes UNKNOWN), clone the held SYN
\* into probe number sent_probe + 1: TTL and encoded number that value,
\* source port the puppet port, queued at HIGH priority.
enque_ttl_probe(syn, d) ==
    LET f == ttlfocus_map[d]
        n == f.sent_probe + 1
        probe == [syn EXCEPT !.id = nextId, !.src = "TTLBFORCE", !.status = "SEND",
                             !.wtf = "INNOCENT", !.ttl = n, !.lport = Puppet,
                             !.n = n, !.n2 = n]
    IN  \/ /\ ~f.probe_ready
           /\ UNCHANGED <<p_queue, ttlfocus_map, nextId>>
        \/ /\ f.probe_ready
           /\ analyze_ttl_stats(f)
           /\ ttlfocus_map' = [ttlfocus_map EXCEPT ![d].status = "UNKNOWN"]
           /\ UNCHANGED <<p_queue, nextId>>
        \/ /\ f.probe_ready
           /\ ~analyze_ttl_stats(f)
           /\ ttlfocus_map' = [ttlfocus_map EXCEPT ![d].sent_probe = n,
                                                   ![d].probe_ready = FALSE]
           /\ p_queue' = Insert(p_queue, "high", probe)
           /\ nextId' = nextId + 1

\* Fault: only the first held SYN towards d is released.
mark_real_syn_packets_SEND_first(q, d) ==
    LET o == Order(q)
        i == SelectInSeq(o, LAMBDA x : x.proto = "TCP" /\ x.kind = "SYN"
                                       /\ x.src # "NETWORK" /\ x.dst = d
                                       /\ x.status = "KEEP")
    IN  IF i = 0 THEN q
        ELSE Update(q, o[i].id, LAMBDA x : [x EXCEPT !.status = "SEND"])

\* mark_real_syn_packets_SEND: every SYN towards d goes from KEEP to SEND.
\* It runs its own traversal of the queue, to the end.
mark_real_syn_packets_SEND(q, d) ==
    MarkAll(q, LAMBDA x : x.proto = "TCP" /\ x.kind = "SYN"
                          /\ x.src # "NETWORK" /\ x.dst = d, "SEND")

\* analyze_incoming_icmp: a time exceeded quoting a TCP packet towards a
\* tracked destination is consumed; if the two recovered probe numbers
\* agree and the distance is not KNOWN, the expiring TTL may only rise.
analyze_incoming_icmp(p) ==
    \/ /\ p.dst \notin DOMAIN ttlfocus_map
       /\ UNCHANGED <<p_queue, ttlfocus_map>>
    \/ /\ p.dst \in DOMAIN ttlfocus_map
       /\ p_queue' = Detach(p_queue, p.id)
       /\ LET f == ttlfocus_map[p.dst]
          IN  ttlfocus_map' =
                IF f.status # "KNOWN" /\ p.n = p.n2
                THEN [ttlfocus_map EXCEPT ![p.dst].expiring_ttl =
                                              IF p.n > @ THEN p.n ELSE @]
                ELSE ttlfocus_map

\* Fault: the "- 1" of ack_seq - rand_key - 1 is forgotten.
synack_from_probe_nominus(p) ==
    LET d == p.dst
        f == ttlfocus_map[d]
        discern_ttl == p.n + 1
        better == f.min_working_ttl > discern_ttl /\ discern_ttl <= f.sent_probe
    IN  /\ ttlfocus_map' = [ttlfocus_map EXCEPT
              ![d] = [f EXCEPT !.status = "KNOWN",
                               !.min_working_ttl = IF better THEN discern_ttl ELSE @,
                               !.expiring_ttl = IF better THEN (discern_ttl - 1) % 256
                                                ELSE @]]
        /\ p_queue' = Detach(mark_real_syn_packets_SEND(p_queue, d), p.id)

\* Fault: a later SYN/ACK overwrites the minimum working TTL even when it
\* answers a larger probe.
synack_from_probe_nomin(p) ==
    LET d == p.dst
        f == ttlfocus_map[d]
        discern_ttl == p.n
        better == discern_ttl <= f.sent_probe
    IN  /\ ttlfocus_map' = [ttlfocus_map EXCEPT
              ![d] = [f EXCEPT !.status = "KNOWN",
                               !.min_working_ttl = IF better THEN discern_ttl ELSE @,
                               !.expiring_ttl = IF better THEN (discern_ttl - 1) % 256
                                                ELSE @]]
        /\ p_queue' = Detach(mark_real_syn_packets_SEND(p_queue, d), p.id)

\* analyze_incoming_synack, when the SYN/ACK answers a probe (it comes from
\* a tracked destination to the puppet port): the distance is KNOWN, the
\* discerned TTL lowers the minimum working TTL, the held SYNs are released
\* and the SYN/ACK is consumed.  The release scanned the whole queue with
\* the shared cursor, which the caller's loop then continues from.
synack_from_probe(p) ==
    LET d == p.dst
        f == ttlfocus_map[d]
        discern_ttl == p.n
        better == f.min_working_ttl > discern_ttl /\ discern_ttl <= f.sent_probe
    IN  /\ ttlfocus_map' = [ttlfocus_map EXCEPT
              ![d] = [f EXCEPT !.status = "KNOWN",
                               !.min_working_ttl = IF better THEN discern_ttl ELSE @,
                               !.expiring_ttl = IF better THEN (discern_ttl - 1) % 256
                                                ELSE @]]
        /\ p_queue' = Detach(mark_real_syn_packets_SEND(p_queue, d), p.id)

IsProbeReply(p) == p.dst \in DOMAIN ttlfocus_map /\ p.lport = Puppet

\* analyze_incoming_rstfin: closing flags of a tracked session.
analyze_incoming_rstfin(p) ==
    sex_map' = IF Key(p) \in DOMAIN sex_map THEN clear_session(sex_map, Key(p))
               ELSE sex_map

-----------------------------------------------------------------------------
(* Hack selection and injection.                                           *)

\* What createHack and SelfIntegrityCheck can give for one plugin: no packet
\* ("NONE"), or a packet with a verdict and a requested position; `before`
\* is the side it goes to (random for ANY_POSITION).
NoDecoy == [wtf |-> "NONE", pos |-> "NONE", before |-> FALSE]
DecoyForms ==
    {[wtf |-> w, pos |-> ps, before |-> b] :
        w \in DecoyVerdicts, ps \in Positions, b \in BOOLEAN}
    \ {[wtf |-> w, pos |-> ps, before |-> b] :
        w \in DecoyVerdicts, <<ps, b>> \in {<<"ANTICIPATION", FALSE>>,
                                            <<"POSTICIPATION", TRUE>>}}

\* enabled = config && Condition(pkt) && percentage(logarithm(..), frequency),
\* on the copy applicable_hacks, so each call starts from the pool's flags.
HackOutcomes(h, session) ==
    LET enabled == {cond /\ pct : cond \in BOOLEAN,
                       pct \in percentage(logarithm(session.packet_number), HackFreq[h])}
    IN  {NoDecoy} \cup (IF TRUE \in enabled THEN DecoyForms ELSE {})

\* Fault: the two sides are swapped.
Place_swapped(q, decoy, anchor, before) ==
    IF before THEN InsertAfter(q, decoy, anchor) ELSE InsertBefore(q, decoy, anchor)

\* switch (injpkt->position): before the original for ANTICIPATION, after it
\* for POSTICIPATION, on the random side for ANY_POSITION.
Place(q, decoy, anchor, before) ==
    IF before THEN InsertBefore(q, decoy, anchor) ELSE InsertAfter(q, decoy, anchor)

\* The plugins' packets, in shuffled order, marked LOCAL and SEND and put
\* next to the original.
RECURSIVE InjectAll(_, _, _, _)
InjectAll(q, nid, orig, outs) ==
    IF outs = <<>> THEN [q |-> q, nid |-> nid]
    ELSE LET o == Head(outs)
             decoy == [orig EXCEPT !.id = nid, !.src = "LOCAL", !.status = "SEND",
                                   !.kind = "DATA", !.wtf = o.wtf, !.pos = o.pos,
                                   !.anchor = orig.id, !.n = 0, !.n2 = 0]
         IN  IF o = NoDecoy THEN InjectAll(q, nid, orig, Tail(outs))
             ELSE InjectAll(Place(q, decoy, orig.id, o.before), nid + 1, orig, Tail(outs))

\* The destruction of the copy applicable_hacks when the call returns runs
\* ~HackPacketPool on it; that is modelled by HackPacketPool's InjectCopy,
\* since plugin libraries are not part of this module's state.
inject_hack_in_queue(orig, session) ==
    \E order \in SetToSeqs(Hacks),
       out \in [Hacks -> DecoyForms \cup {NoDecoy}] :
        /\ \A h \in Hacks : out[h] \in HackOutcomes(h, session)
        /\ LET r == InjectAll(p_queue, nextId, orig, [i \in DOMAIN order |-> out[order[i]]])
           IN  p_queue' = r.q /\ nextId' = r.nid

-----------------------------------------------------------------------------
(* manage_outgoing_packets: a SYN creates its session and TTL focus and is *)
(* held while the distance is being bruteforced; any other packet of a     *)
(* tracked session counts, then closes the session or gets the hacks.      *)
manage_outgoing_packets(p) ==
    LET k  == Key(p)
        m1 == IF p.kind = "SYN" THEN init_sessiontrack(sex_map, k) ELSE sex_map
        f1 == IF p.kind = "SYN" THEN init_ttlfocus(ttlfocus_map, p.dst) ELSE ttlfocus_map
        m2 == [m1 EXCEPT ![k].packet_number = @ + 1]
        held == p.kind = "SYN" /\ f1[p.dst].status = "BRUTALFORCE"
    IN  /\ ttlfocus_map' = f1
        /\ \/ /\ held
              /\ sex_map' = m1
              /\ p_queue' = Update(p_queue, p.id, LAMBDA x : [x EXCEPT !.status = "KEEP"])
              /\ UNCHANGED nextId
           \/ /\ ~held
              /\ k \notin DOMAIN m1
              /\ sex_map' = m1
              /\ UNCHANGED <<p_queue, nextId>>
           \/ /\ ~held
              /\ k \in DOMAIN m1
              /\ p.kind = "FIN"
              /\ sex_map' = clear_session(m2, k)
              /\ UNCHANGED <<p_queue, nextId>>
           \/ /\ ~held
              /\ k \in DOMAIN m1
              /\ p.kind # "FIN"
              /\ sex_map' = m2
              /\ inject_hack_in_queue(p, m2[k])

-----------------------------------------------------------------------------
(* analyze_packets_queue, one packet per step.                             *)

\* Cycle start with young packets: clear the flag, enter the ICMP loop.
analyze_packets_queue ==
    /\ pc = "idle"
    /\ youngpacketspresent
    /\ youngpacketspresent' = FALSE
    /\ EnterLoop("icmp")
    /\ UNCHANGED <<p_queue, sex_map, ttlfocus_map, sj_run, nextId, emitted>>

\* Cycle start without young packets: goto analyze_keep_packets.
analyze_keep_packets ==
    /\ pc = "idle"
    /\ ~youngpacketspresent
    /\ EnterLoop("keep")
    /\ UNCHANGED <<p_queue, youngpacketspresent, sex_map, ttlfocus_map, sj_run,
                   nextId, emitted>>

\* A loop found no more packets: enter the next one, or end the cycle.
LoopEnd ==
    /\ pc \notin {"idle", "keep"}
    /\ pkt = NoPkt
    /\ EnterLoop(NextLoop[pc])
    /\ UNCHANGED <<p_queue, youngpacketspresent, sex_map, ttlfocus_map, sj_run,
                   nextId, emitted>>

CycleEnd ==
    /\ pc = "keep"
    /\ pkt = NoPkt
    /\ pc' = "idle"
    /\ UNCHANGED <<p_queue, passed, youngpacketspresent, sex_map, ttlfocus_map,
                   sj_run, pkt, nextId, emitted>>

\* Incoming ICMP: time exceeded messages feed the TTL discovery.
IcmpStep ==
    /\ pc = "icmp"
    /\ pkt # NoPkt
    /\ \/ Cur.kind = "TIMEEXC" /\ analyze_incoming_icmp(Cur)
       \/ Cur.kind # "TIMEEXC" /\ UNCHANGED <<p_queue, ttlfocus_map>>
    /\ Continue(passed)
    /\ UNCHANGED <<youngpacketspresent, sex_map, sj_run, pc, nextId, emitted>>

\* Incoming TCP: SYN/ACK answering a probe, then RST or FIN.
TcpInStep ==
    /\ pc = "tcpin"
    /\ pkt # NoPkt
    /\ \/ /\ Cur.kind = "SYNACK" /\ IsProbeReply(Cur)
          /\ synack_from_probe(Cur)
          /\ Continue(QueueIds(p_queue))
          /\ UNCHANGED sex_map
       \/ /\ Cur.kind = "FIN"
          /\ analyze_incoming_rstfin(Cur)
          /\ UNCHANGED <<p_queue, ttlfocus_map>>
          /\ Continue(passed)
       \/ /\ Cur.kind # "FIN" /\ ~(Cur.kind = "SYNACK" /\ IsProbeReply(Cur))
          /\ UNCHANGED <<p_queue, ttlfocus_map, sex_map>>
          /\ Continue(passed)
    /\ UNCHANGED <<youngpacketspresent, sj_run, pc, nextId, emitted>>

\* Outgoing TCP from the tunnel.  A port configured NONE marks the packet
\* SEND and `continue`s without fetching the next packet.
TunnelStep ==
    /\ pc = "tunnel"
    /\ pkt # NoPkt
    /\ \/ /\ PortConf[Cur.rport] = "NONE"
          /\ p_queue' = Update(p_queue, pkt, LAMBDA x : [x EXCEPT !.status = "SEND"])
          /\ UNCHANGED <<pkt, passed, sex_map, ttlfocus_map, nextId>>
       \/ /\ PortConf[Cur.rport] # "NONE"
          /\ manage_outgoing_packets(Cur)
          /\ Continue(passed)
    /\ UNCHANGED <<youngpacketspresent, sj_run, pc, emitted>>

\* Every packet still YOUNG is sent.
YoungStep ==
    /\ pc = "young"
    /\ pkt # NoPkt
    /\ p_queue' = Update(p_queue, pkt, LAMBDA x : [x EXCEPT !.status = "SEND"])
    /\ Continue(passed)
    /\ UNCHANGED <<youngpacketspresent, sex_map, ttlfocus_map, sj_run, pc, nextId,
                   emitted>>

\* A held SYN whose destination is still bruteforced triggers a probe.  The
\* code aborts when the held SYN has no TTL focus; the step requires one.
KeepStep ==
    /\ pc = "keep"
    /\ pkt # NoPkt
    /\ Cur.dst \in DOMAIN ttlfocus_map
    /\ \/ /\ ttlfocus_map[Cur.dst].status = "BRUTALFORCE"
          /\ enque_ttl_probe(Cur, Cur.dst)
       \/ /\ ttlfocus_map[Cur.dst].status # "BRUTALFORCE"
          /\ UNCHANGED <<p_queue, ttlfocus_map, nextId>>
    /\ Continue(passed)
    /\ UNCHANGED <<youngpacketspresent, sex_map, sj_run, pc, emitted>>

-----------------------------------------------------------------------------
(* The poll loop's calls between two cycles.                               *)

\* writepacket(source, buff): a packet that passed check_evil_packet is
\* queued YOUNG and INNOCENT at LOW priority.
writepacket(p) ==
    /\ pc = "idle"
    /\ p_queue' = Insert(p_queue, "low",
                         [p EXCEPT !.id = nextId, !.status = "YOUNG", !.wtf = "INNOCENT"])
    /\ nextId' = nextId + 1
    /\ youngpacketspresent' = TRUE
    /\ UNCHANGED <<passed, sex_map, ttlfocus_map, sj_run, pc, pkt, emitted>>

\* random() % 5.
Jitter == 0..4
\* random() % 100: only its two ends, as STARTING_ARB_TTL + 99 does not
\* wrap for the baselines used and TTLs are only compared with distances.
ArbJitter == {0, 99}

\* last_pkt_fix: the packets the fix-up can turn p into.  Only TCP packets
\* from the tunnel or injected locally get a TTL: below the expiring TTL
\* for PRESCRIPTION, from the minimum working TTL on for the others, both
\* with a jitter of random() % 5 stored into the 8-bit ip->ttl; with no
\* usable focus PRESCRIPTION becomes GUILTY and the TTL is the baseline
\* plus random() % 100.
last_pkt_fix(p) ==
    LET f == ttlfocus_map[p.dst]
    IN  CASE p.proto # "TCP" \/ p.src \notin {"TUNNEL", "LOCAL"} -> {p}
          [] p.dst \in DOMAIN ttlfocus_map /\ f.status # "UNKNOWN" ->
                {[p EXCEPT !.ttl = IF p.wtf = "PRESCRIPTION"
                                   THEN (f.expiring_ttl - j) % 256
                                   ELSE (f.min_working_ttl + j) % 256] : j \in Jitter}
          [] OTHER ->
                {[p EXCEPT !.wtf = IF @ = "PRESCRIPTION" THEN "GUILTY" ELSE @,
                           !.ttl = (STARTING_ARB_TTL + j) % 256] : j \in ArbJitter}

\* readpacket: the first SEND packet leaves the queue, fixed up if running.
readpacket ==
    LET g == Get(p_queue, passed, "SEND", ANY, ANY, FALSE)
        p == PktOf(p_queue, g.pkt)
    IN  /\ pc = "idle"
        /\ g.pkt # NoPkt
        /\ p_queue' = Detach(p_queue, g.pkt)
        /\ passed' = g.passed
        /\ emitted' \in (IF sj_run THEN last_pkt_fix(p) ELSE {p})
        /\ UNCHANGED <<youngpacketspresent, sex_map, ttlfocus_map, sj_run, pc, pkt,
                       nextId>>

-----------------------------------------------------------------------------
\* The TCPTrack constructor: empty queue and tables, no young packets.
TrackInit ==
    /\ p_queue = EmptyQueue
    /\ passed = {}
    /\ youngpacketspresent = FALSE
    /\ sex_map = [k \in {} |-> NewSession]
    /\ ttlfocus_map = [d \in {} |-> NewFocus]
    /\ sj_run = TRUE
    /\ pc = "idle"
    /\ pkt = NoPkt
    /\ nextId = 1
    /\ emitted = NoPacket

\* One step of the classification cycle.
CycleStep ==
    \/ analyze_packets_queue \/ analyze_keep_packets \/ LoopEnd \/ CycleEnd
    \/ IcmpStep \/ TcpInStep \/ TunnelStep \/ YoungStep \/ KeepStep

=============================================================================
