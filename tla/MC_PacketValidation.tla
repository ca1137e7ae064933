------------------------- MODULE MC_PacketValidation -------------------------
(***************************************************************************)
(* check_evil_packet on every combination of header fields, with lengths  *)
(* on both sides of every multiple of 4 up to the longest headers.         *)
(***************************************************************************)
EXTENDS PacketValidation

VARIABLE b

Lengths == {4 * k + e : k \in 0..31, e \in {-1, 0}} \ {-1}

AllBuffers ==
    [nbyte : Lengths, tot_len : Lengths, ihl : 0..15, doff : 0..15,
     protocol : {"TCP", "ICMP"}]

Init == b \in AllBuffers
Next == UNCHANGED b
Spec == Init /\ [][Next]_b

\* Ingestion rejects truncated or inconsistent headers (spec 4.6, 6): a
\* buffer writepacket accepts declares an IP header of at least 20 bytes
\* inside the datagram and, for TCP, a TCP header of at least the fixed 20
\* bytes that, with its options, lies inside the declared total length.
HeadersWithinDatagram ==
    check_evil_packet(b) =>
        /\ IPHDR <= b.ihl * 4
        /\ b.ihl * 4 <= b.tot_len
        /\ b.protocol = "TCP" =>
               /\ TCPHDR <= b.doff * 4
               /\ b.ihl * 4 + b.doff * 4 <= b.tot_len
=============================================================================
