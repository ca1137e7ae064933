--------------------------- MODULE PacketValidation ---------------------------
(***************************************************************************)
(* The byte-level check of TCPTrack.cc that writepacket applies to every   *)
(* buffer before queueing it: check_evil_packet.                           *)
(*                                                                         *)
(* A buffer is abstracted to the length nbyte read and the header fields  *)
(* the check reads: ip->tot_len, ip->ihl, ip->protocol and tcp->doff.     *)
(***************************************************************************)
EXTENDS Integers

IPHDR  == 20      \* sizeof(struct iphdr)
TCPHDR == 20      \* sizeof(struct tcphdr)

\* check_evil_packet(buff, nbyte): the datagram fits the buffer and, for
\* TCP, the buffer holds the fixed TCP header and the datagram the declared
\* TCP header.
check_evil_packet(b) ==
    /\ b.nbyte >= IPHDR
    /\ b.nbyte >= b.tot_len
    /\ b.protocol = "TCP" =>
           /\ b.nbyte >= b.ihl * 4 + TCPHDR
           /\ b.tot_len >= b.ihl * 4 + b.doff * 4
=============================================================================
