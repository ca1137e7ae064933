------------------------- MODULE MC_HackPacketPool -------------------------
(***************************************************************************)
(* HackPacketPool for TLC: every enabler file of up to MaxLines lines,     *)
(* with and without a newline after the last one.                          *)
(***************************************************************************)
EXTENDS HackPacketPool

CONSTANT MaxLines

MC_Files == {[lines |-> s, nl |-> b] : s \in BoundedSeq(Kinds, MaxLines), b \in BOOLEAN}
=============================================================================
