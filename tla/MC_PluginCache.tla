--------------------------- MODULE MC_PluginCache ---------------------------
(***************************************************************************)
(* PluginCache for TLC: addresses and keys are model values that nothing  *)
(* tells apart, so states that differ by renaming them are equivalent.     *)
(***************************************************************************)
EXTENDS PluginCache, TLC

CONSTANTS a1, a2, a3, k1, k2

MC_Addrs == {a1, a2, a3}
MC_Keys == {k1, k2}

Symmetry == Permutations(MC_Addrs) \cup Permutations(MC_Keys)
=============================================================================
