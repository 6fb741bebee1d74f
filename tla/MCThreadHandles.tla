-------------------------- MODULE MCThreadHandles --------------------------
(* Two records, four handle indices. *)
EXTENDS ThreadHandles, TLC

CONSTANTS s1, s2, main, h1, h2, h3, h4

MCSlots == {s1, s2}
MCHandles == {h1, h2, h3, h4}
MCSymmetry == Permutations(MCSlots) \cup Permutations(MCHandles)
=============================================================================
