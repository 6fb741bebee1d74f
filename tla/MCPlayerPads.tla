---------------------------- MODULE MCPlayerPads ----------------------------
(* Two pads, both with an identity, and a keyboard. *)
EXTENDS PlayerPads, TLC

CONSTANTS k, a, b

OneKeyboard == {k}
TwoPads == {a, b}
MCSymmetry == Permutations(TwoPads)
=============================================================================
