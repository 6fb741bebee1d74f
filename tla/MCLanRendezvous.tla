-------------------------- MODULE MCLanRendezvous ---------------------------
(* One pair, or two machines that share two cookies. *)
EXTENDS LanRendezvous, TLC

CONSTANTS client, newcomer, c1, c2

MCMachines == {client, newcomer}
OneCookie  == {c1}
TwoCookies == {c1, c2}
OnePair    == c1 :> MCMachines
TwoPairs   == c1 :> MCMachines @@ c2 :> MCMachines
=============================================================================
