--------------------------- MODULE MCLanSessions ----------------------------
(* A machine with a campaign, and one that joins and leaves it. *)
EXTENDS LanSessions

CONSTANTS h, c

Two == {h, c}
One == {h}
=============================================================================
