---------------------------- MODULE MCSaveGames -----------------------------
(* Three autosaves and one save of the title's own. *)
EXTENDS SaveGames

MCSaves == {10}
=============================================================================
