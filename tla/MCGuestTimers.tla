--------------------------- MODULE MCGuestTimers ---------------------------
(* Guest threads and timer slots over a short stretch of time. *)
EXTENDS GuestTimers, TLC

CONSTANTS t1, t2

OneThread  == {t1}
TwoThreads == {t1, t2}

UpToTwoMs == {0, 1, 2}

NoSlots      == {}
SlotsTakeOne == {1}
=============================================================================
