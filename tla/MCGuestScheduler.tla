-------------------------- MODULE MCGuestScheduler --------------------------
(* Small instances of the guest scheduler for TLC. *)
EXTENDS GuestSchedulerProps, TLC

CONSTANTS s1, s2, main

MCSlots == {s1, s2}
MCOneSlot == {s1}
MCSymmetry == Permutations({s1, s2})
AllOps == GuestOps
SpinOps == GuestOps \ {"wait", "block"}
YieldOps == {"yield", "create"}
=============================================================================
