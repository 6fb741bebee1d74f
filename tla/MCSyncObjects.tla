--------------------------- MODULE MCSyncObjects ---------------------------
(* Small instances of the synchronisation objects. *)
EXTENDS SyncObjectsProps, TLC

CONSTANTS t1, t2, t3, sem, auto, manual, mutex

Wait(how, on, timed) == [how |-> how, on |-> on, timed |-> timed]

TwoThreads   == {t1, t2}
ThreeThreads == {t1, t2, t3}
Symmetric    == Permutations(ThreeThreads)

(* Each object alone, and the sets that mix what a wait takes and keeps.   *)
MixedWaits ==
  { Wait("one", <<sem>>, FALSE), Wait("one", <<auto>>, TRUE),
    Wait("one", <<mutex>>, FALSE),
    Wait("all", <<sem, mutex>>, FALSE), Wait("all", <<auto, sem>>, TRUE),
    Wait("any", <<mutex, auto>>, FALSE) }

EventWaits ==
  { Wait("one", <<manual>>, FALSE), Wait("one", <<manual>>, TRUE),
    Wait("one", <<auto>>, FALSE), Wait("any", <<manual, auto>>, TRUE) }

AllWaits == MixedWaits \cup EventWaits
=============================================================================
