------------------------- MODULE MCCriticalSection -------------------------
(* Three guest threads around one critical section. *)
EXTENDS CriticalSection

CONSTANTS t1, t2, t3

MCThreads == {t1, t2, t3}
=============================================================================
