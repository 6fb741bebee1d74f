------------------------- MODULE SyncObjectsProps --------------------------
(* What must be true of SyncObjects. *)
EXTENDS SyncObjects

(* The types of the Handle fields: a semaphore's count stays within its    *)
(* maximum and an event's is a flag, and waiters never go below zero.      *)
TypeOK ==
  /\ made \subseteq Objects
  /\ count \in [Objects -> 0 .. MaxCount]
  /\ \A e \in Events : count[e] <= 1
  /\ owner \in [Objects -> Threads \cup {Nobody}]
  /\ waiters \in [Objects -> Nat]
  /\ pulses \in [Objects -> 0 .. MaxPulses]
  /\ mode \in [Threads -> {"run", "asleep", "awake"}]
  /\ wait \in [Threads -> Waits]
  /\ pulse0 \in [Threads -> Nat]
  /\ pulsed \subseteq Threads

(* "Recursive for the owner, exclusive to everyone else": a mutex is held  *)
(* by the one thread whose satisfied waits outnumber its releases, as deep *)
(* as those say, whichever of the three waits it was taken through.        *)
MutexIsExclusive ==
  \A m \in Mutexes :
    /\ \A t \in Threads : held[m][t] = IF t = owner[m] THEN count[m] ELSE 0
    /\ owner[m] = Nobody <=> count[m] = 0

(* What is left in a semaphore is what was released into it less what      *)
(* waits report as taken: no wait for all of a set takes a part of it, and *)
(* no unit is given to two threads.                                        *)
SemaphoreConserved == \A s \in Semaphores : count[s] = credit[s]

(* What waits took, and only that, is gone from the objects: exclusion for *)
(* the mutexes and conservation for the semaphores, whichever of the three *)
(* waits took them and whatever a timer's callback did in between.         *)
TakenExactly == MutexIsExclusive /\ SemaphoreConserved

(* Handle::waiters, which decides whether a signal is broadcast at all and *)
(* whether a pulse is lost, is the number of threads waiting on the object.*)
WaitersExact == \A o \in Objects : waiters[o] = Cardinality(WaitingOn(o))

(* No thread sleeps while its wait is satisfied, or after the pulse it     *)
(* waits for: the broadcast that depends on Handle::waiters is never       *)
(* missed, and a thread that loses the race for an object sleeps only      *)
(* once there is nothing left for it.                                      *)
NobodySleepsOnSignal ==
  \A t \in Threads :
    mode[t] = "asleep" => Granted(t, wait[t]) = {} /\ ~SeesPulse(t)

(* Of the threads in WaitForSingleObject, a pulse of a manual-reset event  *)
(* releases "every thread waiting at this instant", and none that came     *)
(* later.                                                                  *)
PulseIsExact ==
  \A t \in Threads :
    mode[t] # "run" /\ wait[t].how = "one" => (SeesPulse(t) <=> t \in pulsed)

-----------------------------------------------------------------------------
(* A wait with a deadline returns, and so does a single wait whose event   *)
(* is pulsed, although the pulse leaves no trace in the event.             *)
WaitReturns ==
  \A t \in Threads :
    (mode[t] # "run" /\ (wait[t].timed \/ (wait[t].how = "one" /\ t \in pulsed)))
      ~> mode[t] = "run"

-----------------------------------------------------------------------------
(* "Recursive for the owner" (kernel32_wait.cpp, sync_try_take): a mutex   *)
(* that is held has an owner, who alone can take it again or release it.   *)
HeldMutexHasOwner == \A m \in Mutexes : count[m] > 0 => owner[m] # Nobody

(* "The one that gets there consumes it, so the event ends unsignalled     *)
(* either way" (kernel32.cpp, PulseEvent): an auto-reset event that was    *)
(* only ever pulsed is unsignalled once nobody waits on it.                *)
PulseEndsUnsignalled ==
  \A e \in AutoEvents \cap OnlyPulsed : waiters[e] = 0 => count[e] = 0

(* "Release EVERY thread waiting at this instant" (kernel32.cpp,           *)
(* PulseEvent on a manual-reset event): a thread whose event was pulsed    *)
(* while it waited does not go back to sleep.                              *)
PulseReleasesAll == \A t \in pulsed : mode[t] # "asleep"
=============================================================================
