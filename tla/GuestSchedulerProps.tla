------------------------ MODULE GuestSchedulerProps -------------------------
(***************************************************************************)
(* What must be true of GuestScheduler.                                    *)
(***************************************************************************)
EXTENDS GuestScheduler

(* The types of the scheduler's variables: the pthread mutexes and queues, *)
(* the atomic counters and the fields of the GuestThread records of        *)
(* threads.cpp.                                                            *)
TypeOK ==
  /\ lock \in Threads \cup {NoThread}
  /\ ylock \in Threads \cup {NoThread}
  /\ waiters \in Nat /\ condWaiters \in Nat
  /\ yielders \in Nat /\ live \in Nat
  /\ condQueue \subseteq Threads
  /\ yieldQueue \subseteq Threads
  /\ fresh \subseteq Threads
  /\ ready \subseteq Threads
  /\ tls \in Threads
  /\ life \in [Threads -> {"free", "live", "finished"}]
  /\ state \in [Threads -> ThreadStates]
  /\ suspended \in [Threads -> 0 .. MaxSuspend]
  /\ deadline \in [Threads -> {"never", "ahead", "passed"}]
  /\ via \in [Threads -> {"lock", "cond", "susp"}]
  /\ pc \in [Threads -> Points]

(* A pthread is inside a region of threads.cpp that needs g_lock (or of    *)
(* threads_yield.cpp that needs g_yield_lock) exactly while it is the      *)
(* recorded holder of that mutex, so no two are in one at once, across     *)
(* every way of getting the lock back: trylock, lock, cond_wait.           *)
OneHolder ==
  \A t \in Threads :
    /\ pc[t] \in Holding <=> lock = t
    /\ pc[t] \in YHolding <=> ylock = t

(* SuspendThread's guarantee, quoted at threads.cpp's guest_thread_suspend *)
(* ("once it returns, the target is not executing guest code"), whichever  *)
(* wait, yield or blocking call the target was in when it was suspended.   *)
SuspendedNeverRuns ==
  \A t \in Threads : pc[t] = "guest" => suspended[t] = 0

(* Guest code only ever runs with its own TLS bank bound, by whichever of  *)
(* the four places that call k32_tls_switch it came by the lock.           *)
TlsIsRunners ==
  \A t \in Threads : pc[t] = "guest" => tls = t

(* Guest code is run only by records that are in use and not finished: a   *)
(* record handed out again is never still running its last thread.         *)
RunnersAreLive ==
  \A t \in Threads : pc[t] # "none" <=> life[t] = "live"

(* How many records are, by f, in Q. *)
Count(f, Q) == Cardinality({t \in Threads : f[t] \in Q})

(* The four counters, which the fast paths trust (scheduler_has_waiter,    *)
(* guest_cond_broadcast, guest_yield_turn_taken, others_live), equal the   *)
(* number of pthreads between their increment and their decrement.         *)
CountersExact ==
  /\ waiters = Count(pc, {"lockwait", "unwait"})
  /\ condWaiters = Count(pc, Parked)
  /\ yielders = Count(pc, {"ytest", "ypark", "yleave"})
  /\ live = Count(life, {"live"})

(* No wake-up is lost: a thread the broadcast marked ready, or whose last  *)
(* suspend level ResumeThread removed, is no longer parked unsignalled on  *)
(* g_cond (the broadcast is skipped when g_cond_waiters reads zero, and    *)
(* issued by ResumeThread only for the last level).                        *)
NoLostWakeup ==
  \A t \in condQueue :
    /\ t \notin ready
    /\ pc[t] = "susp" => suspended[t] > 0

(* The hand-off promise of threads_yield.cpp does not rest on the 10 ms    *)
(* slice: a yielder parked although somebody has taken a turn since it     *)
(* gave its own up is about to be woken by a thread that is still in       *)
(* guest_yield_turn_taken.                                                 *)
NoLostHandOff ==
  \A t \in yieldQueue \ fresh : \E u \in Threads : pc[u] \in {"peek", "wake"}

(* What ties the queues and the records' state fields to the program       *)
(* points; the invariant the proofs need besides the ones above.           *)
QueuesMatch ==
  /\ \A t \in condQueue : pc[t] \in Parked
  /\ \A t \in yieldQueue : pc[t] = "ypark"
  /\ \A t \in ready : pc[t] = "cond"
  /\ \A t \in Threads :
       life[t] = "live" /\ state[t] = "COND"
         => pc[t] \in {"cond", "taken", "peek", "wake", "settle"}

(* The inductive invariant of the proofs. *)
IInv ==
  /\ TypeOK
  /\ OneHolder
  /\ SuspendedNeverRuns
  /\ TlsIsRunners
  /\ RunnersAreLive
  /\ CountersExact
  /\ NoLostWakeup
  /\ NoLostHandOff
  /\ QueuesMatch

-----------------------------------------------------------------------------
(* A contended guest_lock gets its turn although the other thread never    *)
(* blocks and only ever offers its quantum: "both sides spin" of           *)
(* threads.cpp's PREEMPTION BY QUANTUM and the promise of                  *)
(* threads_yield.cpp.                                                      *)
ContenderGetsTurn ==
  \A t \in Threads : pc[t] = "lockwait" ~> pc[t] # "lockwait"

(* A thread that gives its turn up comes back from guest_yield_turn: it    *)
(* runs again, or finds that it has been suspended meanwhile.              *)
YieldReturns ==
  \A t \in Threads : pc[t] = "released" ~> pc[t] \in {"guest", "susp"}

(* "The schedule here is round-robin" (threads.cpp at the thread priority  *)
(* calls, threads.h at guest_thread_priority_set): every thread that waits *)
(* for its turn and is not suspended has it, whatever the others do.       *)
RoundRobin ==
  \A t \in Threads :
    pc[t] = "lockwait" ~> (pc[t] = "guest" \/ suspended[t] > 0)

-----------------------------------------------------------------------------
(* The abstract view: the turn belongs to whoever runs guest code.         *)
Turn ==
  IF lock # NoThread /\ pc[lock] = "guest" THEN lock ELSE NoThread

Turns == INSTANCE GuestTurns WITH turn <- Turn, bank <- tls

(* The mutex, the condition variables and the counters of threads.cpp      *)
(* implement the turn taking that GuestTurns states.                       *)
ImplementsTurns == Turns!Spec
=============================================================================
