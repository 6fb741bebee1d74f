--------------------------- MODULE GuestScheduler ---------------------------
(***************************************************************************)
(* The guest thread scheduler: src/src/native/threads.cpp together with    *)
(* threads_yield.cpp (the hand-off promise) and threads_ready.cpp (who     *)
(* could run now).                                                         *)
(*                                                                         *)
(* Every guest thread is a host pthread.  One pthread mutex, g_lock, lets  *)
(* one of them at a time execute guest code; all guest waits share one     *)
(* condition variable, g_cond.  A running thread offers its turn with      *)
(* guest_yield_turn, which does not take the mutex back before somebody    *)
(* else has had it.  The yielding threads read the thread table and the    *)
(* counters while holding only g_yield_lock, so their steps interleave     *)
(* with those of the thread that holds g_lock.                             *)
(*                                                                         *)
(* A step is what one host thread does between two points where another    *)
(* one can observe or affect it.  `pc` names those points.                 *)
(***************************************************************************)
EXTENDS Naturals, FiniteSets

CONSTANTS
  Slots,       \* the records g_thread[0 .. MAX_THREADS - 1]
  Main,        \* the record g_thread[MAIN_SLOT]
  NoThread,    \* "no pthread holds this mutex"
  MaxSuspend,  \* bound on nested suspends of one thread (the code has none)
  Ops,         \* which of GuestOps the guest program uses
  Spurious     \* may pthread_cond_wait return without a reason?

GuestOps == {"yield", "wait", "broadcast", "block", "suspend", "resume",
             "create", "exit"}

Threads == Slots \cup {Main}

ASSUME SlotsAreFinite == IsFiniteSet(Slots)
ASSUME MainIsNoSlot == Main \notin Slots
ASSUME NoThreadIsNone == NoThread \notin Threads
ASSUME MaxSuspendIsNat == MaxSuspend \in Nat \ {0}
ASSUME OpsAreGuestOps == Ops \subseteq GuestOps
ASSUME SpuriousIsBoolean == Spurious \in BOOLEAN

VARIABLES
  lock,        \* holder of g_lock
  ylock,       \* holder of g_yield_lock
  waiters,     \* g_waiters
  condWaiters, \* g_cond_waiters
  yielders,    \* g_yielders
  condQueue,   \* pthreads parked on g_cond that no broadcast has released
  yieldQueue,  \* pthreads parked on g_yield_cond that no broadcast has released
  fresh,       \* yielders whose sampled epoch still equals g_acquires
  tls,         \* whose TLS bank k32_tls_switch last bound
  live,        \* g_live_threads
  life,        \* per record: "free", "live" (used) or "finished" (used)
  state,       \* per record: GuestThread::state
  suspended,   \* per record: the suspend count
  deadline,    \* per record: cond_deadline against the guest clock
  ready,       \* records whose cond_ready is set
  via,         \* how a pthread last came by g_lock
  pc           \* where each pthread is

locks  == <<lock, ylock>>
counts == <<waiters, condWaiters, yielders, live>>
queues == <<condQueue, yieldQueue, fresh>>
record == <<life, state, suspended, deadline, ready>>
vars   == <<locks, counts, queues, record, tls, via, pc>>

ThreadStates ==
  {"NEW", "RUNNING", "LOCK", "COND", "SUSPENDED", "BLOCKING", "DONE"}

(* Program points at which a pthread owns g_lock, and g_yield_lock.        *)
Holding  == {"unwait", "taken", "peek", "wake", "settle", "guest"}
YHolding == {"ycount", "ytest", "yleave"}
Parked   == {"cond", "susp"}
(* The other points: not started or gone; in guest_lock; in                *)
(* guest_yield_turn; inside a blocking host call.                          *)
Outside  == {"none", "try", "contend", "lockwait", "released", "ylock",
             "ypark", "blocked"}
Points   == Holding \cup YHolding \cup Parked \cup Outside

-----------------------------------------------------------------------------
(* Who could run now: threads_ready.cpp and scheduler_has_waiter.          *)

(* guest_thread_ready_to_run of a used, unfinished record. *)
ReadyToRun(u) ==
  \/ state[u] = "COND" /\ (u \in ready \/ deadline[u] = "passed")
  \/ state[u] \in {"SUSPENDED", "NEW"} /\ suspended[u] = 0

OthersLive(t) == live > (IF life[t] = "live" THEN 1 ELSE 0)

AnyReady(t) == \E u \in Threads \ {t} : life[u] = "live" /\ ReadyToRun(u)

HasWaiter(t) == waiters > 0 \/ (OthersLive(t) /\ AnyReady(t))

(* The answers a yielding thread can get.  It scans the records without    *)
(* g_lock; while another thread owns that lock and changes them, the scan  *)
(* can find anything.                                                      *)
Glimpse(t) ==
  LET Scan == IF lock = NoThread THEN {AnyReady(t)} ELSE BOOLEAN
  IN  {waiters > 0 \/ (OthersLive(t) /\ found) : found \in Scan}

(* guest_thread_mark_cond_ready. *)
MarkedReady ==
  ready \cup {u \in Threads : life[u] = "live" /\ state[u] = "COND"}

(* guest_cond_broadcast: marks the records, then wakes g_cond only when    *)
(* the counter says that somebody is parked on it.                         *)
SomebodyParked == condWaiters > 0

CondBroadcast ==
  /\ ready' = MarkedReady
  /\ condQueue' = IF SomebodyParked THEN {} ELSE condQueue

-----------------------------------------------------------------------------
(* guest_lock: trylock, then the counted blocking lock.                    *)
(*                                                                         *)
(* An operator Name_Slip, here and below, is Name with a slip a programmer *)
(* could make; no specification uses it.  The runs must notice the slip.   *)

Goto(t, p) == pc' = [pc EXCEPT ![t] = p]

LockFree_Unchecked == TRUE
LockFree == lock = NoThread

TryLock(t) ==
  /\ pc[t] = "try"
  /\ IF LockFree
       THEN lock' = t /\ Goto(t, "taken")
       ELSE lock' = lock /\ Goto(t, "contend")
  /\ UNCHANGED <<ylock, counts, queues, record, tls, via>>

Contend(t) ==
  /\ pc[t] = "contend"
  /\ waiters' = waiters + 1
  /\ state' = [state EXCEPT ![t] = "LOCK"]
  /\ Goto(t, "lockwait")
  /\ UNCHANGED <<locks, condWaiters, yielders, live, queues, life, suspended,
                 deadline, ready, tls, via>>

AcquireLock(t) ==
  /\ pc[t] = "lockwait"
  /\ lock = NoThread
  /\ lock' = t
  /\ Goto(t, "unwait")
  /\ UNCHANGED <<ylock, counts, queues, record, tls, via>>

UnWait_Forgotten(t) ==
  /\ pc[t] = "unwait"
  /\ Goto(t, "taken")
  /\ UNCHANGED <<locks, counts, queues, record, tls, via>>

UnWait(t) ==
  /\ pc[t] = "unwait"
  /\ waiters' = waiters - 1
  /\ Goto(t, "taken")
  /\ UNCHANGED <<locks, condWaiters, yielders, live, queues, record, tls, via>>

(* guest_yield_turn_taken: advance g_acquires, look at g_yielders, wake.   *)
TurnTaken(t) ==
  /\ pc[t] = "taken"
  /\ fresh' = {}
  /\ Goto(t, "peek")
  /\ UNCHANGED <<locks, counts, condQueue, yieldQueue, record, tls, via>>

NobodyYields_OffByOne == yielders <= 1
NobodyYields == yielders = 0

PeekYielders(t) ==
  /\ pc[t] = "peek"
  /\ Goto(t, IF NobodyYields THEN "settle" ELSE "wake")
  /\ UNCHANGED <<locks, counts, queues, record, tls, via>>

WakeYielders(t) ==
  /\ pc[t] = "wake"
  /\ ylock = NoThread
  /\ yieldQueue' = {}
  /\ Goto(t, "settle")
  /\ UNCHANGED <<locks, counts, condQueue, fresh, record, tls, via>>

(* Park in guest_suspend_point: one pthread_cond_wait of its loop. *)
ParkSuspended(t) ==
  /\ state' = [state EXCEPT ![t] = "SUSPENDED"]
  /\ condWaiters' = condWaiters + 1
  /\ condQueue' = condQueue \cup {t}
  /\ lock' = NoThread
  /\ Goto(t, "susp")

(* The end of every way to come by g_lock: bind the TLS bank, honour a     *)
(* suspend that arrived meanwhile, and run guest code.  The loop of        *)
(* guest_suspend_point goes back to sleep before it binds the bank.        *)
MustPark_NotAfterWait(t) == suspended[t] > 0 /\ via[t] # "cond"
MustPark(t) == suspended[t] > 0

BoundBank_NotAfterSuspend(t) == IF via[t] = "susp" THEN tls ELSE t
BoundBank(t) == IF via[t] = "susp" /\ MustPark(t) THEN tls ELSE t

Settle(t) ==
  /\ pc[t] = "settle"
  /\ tls' = BoundBank(t)
  /\ IF MustPark(t)
       THEN ParkSuspended(t)
       ELSE /\ state' = [state EXCEPT ![t] = "RUNNING"]
            /\ Goto(t, "guest")
            /\ UNCHANGED <<lock, condWaiters, condQueue>>
  /\ via' = [via EXCEPT ![t] = "lock"]
  /\ UNCHANGED <<ylock, waiters, yielders, live, yieldQueue, fresh, life,
                 suspended, deadline, ready>>

-----------------------------------------------------------------------------
(* guest_yield_turn, entered by guest_quantum and by Sleep(0).             *)

Yield(t) ==
  /\ "yield" \in Ops
  /\ pc[t] = "guest"
  /\ HasWaiter(t)
  /\ fresh' = fresh \cup {t}
  /\ lock' = NoThread
  /\ Goto(t, "released")
  /\ UNCHANGED <<ylock, counts, condQueue, yieldQueue, record, tls, via>>

EpochMoved_Ignored(t) == TRUE
EpochMoved(t) == t \notin fresh

Released(t) ==
  /\ pc[t] = "released"
  /\ Goto(t, IF EpochMoved(t) THEN "try" ELSE "ylock")
  /\ UNCHANGED <<locks, counts, queues, record, tls, via>>

YieldLock(t) ==
  /\ pc[t] = "ylock"
  /\ ylock = NoThread
  /\ \E seen \in Glimpse(t) :
       IF seen THEN ylock' = t /\ Goto(t, "ycount")
               ELSE ylock' = ylock /\ Goto(t, "try")
  /\ UNCHANGED <<lock, counts, queues, record, tls, via>>

YieldCount(t) ==
  /\ pc[t] = "ycount"
  /\ yielders' = yielders + 1
  /\ Goto(t, "ytest")
  /\ UNCHANGED <<locks, waiters, condWaiters, live, queues, record, tls, via>>

(* The loop's test and, when it holds, pthread_cond_timedwait. *)
YieldTest(t) ==
  /\ pc[t] = "ytest"
  /\ \E seen \in Glimpse(t) :
       IF ~EpochMoved(t) /\ seen
         THEN /\ ylock' = NoThread
              /\ yieldQueue' = yieldQueue \cup {t}
              /\ Goto(t, "ypark")
         ELSE /\ UNCHANGED <<ylock, yieldQueue>>
              /\ Goto(t, "yleave")
  /\ UNCHANGED <<lock, counts, condQueue, fresh, record, tls, via>>

(* Broadcast or not: the wait is over after YIELD_SLICE_MS at the latest.  *)
YieldWake(t) ==
  /\ pc[t] = "ypark"
  /\ ylock = NoThread
  /\ ylock' = t
  /\ yieldQueue' = yieldQueue \ {t}
  /\ Goto(t, "ytest")
  /\ UNCHANGED <<lock, counts, condQueue, fresh, record, tls, via>>

YieldLeave_StillLocked(t) ==
  /\ pc[t] = "yleave"
  /\ yielders' = yielders - 1
  /\ Goto(t, "try")
  /\ UNCHANGED <<locks, waiters, condWaiters, live, queues, record, tls, via>>

YieldLeave(t) ==
  /\ pc[t] = "yleave"
  /\ yielders' = yielders - 1
  /\ ylock' = NoThread
  /\ Goto(t, "try")
  /\ UNCHANGED <<lock, waiters, condWaiters, live, queues, record, tls, via>>

-----------------------------------------------------------------------------
(* guest_cond_wait_us, and the end of either kind of wait on g_cond.       *)

CondWait(t) ==
  /\ "wait" \in Ops
  /\ pc[t] = "guest"
  /\ \E d \in {"never", "ahead"} : deadline' = [deadline EXCEPT ![t] = d]
  /\ ready' = ready \ {t}
  /\ state' = [state EXCEPT ![t] = "COND"]
  /\ condWaiters' = condWaiters + 1
  /\ condQueue' = condQueue \cup {t}
  /\ lock' = NoThread
  /\ Goto(t, "cond")
  /\ UNCHANGED <<ylock, waiters, yielders, live, yieldQueue, fresh, life,
                 suspended, tls, via>>

(* Guest time reaches the deadline of a wait. *)
ClockReaches(t) ==
  /\ pc[t] = "cond"
  /\ deadline[t] = "ahead"
  /\ deadline' = [deadline EXCEPT ![t] = "passed"]
  /\ UNCHANGED <<locks, counts, queues, life, state, suspended, ready, tls,
                 via, pc>>

(* pthread_cond_(timed)wait returns holding g_lock.                        *)
CondWake(t) ==
  /\ pc[t] = "cond"
  /\ lock = NoThread
  /\ lock' = t
  /\ condWaiters' = condWaiters - 1
  /\ condQueue' = condQueue \ {t}
  /\ ready' = ready \ {t}
  /\ deadline' = [deadline EXCEPT ![t] = "passed"]
  /\ via' = [via EXCEPT ![t] = "cond"]
  /\ Goto(t, "taken")
  /\ UNCHANGED <<ylock, waiters, yielders, live, yieldQueue, fresh, life,
                 state, suspended, tls>>

SuspWake(t) ==
  /\ pc[t] = "susp"
  /\ lock = NoThread
  /\ lock' = t
  /\ condWaiters' = condWaiters - 1
  /\ condQueue' = condQueue \ {t}
  /\ via' = [via EXCEPT ![t] = "susp"]
  /\ Goto(t, "taken")
  /\ UNCHANGED <<ylock, waiters, yielders, live, yieldQueue, fresh, record,
                 tls>>

(* A wait ends because it was signalled or timed out, or for no reason.    *)
WakeFromWait(t)    == (t \notin condQueue \/ deadline[t] = "passed") /\ CondWake(t)
WakeFromSuspend(t) == t \notin condQueue /\ SuspWake(t)
SpuriousWake(t)    == Spurious /\ t \in condQueue /\ (CondWake(t) \/ SuspWake(t))

-----------------------------------------------------------------------------
(* What the thread that runs guest code can ask of the scheduler.          *)

Broadcast(t) ==
  /\ "broadcast" \in Ops
  /\ pc[t] = "guest"
  /\ CondBroadcast
  /\ UNCHANGED <<locks, counts, yieldQueue, fresh, life, state, suspended,
                 deadline, tls, via, pc>>

BlockingBegin(t) ==
  /\ "block" \in Ops
  /\ pc[t] = "guest"
  /\ state' = [state EXCEPT ![t] = "BLOCKING"]
  /\ lock' = NoThread
  /\ Goto(t, "blocked")
  /\ UNCHANGED <<ylock, counts, queues, life, suspended, deadline, ready, tls,
                 via>>

BlockingEnd(t) ==
  /\ pc[t] = "blocked"
  /\ Goto(t, "try")
  /\ UNCHANGED <<locks, counts, queues, record, tls, via>>

(* guest_thread_suspend: another thread is only counted down; suspending   *)
(* oneself parks at once.                                                  *)
ParksItself_Never(t, u) == FALSE
ParksItself(t, u) == u = t

Suspend(t, u) ==
  /\ "suspend" \in Ops
  /\ pc[t] = "guest"
  /\ life[u] # "free"
  /\ suspended[u] < MaxSuspend
  /\ suspended' = [suspended EXCEPT ![u] = @ + 1]
  /\ IF ParksItself(t, u)
       THEN ParkSuspended(t)
       ELSE UNCHANGED <<lock, condWaiters, condQueue, state, pc>>
  /\ UNCHANGED <<ylock, waiters, yielders, live, yieldQueue, fresh, life,
                 deadline, ready, tls, via>>

(* guest_thread_resume: broadcasts only when the last level is removed.    *)
Lowered_NoFloor(n) == n - 1
Lowered(n) == IF n > 0 THEN n - 1 ELSE n

LastLevel_Nested(n) == n > 1
LastLevel(n) == n = 1

Resume(t, u) ==
  /\ "resume" \in Ops
  /\ pc[t] = "guest"
  /\ life[u] # "free"
  /\ suspended' = [suspended EXCEPT ![u] = Lowered(@)]
  /\ IF LastLevel(suspended[u]) THEN CondBroadcast ELSE UNCHANGED <<ready, condQueue>>
  /\ UNCHANGED <<locks, counts, yieldQueue, fresh, life, state, deadline, tls,
                 via, pc>>

(* guest_thread_create_ex takes a free record and starts a pthread, which  *)
(* begins in guest_lock.  (The code takes the lowest free record; records  *)
(* are interchangeable here.)                                              *)
Create(t, s) ==
  /\ "create" \in Ops
  /\ pc[t] = "guest"
  /\ life[s] = "free"
  /\ life' = [life EXCEPT ![s] = "live"]
  /\ state' = [state EXCEPT ![s] = "NEW"]
  /\ \E n \in {0, 1} : suspended' = [suspended EXCEPT ![s] = n]
  /\ deadline' = [deadline EXCEPT ![s] = "passed"]
  /\ ready' = ready \ {s}
  /\ live' = live + 1
  /\ Goto(s, "try")
  /\ UNCHANGED <<locks, waiters, condWaiters, yielders, queues, tls, via>>

(* The end of thread_main, and guest_thread_exit. *)
Exit(t) ==
  /\ "exit" \in Ops
  /\ t \in Slots
  /\ pc[t] = "guest"
  /\ life' = [life EXCEPT ![t] = "finished"]
  /\ live' = live - 1
  /\ state' = [state EXCEPT ![t] = "DONE"]
  /\ CondBroadcast
  /\ lock' = NoThread
  /\ Goto(t, "none")
  /\ UNCHANGED <<ylock, waiters, condWaiters, yielders, yieldQueue, fresh,
                 suspended, deadline, tls, via>>

(* guest_thread_handle_closed of the last handle of a finished thread. *)
MayReap_Running(s) == life[s] # "free"
MayReap(s) == life[s] = "finished"

Reap(t, s) ==
  /\ pc[t] = "guest"
  /\ MayReap(s)
  /\ life' = [life EXCEPT ![s] = "free"]
  /\ UNCHANGED <<locks, counts, queues, state, suspended, deadline, ready, tls,
                 via, pc>>

-----------------------------------------------------------------------------
(* sched_attach_main, with the process main thread inside guest code.      *)
Init ==
  /\ lock = Main /\ ylock = NoThread
  /\ waiters = 0 /\ condWaiters = 0 /\ yielders = 0 /\ live = 1
  /\ condQueue = {} /\ yieldQueue = {} /\ fresh = {} /\ ready = {}
  /\ tls = Main
  /\ life = [t \in Threads |-> IF t = Main THEN "live" ELSE "free"]
  /\ state = [t \in Threads |-> IF t = Main THEN "RUNNING" ELSE "NEW"]
  /\ suspended = [t \in Threads |-> 0]
  /\ deadline = [t \in Threads |-> "passed"]
  /\ via = [t \in Threads |-> "lock"]
  /\ pc = [t \in Threads |-> IF t = Main THEN "guest" ELSE "none"]

LockStep(t) ==
  \/ TryLock(t) \/ Contend(t) \/ AcquireLock(t) \/ UnWait(t)
  \/ TurnTaken(t) \/ PeekYielders(t) \/ WakeYielders(t) \/ Settle(t)

YieldStep(t) ==
  \/ Released(t) \/ YieldLock(t) \/ YieldCount(t) \/ YieldTest(t)
  \/ YieldWake(t) \/ YieldLeave(t)

GuestStep(t) ==
  \/ Yield(t) \/ CondWait(t) \/ Broadcast(t) \/ BlockingBegin(t) \/ Exit(t)
  \/ \E u \in Threads : Suspend(t, u) \/ Resume(t, u)
  \/ \E s \in Slots : Create(t, s) \/ Reap(t, s)

WaitStep(t) ==
  \/ ClockReaches(t) \/ WakeFromWait(t) \/ WakeFromSuspend(t)
  \/ SpuriousWake(t) \/ BlockingEnd(t)

Next == \E t \in Threads :
          LockStep(t) \/ YieldStep(t) \/ GuestStep(t) \/ WaitStep(t)

Spec == Init /\ [][Next]_vars

(* The host schedules every pthread that can take a step; the mutexes and  *)
(* condition variables promise no order.  The JIT calls guest_quantum      *)
(* after every slice, so a running thread keeps offering its turn.         *)
Fairness ==
  \A t \in Threads :
    /\ WF_vars(LockStep(t))
    /\ WF_vars(YieldStep(t))
    /\ WF_vars(Yield(t))
    /\ WF_vars(WakeFromSuspend(t))

FairSpec == Spec /\ Fairness
=============================================================================
