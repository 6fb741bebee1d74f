-------------------------- MODULE CriticalSection --------------------------
(***************************************************************************)
(* One Win32 critical section: the CriticalSection calls of                *)
(* src/src/native/kernel32.cpp, working on the guest's own                 *)
(* RTL_CRITICAL_SECTION fields.                                            *)
(*                                                                         *)
(* A call runs with the guest lock held from its first to its last line,   *)
(* except inside guest_cond_wait_us, so it is one step up to that wait and *)
(* one step from each return of it (GuestScheduler).  The guest is free to *)
(* misuse the section the way libCriMovie does: to leave it without owning *)
(* it, and to delete or initialize it while it is in use.                  *)
(***************************************************************************)
EXTENDS Integers, FiniteSets

CONSTANTS
  Threads,   \* guest thread ids
  Nobody,    \* OwningThread = 0
  MaxDepth,  \* bound on recursive enters (the code has none)
  MaxRenews  \* bound on how often the section is initialized or deleted

ASSUME ThreadsAreFinite == IsFiniteSet(Threads)
ASSUME NobodyIsNoThread == Nobody \notin Threads
ASSUME MaxDepthIsPositive == MaxDepth \in Nat \ {0}
ASSUME MaxRenewsIsNat == MaxRenews \in Nat

VARIABLES
  owner,      \* OwningThread
  recursion,  \* RecursionCount
  lockCount,  \* LockCount
  mode,       \* per thread: running guest code ("out" of the wait loop of
              \* Enter), or in that loop: "asleep" on g_cond, or "awake"
  inside,     \* history: per thread, its enters less its leaves since the
              \* section was last initialized or deleted
  freedBy,    \* history: what last freed it: a "leave", or a "renewal"
  renewals    \* history: how often it was initialized or deleted

section     == <<owner, recursion, lockCount>>
sectionVars == <<section, mode, inside, freedBy, renewals>>

-----------------------------------------------------------------------------
(* InitializeCriticalSection, ...AndSpinCount and DeleteCriticalSection    *)
(* write the same three fields, and wake nobody.                           *)
FreeLockCount == -1

Renew(t) ==
  /\ mode[t] = "out"
  /\ renewals < MaxRenews
  /\ renewals' = renewals + 1
  /\ owner' = Nobody /\ recursion' = 0 /\ lockCount' = FreeLockCount
  /\ inside' = [u \in Threads |-> 0]
  /\ freedBy' = "renewal"
  /\ UNCHANGED mode

(* cs_try_take: when it succeeds, and what it leaves in the fields.        *)
MayTake(t) == owner \in {Nobody, t}

TakenLockCount_Kept == lockCount
TakenLockCount == IF owner = Nobody THEN 0 ELSE lockCount

Take(t) ==
  /\ owner' = t
  /\ recursion' = IF owner = t THEN recursion + 1 ELSE 1
  /\ inside' = [inside EXCEPT ![t] = @ + 1]
  /\ UNCHANGED <<freedBy, renewals>>

Enter(t) ==
  /\ mode[t] = "out"
  /\ MayTake(t)
  /\ inside[t] < MaxDepth
  /\ Take(t)
  /\ lockCount' = TakenLockCount
  /\ UNCHANGED mode

(* The first attempt of EnterCriticalSection fails. *)
Contend(t) ==
  /\ mode[t] = "out"
  /\ ~MayTake(t)
  /\ lockCount' = lockCount + 1
  /\ mode' = [mode EXCEPT ![t] = "asleep"]
  /\ UNCHANGED <<owner, recursion, inside, freedBy, renewals>>

(* The wait is over: one second has passed, or something else broadcast.   *)
WaitIsTimed_Infinite == FALSE
WaitIsTimed == TRUE

Wake(t) ==
  /\ mode[t] = "asleep"
  /\ WaitIsTimed
  /\ mode' = [mode EXCEPT ![t] = "awake"]
  /\ UNCHANGED <<section, inside, freedBy, renewals>>

TakeLate(t) ==
  /\ mode[t] = "awake"
  /\ MayTake(t)
  /\ Take(t)
  /\ lockCount' = TakenLockCount - 1
  /\ mode' = [mode EXCEPT ![t] = "out"]

SleepAgain(t) ==
  /\ mode[t] = "awake"
  /\ ~MayTake(t)
  /\ mode' = [mode EXCEPT ![t] = "asleep"]
  /\ UNCHANGED <<section, inside, freedBy, renewals>>

TryEnter(t) ==
  /\ mode[t] = "out"
  /\ IF MayTake(t)
       THEN inside[t] < MaxDepth /\ Take(t) /\ lockCount' = TakenLockCount
       ELSE UNCHANGED <<section, inside, freedBy, renewals>>
  /\ UNCHANGED mode

-----------------------------------------------------------------------------
(* LeaveCriticalSection: reported and ignored unless the caller owns it.   *)
(* (Name_Slip is Name with a slip a programmer could make; the runs must   *)
(* notice it, no specification uses it.)                                   *)
MayLeave_Foreign(t) == owner # Nobody
MayLeave(t) == owner = t

Nested_OffByOne == recursion >= 1
Nested == recursion > 1

LeaveAsStranger(t) ==
  /\ mode[t] = "out"
  /\ ~MayLeave(t)
  /\ UNCHANGED sectionVars

LeaveNested(t) ==
  /\ mode[t] = "out"
  /\ MayLeave(t)
  /\ Nested
  /\ recursion' = recursion - 1
  /\ inside' = [inside EXCEPT ![t] = @ - 1]
  /\ UNCHANGED <<owner, lockCount, mode, freedBy, renewals>>

Awoken_Nobody == mode
Awoken == [u \in Threads |-> IF mode[u] = "asleep" THEN "awake" ELSE mode[u]]

LeaveLast(t) ==
  /\ mode[t] = "out"
  /\ MayLeave(t)
  /\ ~Nested
  /\ owner' = Nobody /\ recursion' = 0 /\ lockCount' = FreeLockCount
  /\ inside' = [inside EXCEPT ![t] = IF @ > 0 THEN @ - 1 ELSE 0]
  /\ mode' = Awoken
  /\ freedBy' = "leave"
  /\ UNCHANGED renewals

-----------------------------------------------------------------------------
SectionInit ==
  /\ owner = Nobody /\ recursion = 0 /\ lockCount = -1
  /\ mode = [t \in Threads |-> "out"]
  /\ inside = [t \in Threads |-> 0]
  /\ freedBy = "leave" /\ renewals = 0

Leave(t) == LeaveAsStranger(t) \/ LeaveNested(t) \/ LeaveLast(t)

SectionNext ==
  \E t \in Threads :
    \/ Renew(t) \/ Enter(t) \/ Contend(t) \/ Wake(t) \/ TakeLate(t)
    \/ SleepAgain(t) \/ TryEnter(t) \/ Leave(t)

SectionSpec == SectionInit /\ [][SectionNext]_sectionVars

(* The wait is timed: a sleeper's second passes, whatever the others do.   *)
(* Nothing is assumed of who gets the guest lock, nor that an owner ever   *)
(* leaves.                                                                 *)
Fairness == \A t \in Threads : WF_sectionVars(Wake(t))

FairSpec == SectionSpec /\ Fairness

-----------------------------------------------------------------------------
(* The types of the section's fields and of the waiters' places.           *)
SectionType ==
  /\ owner \in Threads \cup {Nobody}
  /\ recursion \in Nat
  /\ lockCount \in Int
  /\ mode \in [Threads -> {"out", "asleep", "awake"}]
  /\ inside \in [Threads -> Nat]
  /\ freedBy \in {"leave", "renewal"}
  /\ renewals \in 0 .. MaxRenews

(* At most one thread is inside, and the fields say which and how deep,    *)
(* also after leaves by strangers and after the section was deleted or     *)
(* initialized under its owner (the "two threads inside at once" that      *)
(* LeaveCriticalSection refuses to cause).                                 *)
OneInside ==
  /\ \A t \in Threads : inside[t] = IF t = owner THEN recursion ELSE 0
  /\ owner = Nobody <=> recursion = 0

(* Nobody sleeps on a section that was left: the last leave woke everyone  *)
(* that was in the wait loop.  Only a section that was deleted or          *)
(* initialized under its waiters leaves them to their one-second timeout.  *)
NoSleeperOnFree ==
  owner = Nobody /\ freedBy = "leave" => \A t \in Threads : mode[t] # "asleep"

(* What code that reads LockCount directly can rely on: a free section     *)
(* reads -1, and it never reads less, though every contended enter         *)
(* subtracts one after somebody else's leave has reset the field.          *)
LockCountFloor ==
  /\ lockCount >= -1
  /\ owner = Nobody => lockCount = -1

(* A thread in the wait loop of EnterCriticalSection is not the owner.     *)
WaitersOwnNothing == \A t \in Threads : mode[t] # "out" => owner # t

(* The inductive invariant of the proofs. *)
SectionInv ==
  /\ SectionType /\ OneInside /\ NoSleeperOnFree /\ LockCountFloor
  /\ WaitersOwnNothing

(* A woken waiter gets the guest lock back, and so tests the section.  The *)
(* scheduler sees to it between two threads (ContenderGetsTurn), and with  *)
(* three only as far as the host's mutex does.                             *)
Retests(t) == WF_sectionVars(TakeLate(t) \/ SleepAgain(t))

(* A waiter that gets the guest lock back enters a section that stays      *)
(* free: it gets in unless another thread takes the section before it,     *)
(* also when the section was deleted or initialized under its waiters, so  *)
(* that no broadcast ever comes for it (the one-second wait of             *)
(* EnterCriticalSection).                                                  *)
WaiterGetsIn ==
  \A t \in Threads :
    Retests(t) => (mode[t] # "out" /\ MayTake(t)
                     ~> mode[t] = "out" \/ ~MayTake(t))
=============================================================================
