---------------------------- MODULE SyncObjects ----------------------------
(***************************************************************************)
(* Win32 semaphores, events and mutexes and the waits on them:             *)
(* src/src/native/kernel32_wait.cpp and the synchronisation calls of       *)
(* src/src/native/kernel32.cpp.                                            *)
(*                                                                         *)
(* A waiting call sleeps in guest_cond_wait_us until the next multimedia   *)
(* timer is due, until its deadline or until somebody broadcasts, runs the *)
(* timers that are due (guest code, on this thread, inside the wait) and   *)
(* only then looks at its objects again.  Everything else a call does is   *)
(* one step, because the caller holds the guest lock (GuestScheduler).     *)
(*                                                                         *)
(* A definition Name_Slip is Name with a slip a programmer could make; no  *)
(* action uses it.                                                         *)
(***************************************************************************)
EXTENDS Integers, Sequences, FiniteSets

CONSTANTS
  Threads,       \* guest thread ids
  Nobody,        \* owner_tid = 0
  Semaphores, AutoEvents, ManualEvents, Mutexes,   \* the objects, by kind
  Waits,         \* the waits the guest issues
  MaxCount,      \* lMaximumCount of the semaphores, and the bound on the
                 \* depth of the mutexes
  MaxPulses,     \* bound on the pulses of an event
  OnlyPulsed,    \* events created unsignalled that the guest never sets
  InitialOwner   \* may a mutex be created with bInitialOwner?

Events  == AutoEvents \cup ManualEvents
Objects == Semaphores \cup Events \cup Mutexes

(* WaitForSingleObject ("one") has one object in its array and heeds       *)
(* pulses; WaitForMultipleObjects waits for "any" or "all" of several.     *)
WaitRecords ==
  [how : {"one", "any", "all"}, on : Seq(Objects) \ {<< >>}, timed : BOOLEAN]

ASSUME ThreadsAreFinite == IsFiniteSet(Threads)
ASSUME NobodyIsNoThread == Nobody \notin Threads
ASSUME KindsAreDisjoint ==
  /\ Semaphores \cap (Events \cup Mutexes) = {}
  /\ Mutexes \cap Events = {}
  /\ AutoEvents \cap ManualEvents = {}
ASSUME WaitsAreWaits ==
  Waits \subseteq WaitRecords /\ \A w \in Waits : w.how = "one" => Len(w.on) = 1
ASSUME BoundsAreNat == MaxCount \in Nat \ {0} /\ MaxPulses \in Nat
ASSUME OnlyPulsedAreEvents == OnlyPulsed \subseteq Events
ASSUME InitialOwnerIsBoolean == InitialOwner \in BOOLEAN

VARIABLES
  made,     \* the objects created so far
  count,    \* Handle::count
  owner,    \* Handle::owner_tid
  waiters,  \* Handle::waiters
  pulses,   \* Handle::pulses
  mode,     \* per thread: "run"; in a wait: "asleep" on g_cond, or "awake",
            \* from the end of that sleep to the end of the timers' pump
  wait,     \* per thread: the wait it is in, or was in last
  pulse0,   \* per thread: pulses of its object when its wait began
  credit,   \* history: what the guest's calls should have left in a semaphore
  held,     \* history: per mutex and thread, waits satisfied less releases
  pulsed    \* history: threads that were waiting when their event was pulsed

object  == <<made, count, owner, waiters, pulses>>
waiting == <<mode, wait, pulse0>>
history == <<credit, held, pulsed>>
vars    == <<object, waiting, history>>

-----------------------------------------------------------------------------
(* sync_try_take: whether an object can be taken, and its count after.     *)
Takeable(t, o) ==
  IF o \in Mutexes THEN count[o] <= 0 \/ owner[o] = t ELSE count[o] > 0

CountTaken(o) ==
  IF o \in Mutexes THEN count[o] + 1
  ELSE IF o \in ManualEvents THEN count[o]
  ELSE count[o] - 1

On(w) == {w.on[i] : i \in DOMAIN w.on}

(* wfmo_try_all looks at every object before it takes any.                 *)
AllReady_LastUnseen(t, w) ==
  \A i \in DOMAIN w.on : i < Len(w.on) => Takeable(t, w.on[i])
AllReady(t, w) == \A o \in On(w) : Takeable(t, o)

(* The lowest index whose object can be taken.                             *)
FirstReady(t, w) ==
  {w.on[i] : i \in {j \in DOMAIN w.on :
     Takeable(t, w.on[j]) /\ \A k \in 1 .. j - 1 : ~Takeable(t, w.on[k])}}

(* The objects that the wait w of t would report as taken now; none when   *)
(* it is not satisfied.                                                    *)
Granted(t, w) ==
  IF w.how = "all" THEN IF AllReady(t, w) THEN On(w) ELSE {}
  ELSE FirstReady(t, w)

(* Take those objects and tell the guest so.                               *)
TakeAll(t, O) ==
  LET taken == {o \in O : Takeable(t, o)} IN
  /\ count' = [o \in Objects |-> IF o \in taken THEN CountTaken(o) ELSE count[o]]
  /\ owner' = [o \in Objects |-> IF o \in taken \cap Mutexes THEN t ELSE owner[o]]
  /\ credit' = [s \in Semaphores |-> IF s \in O THEN credit[s] - 1 ELSE credit[s]]
  /\ held' = [m \in Mutexes |->
       IF m \in O THEN [held[m] EXCEPT ![t] = @ + 1] ELSE held[m]]

(* guest_cond_broadcast, as seen by the waits.                             *)
Roused == [t \in Threads |-> IF mode[t] = "asleep" THEN "awake" ELSE mode[t]]

Waited_ByTwo(o) == waiters[o] > 1
Waited(o) == waiters[o] > 0

BroadcastFor(o) == mode' = IF Waited(o) THEN Roused ELSE mode

-----------------------------------------------------------------------------
(* WaitForSingleObject and WaitForMultipleObjects.  (With a timeout of     *)
(* zero they do what WaitSatisfied does, or nothing.)                      *)
DepthLeft(O) == \A m \in O \cap Mutexes : count[m] < MaxCount

WaitSatisfied(t, w) ==
  /\ mode[t] = "run"
  /\ On(w) \subseteq made
  /\ Granted(t, w) # {} /\ DepthLeft(Granted(t, w))
  /\ TakeAll(t, Granted(t, w))
  /\ UNCHANGED <<made, waiters, pulses, waiting, pulsed>>

Snapshot_Zero(w) == 0
Snapshot(w) == pulses[w.on[1]]

WaitBegins(t, w) ==
  /\ mode[t] = "run"
  /\ On(w) \subseteq made
  /\ Granted(t, w) = {}
  /\ waiters' = [o \in Objects |-> IF o \in On(w) THEN waiters[o] + 1 ELSE waiters[o]]
  /\ wait' = [wait EXCEPT ![t] = w]
  /\ pulse0' = [pulse0 EXCEPT ![t] = Snapshot(w)]
  /\ mode' = [mode EXCEPT ![t] = "asleep"]
  /\ pulsed' = pulsed \ {t}
  /\ UNCHANGED <<made, count, owner, pulses, credit, held>>

(* The sleep ends: a timer is due, the deadline is near, or another call   *)
(* that these objects know nothing of has broadcast.                       *)
Wake(t) ==
  /\ mode[t] = "asleep"
  /\ mode' = [mode EXCEPT ![t] = "awake"]
  /\ UNCHANGED <<object, wait, pulse0, history>>

WaitersLess_OnlyFirst(w) ==
  [o \in Objects |-> IF o = w.on[1] THEN waiters[o] - 1 ELSE waiters[o]]
WaitersLess(w) ==
  [o \in Objects |-> IF o \in On(w) THEN waiters[o] - 1 ELSE waiters[o]]

Return(t) ==
  /\ waiters' = WaitersLess(wait[t])
  /\ mode' = [mode EXCEPT ![t] = "run"]
  /\ UNCHANGED <<made, pulses, wait, pulse0>>

WaitGranted(t) ==
  /\ mode[t] = "awake"
  /\ Granted(t, wait[t]) # {} /\ DepthLeft(Granted(t, wait[t]))
  /\ TakeAll(t, Granted(t, wait[t]))
  /\ Return(t)
  /\ pulsed' = pulsed \ {t}

SeesPulse_Never(t) == FALSE
SeesPulse(t) == wait[t].how = "one" /\ pulses[wait[t].on[1]] # pulse0[t]

WaitPulsed(t) ==
  /\ mode[t] = "awake"
  /\ Granted(t, wait[t]) = {}
  /\ SeesPulse(t)
  /\ Return(t)
  /\ pulsed' = pulsed \ {t}
  /\ UNCHANGED <<count, owner, credit, held>>

WaitTimesOut(t) ==
  /\ mode[t] = "awake"
  /\ Granted(t, wait[t]) = {}
  /\ ~SeesPulse(t)
  /\ wait[t].timed
  /\ Return(t)
  /\ pulsed' = pulsed \ {t}
  /\ UNCHANGED <<count, owner, credit, held>>

WaitGoesOn(t) ==
  /\ mode[t] = "awake"
  /\ Granted(t, wait[t]) = {}
  /\ ~SeesPulse(t)
  /\ mode' = [mode EXCEPT ![t] = "asleep"]
  /\ UNCHANGED <<object, wait, pulse0, history>>

-----------------------------------------------------------------------------
(* The signalling calls, from guest code or from a timer callback that a   *)
(* waiting thread runs.                                                    *)
RunsGuestCode(t) == mode[t] \in {"run", "awake"}

SetEvent(t, e) ==
  /\ RunsGuestCode(t)
  /\ e \in made
  /\ e \notin OnlyPulsed
  /\ count' = [count EXCEPT ![e] = 1]
  /\ BroadcastFor(e)
  /\ UNCHANGED <<made, owner, waiters, pulses, wait, pulse0, history>>

ResetEvent(t, e) ==
  /\ RunsGuestCode(t)
  /\ e \in made
  /\ count' = [count EXCEPT ![e] = 0]
  /\ UNCHANGED <<made, owner, waiters, pulses, waiting, history>>

(* A pulse that nobody waits for is lost.                                  *)
WaitingOn(e) == {t \in Threads : mode[t] # "run" /\ e \in On(wait[t])}

PulseEvent(t, e) ==
  /\ RunsGuestCode(t)
  /\ Waited(e)
  /\ pulses[e] < MaxPulses
  /\ IF e \in ManualEvents
       THEN /\ pulses' = [pulses EXCEPT ![e] = @ + 1]
            /\ pulsed' = pulsed \cup WaitingOn(e)
            /\ UNCHANGED count
       ELSE /\ count' = [count EXCEPT ![e] = 1]
            /\ UNCHANGED <<pulses, pulsed>>
  /\ mode' = Roused
  /\ UNCHANGED <<made, owner, waiters, wait, pulse0, credit, held>>

WithinMaximum_OffByOne(n) == n <= MaxCount + 1
WithinMaximum(n) == n <= MaxCount

ReleaseSemaphore(t, s) ==
  /\ RunsGuestCode(t)
  /\ s \in made
  /\ \E n \in 1 .. MaxCount :
       /\ WithinMaximum(count[s] + n)
       /\ count' = [count EXCEPT ![s] = @ + n]
       /\ credit' = [credit EXCEPT ![s] = @ + n]
  /\ BroadcastFor(s)
  /\ UNCHANGED <<made, owner, waiters, pulses, wait, pulse0, held, pulsed>>

MayRelease_AnyHolder(t, m) == count[m] > 0
MayRelease(t, m) == count[m] > 0 /\ owner[m] = t

ReleaseMutex(t, m) ==
  /\ RunsGuestCode(t)
  /\ MayRelease(t, m)
  /\ count' = [count EXCEPT ![m] = @ - 1]
  /\ held' = [held EXCEPT ![m][t] = @ - 1]
  /\ IF count[m] = 1
       THEN owner' = [owner EXCEPT ![m] = Nobody] /\ BroadcastFor(m)
       ELSE UNCHANGED <<owner, mode>>
  /\ UNCHANGED <<made, waiters, pulses, wait, pulse0, credit, pulsed>>

-----------------------------------------------------------------------------
(* CreateSemaphoreA, CreateEventA and CreateMutexA.  A mutex created with  *)
(* an initial owner is held one deep; owner_tid stays 0.                   *)
InitialCounts(o) ==
  IF o \in Semaphores THEN 0 .. MaxCount
  ELSE IF o \in Events THEN IF o \in OnlyPulsed THEN {0} ELSE {0, 1}
  ELSE IF InitialOwner THEN {0, 1} ELSE {0}

Create(t, o) ==
  /\ RunsGuestCode(t)
  /\ o \notin made
  /\ made' = made \cup {o}
  /\ \E n \in InitialCounts(o) :
       /\ count' = [count EXCEPT ![o] = n]
       /\ credit' = [s \in Semaphores |-> IF s = o THEN n ELSE credit[s]]
       /\ held' = [m \in Mutexes |->
            IF m = o THEN [held[m] EXCEPT ![t] = n] ELSE held[m]]
  /\ UNCHANGED <<owner, waiters, pulses, waiting, pulsed>>

Init ==
  /\ made = {}
  /\ count = [o \in Objects |-> 0]
  /\ owner = [o \in Objects |-> Nobody]
  /\ waiters = [o \in Objects |-> 0]
  /\ pulses = [o \in Objects |-> 0]
  /\ mode = [t \in Threads |-> "run"]
  /\ wait \in [Threads -> {CHOOSE w \in Waits : TRUE}]
  /\ pulse0 = [t \in Threads |-> 0]
  /\ credit = [s \in Semaphores |-> 0]
  /\ held = [m \in Mutexes |-> [t \in Threads |-> 0]]
  /\ pulsed = {}

WaitStep(t) ==
  \/ WaitGranted(t) \/ WaitPulsed(t) \/ WaitTimesOut(t) \/ WaitGoesOn(t)

Next ==
  \E t \in Threads :
    \/ \E w \in Waits : WaitSatisfied(t, w) \/ WaitBegins(t, w)
    \/ Wake(t) \/ WaitStep(t)
    \/ \E o \in Objects : Create(t, o)
    \/ \E e \in Events : SetEvent(t, e) \/ ResetEvent(t, e) \/ PulseEvent(t, e)
    \/ \E s \in Semaphores : ReleaseSemaphore(t, s)
    \/ \E m \in Mutexes : ReleaseMutex(t, m)

Spec == Init /\ [][Next]_vars

(* A thread whose sleep has ended runs; the sleep of a wait with a         *)
(* deadline ends by itself; and time passes, so that such a wait does not  *)
(* find its deadline ahead for ever.                                       *)
Fairness ==
  \A t \in Threads :
    /\ WF_vars(WaitStep(t))
    /\ WF_vars(wait[t].timed /\ Wake(t))
    /\ SF_vars(WaitTimesOut(t))

FairSpec == Spec /\ Fairness
=============================================================================
