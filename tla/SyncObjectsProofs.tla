------------------------- MODULE SyncObjectsProofs --------------------------
(***************************************************************************)
(* Proofs about SyncObjects, for any number of threads, objects and waits. *)
(*                                                                         *)
(* The invariants follow in three layers.  WaitInv: Handle::waiters counts *)
(* exactly the threads inside a wait, and such a wait's objects exist.     *)
(* TakenInv, on its own: what an object has left is what the guest's       *)
(* satisfied waits and releases say.  SignalInv, with WaitInv: an object   *)
(* becomes takeable for a thread only where a broadcast that is guarded by *)
(* waiters wakes it, or where nobody waits for it.                         *)
(***************************************************************************)
EXTENDS SyncObjectsProps, FiniteSetTheorems, WellFoundedInduction, TLAPS

ObjectType ==
  /\ made \subseteq Objects
  /\ count \in [Objects -> Nat]
  /\ owner \in [Objects -> Threads \cup {Nobody}]
  /\ waiters \in [Objects -> Nat]
  /\ pulses \in [Objects -> Nat]

WaitingType ==
  /\ mode \in [Threads -> {"run", "asleep", "awake"}]
  /\ DOMAIN wait = Threads
  /\ pulse0 \in [Threads -> Nat]
  /\ pulsed \subseteq Threads

HistoryType ==
  /\ credit \in [Semaphores -> Int]
  /\ held \in [Mutexes -> [Threads -> Int]]

(* A wait that has begun is one of the guest's, on objects that exist; an  *)
(* object that does not exist has nothing to take.                         *)
WaitsAreOnMade ==
  \A t \in Threads : mode[t] # "run" => wait[t] \in Waits /\ On(wait[t]) \subseteq made

UnmadeIsEmpty == \A o \in Objects \ made : count[o] = 0 /\ owner[o] = Nobody

WaitInv == ObjectType /\ WaitingType /\ HistoryType /\ WaitsAreOnMade /\ WaitersExact

TakenInv == UnmadeIsEmpty /\ SemaphoreConserved

(* pulses counts up, so a snapshot of it is never passed from below.       *)
PulsesGoUp ==
  \A t \in Threads : mode[t] # "run" => pulse0[t] <= pulses[wait[t].on[1]]

-----------------------------------------------------------------------------
(* A set of naturals has a least one.                                      *)
LEMMA Least ==
  ASSUME NEW T \in SUBSET Nat, T # {}
  PROVE  \E x \in T : \A y \in T : x <= y
<1> DEFINE R == {ss \in Nat \X Nat : ss[1] < ss[2]}
<1>1. OpToRel(<, Nat) = R
  BY Zenon DEF OpToRel
<1>2. IsWellFoundedOn(R, Nat)
  BY <1>1, NatLessThanWellFounded, Zenon
<1>3. PICK x \in T : \A y \in T : <<y, x>> \notin R
  <2> HIDE DEF R
  <2> QED
    BY <1>2, WFMin
<1>4. ASSUME NEW y \in T PROVE x <= y
  <2>1. <<y, x>> \in Nat \X Nat /\ <<y, x>> \notin R
    BY <1>3
  <2>2. ~(y < x)
    BY <2>1
  <2> QED
    BY <2>2
<1> QED
  BY <1>4

(* The parts of a wait.                                                    *)
LEMMA WaitParts ==
  ASSUME NEW w \in Waits
  PROVE  /\ w.how \in {"one", "any", "all"}
         /\ DOMAIN w.on = 1 .. Len(w.on) /\ Len(w.on) \in Nat \ {0}
         /\ On(w) \subseteq Objects /\ w.on[1] \in On(w)
         /\ w.how = "one" => On(w) = {w.on[1]}
<1>1. w.how \in {"one", "any", "all"} /\ w.on \in Seq(Objects) /\ w.on # << >>
      /\ (w.how = "one" => Len(w.on) = 1)
  BY WaitsAreWaits DEF WaitRecords
<1>2. DOMAIN w.on = 1 .. Len(w.on) /\ Len(w.on) \in Nat /\ Len(w.on) # 0
  BY <1>1
<1>3. \A i \in DOMAIN w.on : w.on[i] \in Objects
  BY <1>1
<1>4. 1 \in DOMAIN w.on
  BY <1>2
<1> QED
  BY <1>1, <1>2, <1>3, <1>4 DEF On

(* The objects of a satisfied wait can all be taken.                       *)
LEMMA GrantedAreReady ==
  ASSUME NEW t \in Threads, NEW w \in Waits
  PROVE  /\ Granted(t, w) \subseteq On(w)
         /\ \A o \in Granted(t, w) : Takeable(t, o)
<1>1. FirstReady(t, w) \subseteq On(w) /\ \A o \in FirstReady(t, w) : Takeable(t, o)
  BY DEF FirstReady, On
<1> QED
  BY <1>1 DEF Granted, AllReady

(* Can and Barred are Takeable and "nothing is granted" for given fields.  *)
Can(c, ow, t, o) ==
  IF o \in Mutexes THEN c[o] <= 0 \/ ow[o] = t ELSE c[o] > 0

Barred(c, ow, t, w) ==
  IF w.how = "all" THEN \E o \in On(w) : ~Can(c, ow, t, o)
  ELSE \A o \in On(w) : ~Can(c, ow, t, o)

SleepersBarred ==
  \A t \in Threads :
    mode[t] = "asleep" => Barred(count, owner, t, wait[t]) /\ ~SeesPulse(t)

SignalInv == SleepersBarred /\ PulseIsExact /\ PulsesGoUp

IInv == WaitInv /\ TakenInv /\ SignalInv

(* A wait is not satisfied exactly when it is barred: its first object     *)
(* that can be taken is a least index.                                     *)
LEMMA NoneGranted ==
  ASSUME NEW t \in Threads, NEW w \in Waits
  PROVE  Granted(t, w) = {} <=> Barred(count, owner, t, w)
<1>1. \A o : Takeable(t, o) <=> Can(count, owner, t, o)
  BY DEF Takeable, Can
<1>2. On(w) # {}
  BY WaitParts
<1>3. CASE w.how = "all"
  BY <1>1, <1>2, <1>3 DEF Granted, AllReady, Barred
<1>4. CASE w.how # "all"
  <2>1. ASSUME NEW i \in DOMAIN w.on, Takeable(t, w.on[i])
        PROVE  FirstReady(t, w) # {}
    <3> DEFINE J == {j \in DOMAIN w.on : Takeable(t, w.on[j])}
    <3>1. J \in SUBSET Nat /\ J # {}
      BY <2>1, WaitParts
    <3>2. PICK j \in J : \A k \in J : j <= k
      <4> HIDE DEF J
      <4> QED
        BY <3>1, Least
    <3>3. \A k \in 1 .. j - 1 : k \in DOMAIN w.on /\ ~(j <= k)
      BY WaitParts
    <3>4. \A k \in 1 .. j - 1 : ~Takeable(t, w.on[k])
      BY <3>2, <3>3
    <3> QED
      BY <3>2, <3>4 DEF FirstReady
  <2>2. \A o \in On(w) : \E i \in DOMAIN w.on : o = w.on[i]
    BY DEF On
  <2>3. FirstReady(t, w) = {} => \A o \in On(w) : ~Takeable(t, o)
    BY <2>1, <2>2
  <2>4. FirstReady(t, w) # {} => \E o \in On(w) : Takeable(t, o)
    BY DEF FirstReady, On
  <2> QED
    BY <1>1, <1>4, <2>3, <2>4 DEF Granted, Barred
<1> QED
  BY <1>3, <1>4

(* A thread stays barred from what becomes no easier to take.              *)
LEMMA StaysBarred ==
  ASSUME NEW c, NEW ow, NEW c2, NEW ow2, NEW t \in Threads, NEW w \in Waits,
         Barred(c, ow, t, w),
         \A o \in On(w) : Can(c2, ow2, t, o) => Can(c, ow, t, o)
  PROVE  Barred(c2, ow2, t, w)
  BY DEF Barred

-----------------------------------------------------------------------------
(* WaitingOn, for given modes and waits.                                   *)
InWait(m, w, o) == {t \in Threads : m[t] # "run" /\ o \in On(w[t])}

(* WaitersExact, with WaitingOn written for the fields of either state.    *)
LEMMA WaitersCount ==
  /\ WaitersExact <=> \A o \in Objects : waiters[o] = Cardinality(InWait(mode, wait, o))
  /\ WaitersExact' <=>
       \A o \in Objects : waiters'[o] = Cardinality(InWait(mode', wait', o))
  BY DEF WaitersExact, WaitingOn, InWait, On

(* What a satisfied wait does to its objects.                              *)
LEMMA Takes ==
  ASSUME NEW t \in Threads, NEW w \in Waits, TakeAll(t, Granted(t, w))
  PROVE  LET O == Granted(t, w) IN
         /\ count' = [o \in Objects |-> IF o \in O THEN CountTaken(o) ELSE count[o]]
         /\ owner' = [o \in Objects |-> IF o \in O /\ o \in Mutexes THEN t ELSE owner[o]]
         /\ credit' = [s \in Semaphores |-> IF s \in O THEN credit[s] - 1 ELSE credit[s]]
         /\ held' = [m \in Mutexes |->
              IF m \in O THEN [held[m] EXCEPT ![t] = @ + 1] ELSE held[m]]
<1> DEFINE O == Granted(t, w)
           taken == {o \in O : Takeable(t, o)}
<1>1. taken = O
  BY GrantedAreReady
<1>2. /\ count' = [o \in Objects |-> IF o \in taken THEN CountTaken(o) ELSE count[o]]
      /\ owner' = [o \in Objects |-> IF o \in taken \cap Mutexes THEN t ELSE owner[o]]
      /\ credit' = [s \in Semaphores |-> IF s \in O THEN credit[s] - 1 ELSE credit[s]]
      /\ held' = [m \in Mutexes |->
           IF m \in O THEN [held[m] EXCEPT ![t] = @ + 1] ELSE held[m]]
  BY DEF TakeAll
<1> HIDE DEF O, taken
<1>3. owner' = [o \in Objects |-> IF o \in O /\ o \in Mutexes THEN t ELSE owner[o]]
  BY <1>1, <1>2
<1> QED
  BY <1>1, <1>2, <1>3 DEF O

(* Taking a granted wait's objects leaves counts natural.                  *)
LEMMA TakesTypes ==
  ASSUME NEW t \in Threads, NEW w \in Waits, TakeAll(t, Granted(t, w)),
         ObjectType, HistoryType
  PROVE  /\ count' \in [Objects -> Nat]
         /\ owner' \in [Objects -> Threads \cup {Nobody}]
         /\ HistoryType'
<1> DEFINE O == Granted(t, w)
<1> USE DEF ObjectType, HistoryType
<1>1. /\ count' = [o \in Objects |-> IF o \in O THEN CountTaken(o) ELSE count[o]]
      /\ owner' = [o \in Objects |-> IF o \in O /\ o \in Mutexes THEN t ELSE owner[o]]
      /\ credit' = [s \in Semaphores |-> IF s \in O THEN credit[s] - 1 ELSE credit[s]]
      /\ held' = [m \in Mutexes |->
           IF m \in O THEN [held[m] EXCEPT ![t] = @ + 1] ELSE held[m]]
  BY Takes
<1>2. \A o \in Objects : o \in O => CountTaken(o) \in Nat
  <2>1. \A o \in O : Takeable(t, o)
    BY GrantedAreReady
  <2> HIDE DEF O
  <2> QED
    BY <2>1 DEF Takeable, CountTaken
<1> HIDE DEF O
<1>3. HistoryType'
  <2>1. credit' \in [Semaphores -> Int]
    BY <1>1
  <2>2. held' \in [Mutexes -> [Threads -> Int]]
    BY <1>1
  <2> QED
    BY <2>1, <2>2
<1> QED
  BY <1>1, <1>2, <1>3

(* A step in which no wait begins or ends.                                 *)
LEMMA NoWaitEnds ==
  ASSUME WaitInv, ObjectType', HistoryType', made \subseteq made',
         waiters' = waiters, wait' = wait, pulse0' = pulse0, pulsed' \subseteq Threads,
         mode' \in [Threads -> {"run", "asleep", "awake"}],
         \A t \in Threads : mode'[t] = "run" <=> mode[t] = "run"
  PROVE  WaitInv'
<1> USE DEF WaitInv, WaitingType
<1>1. WaitingType'
  OBVIOUS
<1>2. WaitsAreOnMade'
  BY DEF WaitsAreOnMade, On
<1>3. \A o \in Objects : InWait(mode', wait', o) = InWait(mode, wait, o)
  BY DEF InWait
<1>4. WaitersExact'
  BY <1>3, WaitersCount
<1> QED
  BY <1>1, <1>2, <1>4

(* A broadcast ends every sleep and no wait.                               *)
LEMMA RousedIsAwake ==
  ASSUME WaitInv
  PROVE  /\ Roused \in [Threads -> {"run", "asleep", "awake"}]
         /\ \A t \in Threads : Roused[t] = "run" <=> mode[t] = "run"
         /\ \A t \in Threads : Roused[t] # "asleep"
  BY DEF Roused, WaitInv, WaitingType

(* A thread leaves its wait and uncounts itself.                           *)
LEMMA WaitEnds ==
  ASSUME WaitInv, NEW t \in Threads, mode[t] = "awake", Return(t), HistoryType',
         count' \in [Objects -> Nat], owner' \in [Objects -> Threads \cup {Nobody}],
         pulsed' = pulsed \ {t}
  PROVE  WaitInv'
<1> USE DEF WaitInv, ObjectType, WaitingType
<1>1. /\ waiters' = [o \in Objects |-> IF o \in On(wait[t]) THEN waiters[o] - 1 ELSE waiters[o]]
      /\ mode' = [mode EXCEPT ![t] = "run"]
      /\ UNCHANGED <<made, pulses, wait, pulse0>>
  BY DEF Return, WaitersLess
<1>2. \A o \in Objects : InWait(mode', wait', o) =
        IF o \in On(wait[t]) THEN InWait(mode, wait, o) \ {t} ELSE InWait(mode, wait, o)
  BY <1>1 DEF InWait
<1>3. \A o \in Objects : waiters[o] = Cardinality(InWait(mode, wait, o))
  BY WaitersCount
<1>4. ASSUME NEW o \in Objects
      PROVE  /\ waiters'[o] = Cardinality(InWait(mode', wait', o))
             /\ waiters'[o] \in Nat
  <2> DEFINE S == InWait(mode, wait, o)
  <2>1. IsFiniteSet(S)
    BY ThreadsAreFinite, FS_Subset DEF InWait
  <2>2. CASE o \in On(wait[t])
    <3>1. t \in S
      BY <2>2 DEF InWait
    <3> HIDE DEF S
    <3>2. IsFiniteSet(S \ {t}) /\ Cardinality(S \ {t}) = Cardinality(S) - 1
      BY <2>1, <3>1, FS_RemoveElement
    <3>3. Cardinality(S \ {t}) \in Nat
      BY <3>2, FS_CardinalityType
    <3> QED
      BY <1>1, <1>2, <1>3, <2>2, <3>2, <3>3 DEF S
  <2>3. CASE o \notin On(wait[t])
    BY <1>1, <1>2, <1>3, <2>3
  <2> QED
    BY <2>2, <2>3
<1>5. waiters' \in [Objects -> Nat]
  BY <1>1, <1>4
<1>6. ObjectType' /\ WaitingType'
  BY <1>1, <1>5
<1>7. WaitsAreOnMade'
  BY <1>1 DEF WaitsAreOnMade, On
<1>8. WaitersExact'
  BY <1>4, WaitersCount
<1> QED
  BY <1>6, <1>7, <1>8

(* A thread that begins to wait was counted nowhere, and counts itself in  *)
(* each of its objects.                                                    *)
LEMMA WaitCounts ==
  ASSUME WaitInv, NEW t \in Threads, NEW w \in Waits, WaitBegins(t, w)
  PROVE  WaitInv'
<1> USE DEF WaitInv, ObjectType, WaitingType
<1>1. /\ waiters' = [o \in Objects |-> IF o \in On(w) THEN waiters[o] + 1 ELSE waiters[o]]
      /\ wait' = [wait EXCEPT ![t] = w] /\ mode' = [mode EXCEPT ![t] = "asleep"]
      /\ pulse0' = [pulse0 EXCEPT ![t] = pulses[w.on[1]]]
      /\ UNCHANGED <<made, count, owner, pulses, credit, held>>
      /\ mode[t] = "run" /\ On(w) \subseteq made /\ pulsed' = pulsed \ {t}
  BY DEF WaitBegins, Snapshot
<1>2. wait'[t] = w /\ \A u \in Threads \ {t} : wait'[u] = wait[u] /\ mode'[u] = mode[u]
  BY <1>1
<1>3. \A o \in Objects : InWait(mode', wait', o) =
        IF o \in On(w) THEN InWait(mode, wait, o) \cup {t} ELSE InWait(mode, wait, o)
  <2> TAKE o \in Objects
  <2>1. t \in InWait(mode', wait', o) <=> o \in On(w)
    BY <1>1, <1>2 DEF InWait
  <2>2. t \notin InWait(mode, wait, o)
    BY <1>1 DEF InWait
  <2>3. \A u \in Threads \ {t} : u \in InWait(mode', wait', o) <=> u \in InWait(mode, wait, o)
    BY <1>2 DEF InWait
  <2>4. InWait(mode', wait', o) \subseteq Threads /\ InWait(mode, wait, o) \subseteq Threads
    BY DEF InWait
  <2> DEFINE A == InWait(mode', wait', o)
             B == InWait(mode, wait, o)
  <2> HIDE DEF A, B
  <2>5. CASE o \in On(w)
    <3>1. A = B \cup {t}
      BY <2>1, <2>2, <2>3, <2>4, <2>5 DEF A, B
    <3> QED
      BY <2>5, <3>1 DEF A, B
  <2>6. CASE o \notin On(w)
    <3>1. A = B
      BY <2>1, <2>2, <2>3, <2>4, <2>6 DEF A, B
    <3> QED
      BY <2>6, <3>1 DEF A, B
  <2> QED
    BY <2>5, <2>6
<1>4. \A o \in Objects : waiters[o] = Cardinality(InWait(mode, wait, o))
  BY WaitersCount
<1>5. ASSUME NEW o \in Objects
      PROVE  waiters'[o] = Cardinality(InWait(mode', wait', o))
  <2> DEFINE S == InWait(mode, wait, o)
  <2>1. IsFiniteSet(S) /\ t \notin S
    BY <1>1, ThreadsAreFinite, FS_Subset DEF InWait
  <2>2. Cardinality(S \cup {t}) = Cardinality(S) + 1
    <3> HIDE DEF S
    <3> QED
      BY <2>1, FS_AddElement
  <2> QED
    BY <1>1, <1>3, <1>4, <2>2
<1>6. ObjectType'
  BY <1>1
<1>7. WaitingType' /\ HistoryType'
  <2>1. pulses[w.on[1]] \in Nat
    BY WaitParts
  <2>2. HistoryType'
    BY <1>1 DEF HistoryType
  <2>3. DOMAIN wait' = Threads
    BY <1>1
  <2>4. pulse0' \in [Threads -> Nat]
    BY <1>1, <2>1
  <2>5. mode' \in [Threads -> {"run", "asleep", "awake"}] /\ pulsed' \subseteq Threads
    BY <1>1
  <2> QED
    BY <2>2, <2>3, <2>4, <2>5
<1>8. WaitsAreOnMade'
  BY <1>1, <1>2 DEF WaitsAreOnMade, On
<1>9. WaitersExact'
  BY <1>5, WaitersCount
<1> QED
  BY <1>6, <1>7, <1>8, <1>9

(* The signalling calls and the creations change neither who waits nor for *)
(* what; a pulse only counts if somebody waits, and then the event exists. *)
LEMMA WaitedIsMade ==
  ASSUME WaitInv, NEW o \in Objects, Waited(o)
  PROVE  o \in made
<1>1. waiters[o] = Cardinality(WaitingOn(o)) /\ waiters[o] # 0
  BY DEF WaitInv, WaitersExact, ObjectType, Waited
<1>2. WaitingOn(o) # {}
  BY <1>1, FS_EmptySet
<1> QED
  BY <1>2 DEF WaitingOn, WaitInv, WaitsAreOnMade

(* Those calls, type by type: modes change only by a broadcast.            *)
LEMMA CallTypes ==
  ASSUME WaitInv, NEW t \in Threads,
         \/ \E o \in Objects : Create(t, o)
         \/ \E e \in Events : SetEvent(t, e) \/ ResetEvent(t, e) \/ PulseEvent(t, e)
         \/ \E s \in Semaphores : ReleaseSemaphore(t, s)
         \/ \E m \in Mutexes : ReleaseMutex(t, m)
  PROVE  /\ ObjectType' /\ HistoryType' /\ made \subseteq made'
         /\ UNCHANGED <<waiters, wait, pulse0>> /\ pulsed' \subseteq Threads
         /\ mode' \in {mode, Roused}
<1> USE DEF WaitInv, ObjectType, HistoryType, WaitingType, waiting, history
<1> USE BoundsAreNat
<1>1. ASSUME NEW o \in Objects, Create(t, o)
      PROVE  /\ ObjectType' /\ HistoryType' /\ made \subseteq made'
             /\ UNCHANGED <<waiters, wait, pulse0, pulsed, mode>>
  <2>1. PICK n \in InitialCounts(o) :
          /\ count' = [count EXCEPT ![o] = n]
          /\ credit' = [s \in Semaphores |-> IF s = o THEN n ELSE credit[s]]
          /\ held' = [m \in Mutexes |->
               IF m = o THEN [held[m] EXCEPT ![t] = n] ELSE held[m]]
    BY <1>1 DEF Create
  <2>2. n \in Nat
    BY DEF InitialCounts
  <2>3. made' = made \cup {o} /\ UNCHANGED <<owner, waiters, pulses, mode, wait, pulse0, pulsed>>
    BY <1>1 DEF Create
  <2>4. HistoryType'
    <3>1. credit' \in [Semaphores -> Int]
      BY <2>1, <2>2
    <3>2. held' \in [Mutexes -> [Threads -> Int]]
      BY <2>1, <2>2
    <3> QED
      BY <3>1, <3>2
  <2> QED
    BY <2>1, <2>2, <2>3, <2>4
<1>2. ASSUME NEW e \in Events, SetEvent(t, e)
      PROVE  /\ ObjectType' /\ HistoryType' /\ made \subseteq made'
             /\ UNCHANGED <<waiters, wait, pulse0, pulsed>> /\ mode' \in {mode, Roused}
  BY <1>2 DEF SetEvent, BroadcastFor, Objects
<1>3. ASSUME NEW e \in Events, ResetEvent(t, e)
      PROVE  /\ ObjectType' /\ HistoryType' /\ made \subseteq made'
             /\ UNCHANGED <<waiters, wait, pulse0, pulsed, mode>>
  BY <1>3 DEF ResetEvent, Objects
<1>4. ASSUME NEW e \in Events, PulseEvent(t, e)
      PROVE  /\ ObjectType' /\ HistoryType' /\ made \subseteq made'
             /\ UNCHANGED <<waiters, wait, pulse0>> /\ pulsed' \subseteq Threads
             /\ mode' = Roused
  <2>1. CASE e \in ManualEvents
    BY <1>4, <2>1 DEF PulseEvent, WaitingOn, Objects
  <2>2. CASE e \notin ManualEvents
    BY <1>4, <2>2 DEF PulseEvent, Objects
  <2> QED
    BY <2>1, <2>2
<1>5. ASSUME NEW s \in Semaphores, ReleaseSemaphore(t, s)
      PROVE  /\ ObjectType' /\ HistoryType' /\ made \subseteq made'
             /\ UNCHANGED <<waiters, wait, pulse0, pulsed>> /\ mode' \in {mode, Roused}
  <2>1. PICK n \in 1 .. MaxCount :
          count' = [count EXCEPT ![s] = @ + n] /\ credit' = [credit EXCEPT ![s] = @ + n]
    BY <1>5 DEF ReleaseSemaphore
  <2>2. n \in Nat
    OBVIOUS
  <2> QED
    BY <1>5, <2>1, <2>2 DEF ReleaseSemaphore, BroadcastFor, Objects
<1>6. ASSUME NEW m \in Mutexes, ReleaseMutex(t, m)
      PROVE  /\ ObjectType' /\ HistoryType' /\ made \subseteq made'
             /\ UNCHANGED <<waiters, wait, pulse0, pulsed>> /\ mode' \in {mode, Roused}
  <2>1. count[m] > 0 /\ count' = [count EXCEPT ![m] = @ - 1]
        /\ held' = [held EXCEPT ![m][t] = @ - 1]
        /\ UNCHANGED <<made, waiters, pulses, wait, pulse0, credit, pulsed>>
    BY <1>6 DEF ReleaseMutex, MayRelease
  <2>2. owner' \in [Objects -> Threads \cup {Nobody}] /\ mode' \in {mode, Roused}
    <3>1. CASE count[m] = 1
      BY <1>6, <3>1 DEF ReleaseMutex, BroadcastFor, Objects
    <3>2. CASE count[m] # 1
      BY <1>6, <3>2 DEF ReleaseMutex
    <3> QED
      BY <3>1, <3>2
  <2>3. count' \in [Objects -> Nat]
    BY <2>1 DEF Objects
  <2>4. held' \in [Mutexes -> [Threads -> Int]]
    BY <2>1
  <2> QED
    BY <2>1, <2>2, <2>3, <2>4
<1> QED
  BY <1>1, <1>2, <1>3, <1>4, <1>5, <1>6

(* Every step keeps waiters exact and the waits on objects that exist.     *)
LEMMA StepKeepsWaits == WaitInv /\ [Next]_vars => WaitInv'
<1> SUFFICES ASSUME WaitInv, [Next]_vars PROVE WaitInv'
  OBVIOUS
<1>1. CASE UNCHANGED vars
  BY <1>1, NoWaitEnds DEF vars, object, waiting, history, WaitInv, ObjectType,
                          HistoryType, WaitingType
<1>2. ASSUME NEW t \in Threads, NEW w \in Waits, WaitSatisfied(t, w) PROVE WaitInv'
  <2>1. TakeAll(t, Granted(t, w)) /\ UNCHANGED <<made, waiters, pulses, waiting, pulsed>>
    BY <1>2 DEF WaitSatisfied
  <2>2. ObjectType' /\ HistoryType'
    BY <2>1, TakesTypes DEF WaitInv, ObjectType
  <2> QED
    BY <2>1, <2>2, NoWaitEnds DEF waiting, WaitInv, WaitingType
<1>3. ASSUME NEW t \in Threads, NEW w \in Waits, WaitBegins(t, w) PROVE WaitInv'
  BY <1>3, WaitCounts
<1>4. ASSUME NEW t \in Threads, Wake(t) \/ WaitGoesOn(t) PROVE WaitInv'
  BY <1>4, NoWaitEnds DEF Wake, WaitGoesOn, object, history, WaitInv, ObjectType,
                          HistoryType, WaitingType
<1>5. ASSUME NEW t \in Threads, WaitGranted(t) PROVE WaitInv'
  <2>1. mode[t] = "awake" /\ wait[t] \in Waits
    BY <1>5 DEF WaitGranted, WaitInv, WaitsAreOnMade
  <2>2. TakeAll(t, Granted(t, wait[t])) /\ Return(t) /\ pulsed' = pulsed \ {t}
    BY <1>5 DEF WaitGranted
  <2> QED
    BY <2>1, <2>2, TakesTypes, WaitEnds DEF WaitInv
<1>6. ASSUME NEW t \in Threads, WaitPulsed(t) \/ WaitTimesOut(t) PROVE WaitInv'
  <2>1. /\ mode[t] = "awake" /\ Return(t) /\ pulsed' = pulsed \ {t}
        /\ UNCHANGED <<count, owner, credit, held>>
    BY <1>6 DEF WaitPulsed, WaitTimesOut
  <2> QED
    BY <2>1, WaitEnds DEF WaitInv, ObjectType, HistoryType
<1>7. ASSUME NEW t \in Threads,
             \/ \E o \in Objects : Create(t, o)
             \/ \E e \in Events : SetEvent(t, e) \/ ResetEvent(t, e) \/ PulseEvent(t, e)
             \/ \E s \in Semaphores : ReleaseSemaphore(t, s)
             \/ \E m \in Mutexes : ReleaseMutex(t, m)
      PROVE  WaitInv'
  <2>1. mode' \in [Threads -> {"run", "asleep", "awake"}]
        /\ \A u \in Threads : mode'[u] = "run" <=> mode[u] = "run"
    BY <1>7, CallTypes, RousedIsAwake DEF WaitInv, WaitingType
  <2> QED
    BY <1>7, <2>1, CallTypes, NoWaitEnds
<1> QED
  BY <1>1, <1>2, <1>3, <1>4, <1>5, <1>6, <1>7 DEF Next, WaitStep

-----------------------------------------------------------------------------
(* What was taken is gone and nothing else: no wait for all of a set takes *)
(* a part of it, and no unit is given twice.                               *)
LEMMA TakesKeepTaken ==
  ASSUME WaitInv, TakenInv, NEW t \in Threads, NEW w \in Waits, On(w) \subseteq made,
         TakeAll(t, Granted(t, w)), made' = made
  PROVE  TakenInv'
<1> DEFINE O == Granted(t, w)
<1>1. /\ count' = [o \in Objects |-> IF o \in O THEN CountTaken(o) ELSE count[o]]
      /\ owner' = [o \in Objects |-> IF o \in O /\ o \in Mutexes THEN t ELSE owner[o]]
      /\ credit' = [s \in Semaphores |-> IF s \in O THEN credit[s] - 1 ELSE credit[s]]
  BY Takes
<1>2. O \subseteq made
  BY GrantedAreReady
<1> HIDE DEF O
<1>3. UnmadeIsEmpty'
  BY <1>1, <1>2 DEF UnmadeIsEmpty, TakenInv
<1>4. \A s \in Semaphores : s \in Objects /\ s \notin Mutexes /\ s \notin ManualEvents
  BY KindsAreDisjoint DEF Objects, Events
<1>5. SemaphoreConserved'
  BY <1>1, <1>4 DEF SemaphoreConserved, TakenInv, CountTaken
<1> QED
  BY <1>3, <1>5 DEF TakenInv

(* Every step changes a semaphore by what the guest is told.               *)
LEMMA StepKeepsTaken == WaitInv /\ TakenInv /\ [Next]_vars => TakenInv'
<1> SUFFICES ASSUME WaitInv, TakenInv, [Next]_vars PROVE TakenInv'
  OBVIOUS
<1>0. ASSUME UNCHANGED <<made, count, owner, credit>> PROVE TakenInv'
  BY <1>0 DEF TakenInv, UnmadeIsEmpty, SemaphoreConserved
<1> USE DEF object, waiting, history
<1>1. CASE UNCHANGED vars
  BY <1>0, <1>1 DEF vars
<1>2. ASSUME NEW t \in Threads, NEW w \in Waits, WaitSatisfied(t, w) PROVE TakenInv'
  BY <1>2, TakesKeepTaken DEF WaitSatisfied
<1>3. ASSUME NEW t \in Threads, NEW w \in Waits, WaitBegins(t, w) PROVE TakenInv'
  BY <1>0, <1>3 DEF WaitBegins
<1>4. ASSUME NEW t \in Threads,
             Wake(t) \/ WaitGoesOn(t) \/ WaitPulsed(t) \/ WaitTimesOut(t)
      PROVE  TakenInv'
  BY <1>0, <1>4 DEF Wake, WaitGoesOn, WaitPulsed, WaitTimesOut, Return
<1>5. ASSUME NEW t \in Threads, WaitGranted(t) PROVE TakenInv'
  <2>1. wait[t] \in Waits /\ On(wait[t]) \subseteq made
    BY <1>5 DEF WaitGranted, WaitInv, WaitsAreOnMade
  <2> QED
    BY <1>5, <2>1, TakesKeepTaken DEF WaitGranted, Return
<1> USE DEF WaitInv, ObjectType, HistoryType, TakenInv, UnmadeIsEmpty, SemaphoreConserved
<1>6. ASSUME NEW t \in Threads, NEW o \in Objects, Create(t, o) PROVE TakenInv'
  <2>1. PICK n \in InitialCounts(o) :
          /\ count' = [count EXCEPT ![o] = n]
          /\ credit' = [s \in Semaphores |-> IF s = o THEN n ELSE credit[s]]
    BY <1>6 DEF Create
  <2>2. made' = made \cup {o} /\ owner' = owner
    BY <1>6 DEF Create
  <2> QED
    BY <2>1, <2>2 DEF Objects
<1>7. ASSUME NEW t \in Threads, NEW e \in Events,
             SetEvent(t, e) \/ ResetEvent(t, e) \/ PulseEvent(t, e)
      PROVE  TakenInv'
  <2>1. e \in made /\ e \notin Semaphores
    BY <1>7, WaitedIsMade, KindsAreDisjoint DEF SetEvent, ResetEvent, PulseEvent, Objects, Events
  <2>2. UNCHANGED <<made, owner, credit>>
    BY <1>7 DEF SetEvent, ResetEvent, PulseEvent
  <2>3. count' = count \/ count' = [count EXCEPT ![e] = 1] \/ count' = [count EXCEPT ![e] = 0]
    BY <1>7 DEF SetEvent, ResetEvent, PulseEvent
  <2> QED
    BY <2>1, <2>2, <2>3 DEF Objects
<1>8. ASSUME NEW t \in Threads, NEW s \in Semaphores, ReleaseSemaphore(t, s) PROVE TakenInv'
  <2>1. PICK n \in 1 .. MaxCount :
          count' = [count EXCEPT ![s] = @ + n] /\ credit' = [credit EXCEPT ![s] = @ + n]
    BY <1>8 DEF ReleaseSemaphore
  <2>2. s \in made /\ UNCHANGED <<made, owner>>
    BY <1>8 DEF ReleaseSemaphore
  <2> QED
    BY <2>1, <2>2, BoundsAreNat DEF Objects
<1>9. ASSUME NEW t \in Threads, NEW m \in Mutexes, ReleaseMutex(t, m) PROVE TakenInv'
  <2>1. count[m] > 0 /\ count' = [count EXCEPT ![m] = @ - 1] /\ UNCHANGED <<made, credit>>
    BY <1>9 DEF ReleaseMutex, MayRelease
  <2>2. m \in made /\ m \in Objects /\ m \notin Semaphores
    BY <2>1, KindsAreDisjoint DEF Objects, Events
  <2>3. owner' = owner \/ owner' = [owner EXCEPT ![m] = Nobody]
    BY <1>9 DEF ReleaseMutex
  <2>4. UnmadeIsEmpty'
    BY <2>1, <2>2, <2>3
  <2>5. SemaphoreConserved'
    BY <2>1, <2>2 DEF Objects
  <2> QED
    BY <2>4, <2>5
<1> QED
  BY <1>1, <1>2, <1>3, <1>4, <1>5, <1>6, <1>7, <1>8, <1>9 DEF Next, WaitStep

(* A mutex that is not created held is owned as deep as the owner's waits  *)
(* and releases say.                                                       *)
LEMMA TakesKeepOwners ==
  ASSUME WaitInv, MutexIsExclusive, NEW t \in Threads, NEW w \in Waits,
         TakeAll(t, Granted(t, w))
  PROVE  MutexIsExclusive'
<1> DEFINE O == Granted(t, w)
<1> USE NobodyIsNoThread
<1>1. /\ count' = [o \in Objects |-> IF o \in O THEN CountTaken(o) ELSE count[o]]
      /\ owner' = [o \in Objects |-> IF o \in O /\ o \in Mutexes THEN t ELSE owner[o]]
      /\ held' = [m \in Mutexes |->
           IF m \in O THEN [held[m] EXCEPT ![t] = @ + 1] ELSE held[m]]
  BY Takes
<1>2. \A o \in O : Takeable(t, o)
  BY GrantedAreReady
<1> HIDE DEF O
<1>3. ASSUME NEW m \in Mutexes
      PROVE  /\ \A u \in Threads : held'[m][u] = IF u = owner'[m] THEN count'[m] ELSE 0
             /\ owner'[m] = Nobody <=> count'[m] = 0
  <2> USE DEF WaitInv, ObjectType, HistoryType, MutexIsExclusive
  <2>0. m \in Objects /\ held[m] \in [Threads -> Int] /\ count[m] \in Nat
    BY DEF Objects
  <2>1. CASE m \in O
    <3>1. count'[m] = count[m] + 1 /\ owner'[m] = t /\ held'[m] = [held[m] EXCEPT ![t] = @ + 1]
      BY <1>1, <2>0, <2>1 DEF CountTaken
    <3>2. count[m] = 0 \/ owner[m] = t
      BY <1>2, <2>0, <2>1 DEF Takeable
    <3> QED
      BY <2>0, <3>1, <3>2
  <2>2. CASE m \notin O
    BY <1>1, <2>0, <2>2
  <2> QED
    BY <2>1, <2>2
<1> QED
  BY <1>3 DEF MutexIsExclusive

(* Every step keeps owner, depth and the guest's own tally in agreement.   *)
LEMMA StepKeepsOwners ==
  InitialOwner = FALSE /\ WaitInv /\ TakenInv /\ MutexIsExclusive /\ [Next]_vars
    => MutexIsExclusive'
<1> SUFFICES ASSUME InitialOwner = FALSE, WaitInv, TakenInv, MutexIsExclusive, [Next]_vars
             PROVE  MutexIsExclusive'
  OBVIOUS
<1>0. ASSUME UNCHANGED <<owner, held>>, \A m \in Mutexes : count'[m] = count[m]
      PROVE  MutexIsExclusive'
  BY <1>0 DEF MutexIsExclusive
<1> USE DEF object, waiting, history
<1>1. CASE UNCHANGED vars
  BY <1>0, <1>1 DEF vars
<1>2. ASSUME NEW t \in Threads, NEW w \in Waits, WaitSatisfied(t, w) PROVE MutexIsExclusive'
  BY <1>2, TakesKeepOwners DEF WaitSatisfied
<1>3. ASSUME NEW t \in Threads, NEW w \in Waits, WaitBegins(t, w) PROVE MutexIsExclusive'
  BY <1>0, <1>3 DEF WaitBegins
<1>4. ASSUME NEW t \in Threads,
             Wake(t) \/ WaitGoesOn(t) \/ WaitPulsed(t) \/ WaitTimesOut(t)
      PROVE  MutexIsExclusive'
  BY <1>0, <1>4 DEF Wake, WaitGoesOn, WaitPulsed, WaitTimesOut, Return
<1>5. ASSUME NEW t \in Threads, WaitGranted(t) PROVE MutexIsExclusive'
  <2>1. wait[t] \in Waits
    BY <1>5 DEF WaitGranted, WaitInv, WaitsAreOnMade
  <2> QED
    BY <1>5, <2>1, TakesKeepOwners DEF WaitGranted
<1> USE DEF WaitInv, ObjectType, HistoryType
<1>6. ASSUME NEW t \in Threads, NEW o \in Objects, Create(t, o) PROVE MutexIsExclusive'
  <2>1. PICK n \in InitialCounts(o) :
          /\ count' = [count EXCEPT ![o] = n]
          /\ held' = [m \in Mutexes |-> IF m = o THEN [held[m] EXCEPT ![t] = n] ELSE held[m]]
    BY <1>6 DEF Create
  <2>2. o \notin made /\ owner' = owner
    BY <1>6 DEF Create
  <2>3. CASE o \in Mutexes
    <3>1. n = 0
      BY <2>3, KindsAreDisjoint DEF InitialCounts
    <3>2. count[o] = 0 /\ owner[o] = Nobody
      BY <2>2 DEF TakenInv, UnmadeIsEmpty
    <3>3. held' = held
      <4>1. \A u \in Threads : held[o][u] = 0
        BY <2>3, <3>2, NobodyIsNoThread DEF MutexIsExclusive
      <4>2. held[o] = [held[o] EXCEPT ![t] = 0]
        BY <2>3, <4>1
      <4> QED
        BY <2>1, <3>1, <4>2
    <3>4. \A m \in Mutexes : count'[m] = count[m]
      BY <2>1, <3>1, <3>2 DEF Objects
    <3> QED
      BY <1>0, <2>2, <3>3, <3>4
  <2>4. CASE o \notin Mutexes
    <3>1. \A m \in Mutexes : count'[m] = count[m]
      BY <2>1, <2>4 DEF Objects
    <3>2. held' = held
      BY <2>1, <2>4
    <3> QED
      BY <1>0, <2>2, <3>1, <3>2
  <2> QED
    BY <2>3, <2>4
<1>7. ASSUME NEW t \in Threads, NEW e \in Events,
             SetEvent(t, e) \/ ResetEvent(t, e) \/ PulseEvent(t, e)
      PROVE  MutexIsExclusive'
  <2>1. UNCHANGED <<owner, held>>
    BY <1>7 DEF SetEvent, ResetEvent, PulseEvent
  <2>2. count' = count \/ count' = [count EXCEPT ![e] = 1] \/ count' = [count EXCEPT ![e] = 0]
    BY <1>7 DEF SetEvent, ResetEvent, PulseEvent
  <2>3. e \notin Mutexes
    BY KindsAreDisjoint DEF Events
  <2> QED
    BY <1>0, <2>1, <2>2, <2>3 DEF Objects
<1>8. ASSUME NEW t \in Threads, NEW s \in Semaphores, ReleaseSemaphore(t, s)
      PROVE  MutexIsExclusive'
  <2>1. s \notin Mutexes
    BY KindsAreDisjoint
  <2> QED
    BY <1>0, <1>8, <2>1 DEF ReleaseSemaphore, Objects
<1>9. ASSUME NEW t \in Threads, NEW m \in Mutexes, ReleaseMutex(t, m)
      PROVE  MutexIsExclusive'
  <2>1. /\ count[m] > 0 /\ owner[m] = t
        /\ count' = [count EXCEPT ![m] = @ - 1] /\ held' = [held EXCEPT ![m][t] = @ - 1]
    BY <1>9 DEF ReleaseMutex, MayRelease
  <2>2. owner' = IF count[m] = 1 THEN [owner EXCEPT ![m] = Nobody] ELSE owner
    BY <1>9 DEF ReleaseMutex
  <2>3. m \in Objects /\ held[m] \in [Threads -> Int] /\ count[m] \in Nat /\ t # Nobody
    BY NobodyIsNoThread DEF Objects
  <2>4. count'[m] = count[m] - 1 /\ held'[m] = [held[m] EXCEPT ![t] = @ - 1]
        /\ owner'[m] = IF count[m] = 1 THEN Nobody ELSE t
    BY <2>1, <2>2, <2>3
  <2>5. /\ \A u \in Threads : held'[m][u] = IF u = owner'[m] THEN count'[m] ELSE 0
        /\ owner'[m] = Nobody <=> count'[m] = 0
    BY <2>1, <2>3, <2>4, NobodyIsNoThread DEF MutexIsExclusive
  <2>6. \A k \in Mutexes \ {m} : k \in Objects /\ count'[k] = count[k] /\ owner'[k] = owner[k]
                                /\ held'[k] = held[k]
    BY <2>1, <2>2 DEF Objects
  <2> QED
    BY <2>5, <2>6 DEF MutexIsExclusive
<1> QED
  BY <1>1, <1>2, <1>3, <1>4, <1>5, <1>6, <1>7, <1>8, <1>9 DEF Next, WaitStep

-----------------------------------------------------------------------------
(* Handle::waiters is zero only of an object that no wait includes.        *)
LEMMA NotWaited ==
  ASSUME WaitInv, NEW o \in Objects, ~Waited(o), NEW u \in Threads, mode[u] # "run"
  PROVE  o \notin On(wait[u])
<1>1. IsFiniteSet(WaitingOn(o))
  BY ThreadsAreFinite, FS_Subset DEF WaitingOn
<1>2. Cardinality(WaitingOn(o)) = 0
  BY DEF WaitInv, WaitersExact, ObjectType, Waited
<1>3. WaitingOn(o) = {}
  BY <1>1, <1>2, FS_EmptySet
<1> QED
  BY <1>3 DEF WaitingOn

(* A thread that sleeps on through a broadcast waits for something else.   *)
LEMMA BroadcastWakes ==
  ASSUME WaitInv, NEW o \in Objects, BroadcastFor(o),
         NEW u \in Threads, mode'[u] = "asleep"
  PROVE  mode[u] = "asleep" /\ o \notin On(wait[u])
<1>1. CASE Waited(o)
  BY <1>1, RousedIsAwake DEF BroadcastFor
<1>2. CASE ~Waited(o)
  BY <1>2, NotWaited DEF BroadcastFor
<1> QED
  BY <1>1, <1>2

(* A sleeper stays barred through a step that makes none of its objects    *)
(* easier to take and pulses nothing.                                      *)
LEMMA SleepersStay ==
  ASSUME WaitInv, SleepersBarred, UNCHANGED <<pulses, wait, pulse0>>,
         \A u \in Threads : mode'[u] = "asleep" =>
           /\ mode[u] = "asleep"
           /\ \A o \in On(wait[u]) : Can(count', owner', u, o) => Can(count, owner, u, o)
  PROVE  SleepersBarred'
<1> SUFFICES ASSUME NEW u \in Threads, mode'[u] = "asleep"
             PROVE  Barred(count', owner', u, wait'[u]) /\ ~SeesPulse(u)'
  BY DEF SleepersBarred
<1>1. /\ mode[u] = "asleep" /\ wait[u] \in Waits
      /\ Barred(count, owner, u, wait[u]) /\ ~SeesPulse(u)
  BY DEF SleepersBarred, WaitInv, WaitsAreOnMade
<1>2. Barred(count', owner', u, wait[u])
  BY <1>1, StaysBarred
<1> QED
  BY <1>1, <1>2 DEF SeesPulse

(* What a wait has seen of pulses stays so while nothing is pulsed.        *)
LEMMA PulsesStay ==
  ASSUME PulseIsExact, PulsesGoUp, UNCHANGED <<pulses, wait, pulse0>>,
         \A u \in Threads : mode'[u] # "run" =>
           mode[u] # "run" /\ (u \in pulsed' <=> u \in pulsed)
  PROVE  PulseIsExact' /\ PulsesGoUp'
  BY DEF PulseIsExact, PulsesGoUp, SeesPulse

(* What one thread takes is no easier to take for another.                 *)
LEMMA TakesHinder ==
  ASSUME WaitInv, NEW t \in Threads, NEW w \in Waits, TakeAll(t, Granted(t, w)),
         NEW u \in Threads \ {t}, NEW o \in Objects, Can(count', owner', u, o)
  PROVE  Can(count, owner, u, o)
<1> DEFINE O == Granted(t, w)
<1>1. /\ count' = [x \in Objects |-> IF x \in O THEN CountTaken(x) ELSE count[x]]
      /\ owner' = [x \in Objects |-> IF x \in O /\ x \in Mutexes THEN t ELSE owner[x]]
  BY Takes
<1> HIDE DEF O
<1> USE DEF WaitInv, ObjectType
<1>2. CASE o \in O
  BY <1>1, <1>2 DEF Can, CountTaken
<1>3. CASE o \notin O
  BY <1>1, <1>3 DEF Can
<1> QED
  BY <1>2, <1>3

(* No step leaves a thread asleep on what it could take.                   *)
LEMMA StepKeepsSleepers == WaitInv /\ SignalInv /\ [Next]_vars => SleepersBarred'
<1> SUFFICES ASSUME WaitInv, SignalInv, [Next]_vars PROVE SleepersBarred'
  OBVIOUS
<1> USE DEF object, waiting, history
<1>0. SleepersBarred /\ mode \in [Threads -> {"run", "asleep", "awake"}]
      /\ count \in [Objects -> Nat] /\ owner \in [Objects -> Threads \cup {Nobody}]
  BY DEF SignalInv, WaitInv, WaitingType, ObjectType
<1>a. ASSUME NEW u \in Threads, mode[u] = "asleep"
      PROVE  On(wait[u]) \subseteq Objects /\ On(wait[u]) \subseteq made
  BY <1>a, WaitParts DEF WaitInv, WaitsAreOnMade
<1>1. CASE UNCHANGED vars
  BY <1>0, <1>1, SleepersStay DEF vars
<1>2. ASSUME NEW t \in Threads, NEW w \in Waits, TakeAll(t, Granted(t, w)), mode[t] # "asleep",
             UNCHANGED <<pulses, wait, pulse0>>,
             mode' = mode \/ mode' = [mode EXCEPT ![t] = "run"]
      PROVE  SleepersBarred'
  <2>1. ASSUME NEW u \in Threads, mode'[u] = "asleep"
        PROVE  mode[u] = "asleep" /\ u # t
    BY <1>0, <1>2, <2>1
  <2>2. ASSUME NEW u \in Threads, mode'[u] = "asleep", NEW o \in On(wait[u]),
               Can(count', owner', u, o)
        PROVE  Can(count, owner, u, o)
    BY <1>a, <1>2, <2>1, <2>2, TakesHinder
  <2> QED
    BY <1>0, <1>2, <2>1, <2>2, SleepersStay
<1>3. ASSUME NEW t \in Threads, NEW w \in Waits, WaitBegins(t, w) PROVE SleepersBarred'
  <2>1. /\ wait' = [wait EXCEPT ![t] = w] /\ pulse0' = [pulse0 EXCEPT ![t] = pulses[w.on[1]]]
        /\ mode' = [mode EXCEPT ![t] = "asleep"] /\ UNCHANGED <<count, owner, pulses>>
        /\ Granted(t, w) = {}
    BY <1>3 DEF WaitBegins, Snapshot
  <2>2. DOMAIN wait = Threads /\ pulse0 \in [Threads -> Nat]
    BY DEF WaitInv, WaitingType
  <2>3. Barred(count', owner', t, wait'[t]) /\ ~SeesPulse(t)'
    BY <2>1, <2>2, NoneGranted DEF SeesPulse
  <2>4. ASSUME NEW u \in Threads \ {t}, mode'[u] = "asleep"
        PROVE  Barred(count', owner', u, wait'[u]) /\ ~SeesPulse(u)'
    BY <1>0, <2>1, <2>2, <2>4 DEF SleepersBarred, SeesPulse
  <2> QED
    BY <2>3, <2>4 DEF SleepersBarred
<1>4. ASSUME NEW t \in Threads, Wake(t) \/ WaitPulsed(t) \/ WaitTimesOut(t)
      PROVE  SleepersBarred'
  BY <1>0, <1>4, SleepersStay DEF Wake, WaitPulsed, WaitTimesOut, Return
<1>5. ASSUME NEW t \in Threads, WaitGoesOn(t) PROVE SleepersBarred'
  <2>1. /\ mode' = [mode EXCEPT ![t] = "asleep"]
        /\ UNCHANGED <<count, owner, pulses, wait, pulse0>>
        /\ Granted(t, wait[t]) = {} /\ ~SeesPulse(t) /\ wait[t] \in Waits
    BY <1>5 DEF WaitGoesOn, WaitInv, WaitsAreOnMade
  <2>2. Barred(count, owner, t, wait[t])
    BY <2>1, NoneGranted
  <2>3. ASSUME NEW u \in Threads, mode'[u] = "asleep"
        PROVE  Barred(count, owner, u, wait[u]) /\ ~SeesPulse(u)
    BY <1>0, <2>1, <2>2, <2>3 DEF SleepersBarred
  <2> QED
    BY <2>1, <2>3 DEF SleepersBarred, SeesPulse
<1>6. ASSUME NEW t \in Threads, NEW o \in Objects, Create(t, o) PROVE SleepersBarred'
  <2>1. PICK n \in InitialCounts(o) : count' = [count EXCEPT ![o] = n]
    BY <1>6 DEF Create
  <2>2. o \notin made /\ UNCHANGED <<owner, pulses, mode, wait, pulse0>>
    BY <1>6 DEF Create
  <2>3. ASSUME NEW u \in Threads, mode'[u] = "asleep", NEW x \in On(wait[u])
        PROVE  Can(count', owner', u, x) => Can(count, owner, u, x)
    BY <1>0, <1>a, <2>1, <2>2, <2>3 DEF Can
  <2> QED
    BY <1>0, <2>2, <2>3, SleepersStay
<1>b. ASSUME NEW o \in Objects, BroadcastFor(o), UNCHANGED <<pulses, wait, pulse0>>,
             \A x \in Objects \ {o} : count'[x] = count[x] /\ owner'[x] = owner[x]
      PROVE  SleepersBarred'
  <2>1. ASSUME NEW u \in Threads, mode'[u] = "asleep", NEW x \in On(wait[u])
        PROVE  mode[u] = "asleep" /\ (Can(count', owner', u, x) => Can(count, owner, u, x))
    <3>1. mode[u] = "asleep" /\ o \notin On(wait[u])
      BY <1>b, <2>1, BroadcastWakes
    <3> QED
      BY <1>a, <1>b, <2>1, <3>1 DEF Can
  <2> QED
    BY <1>0, <1>b, <2>1, BroadcastWakes, SleepersStay
<1>7. ASSUME NEW t \in Threads, NEW e \in Events, SetEvent(t, e) PROVE SleepersBarred'
  BY <1>0, <1>b, <1>7 DEF SetEvent, Objects
<1>8. ASSUME NEW t \in Threads, NEW e \in Events, ResetEvent(t, e) PROVE SleepersBarred'
  <2>1. /\ count' = [count EXCEPT ![e] = 0]
        /\ UNCHANGED <<owner, pulses, mode, wait, pulse0>>
    BY <1>8 DEF ResetEvent
  <2>2. e \notin Mutexes
    BY KindsAreDisjoint DEF Events
  <2>3. ASSUME NEW u \in Threads, mode'[u] = "asleep", NEW x \in On(wait[u])
        PROVE  Can(count', owner', u, x) => Can(count, owner, u, x)
    BY <1>0, <1>a, <2>1, <2>2, <2>3 DEF Can
  <2> QED
    BY <1>0, <2>1, <2>3, SleepersStay
<1>9. ASSUME NEW t \in Threads, NEW e \in Events, PulseEvent(t, e) PROVE SleepersBarred'
  BY <1>9, RousedIsAwake DEF PulseEvent, SleepersBarred
<1>10. ASSUME NEW t \in Threads, NEW s \in Semaphores, ReleaseSemaphore(t, s)
       PROVE  SleepersBarred'
  <2>1. PICK n \in 1 .. MaxCount : count' = [count EXCEPT ![s] = @ + n]
    BY <1>10 DEF ReleaseSemaphore
  <2> QED
    BY <1>0, <1>b, <1>10, <2>1 DEF ReleaseSemaphore, Objects
<1>11. ASSUME NEW t \in Threads, NEW m \in Mutexes, ReleaseMutex(t, m) PROVE SleepersBarred'
  <2>1. count[m] > 0 /\ count' = [count EXCEPT ![m] = @ - 1] /\ UNCHANGED <<pulses, wait, pulse0>>
    BY <1>11 DEF ReleaseMutex, MayRelease
  <2>2. CASE count[m] = 1
    <3>1. owner' = [owner EXCEPT ![m] = Nobody] /\ BroadcastFor(m)
      BY <1>11, <2>2 DEF ReleaseMutex
    <3> QED
      BY <1>0, <1>b, <2>1, <3>1 DEF Objects
  <2>3. CASE count[m] # 1
    <3>1. UNCHANGED <<owner, mode>> /\ m \in Objects
      BY <1>11, <2>3 DEF ReleaseMutex, Objects
    <3>2. count[m] \in Nat /\ count'[m] > 0
      BY <1>0, <2>1, <2>3, <3>1
    <3>3. ASSUME NEW u \in Threads, mode'[u] = "asleep", NEW x \in On(wait[u])
          PROVE  Can(count', owner', u, x) => Can(count, owner, u, x)
      BY <1>0, <1>a, <2>1, <3>1, <3>2, <3>3 DEF Can
    <3> QED
      BY <1>0, <2>1, <3>1, <3>3, SleepersStay
  <2> QED
    BY <2>2, <2>3
<1>12. ASSUME NEW t \in Threads, NEW w \in Waits, WaitSatisfied(t, w) PROVE SleepersBarred'
  BY <1>2, <1>12 DEF WaitSatisfied
<1>13. ASSUME NEW t \in Threads, WaitGranted(t) PROVE SleepersBarred'
  <2>1. mode[t] = "awake" /\ wait[t] \in Waits
    BY <1>13 DEF WaitGranted, WaitInv, WaitsAreOnMade
  <2>2. TakeAll(t, Granted(t, wait[t])) /\ UNCHANGED <<pulses, wait, pulse0>>
        /\ mode' = [mode EXCEPT ![t] = "run"]
    BY <1>13 DEF WaitGranted, Return
  <2> QED
    BY <1>2, <2>1, <2>2
<1> QED
  BY <1>1, <1>3, <1>4, <1>5, <1>6, <1>7, <1>8, <1>9, <1>10, <1>11, <1>12, <1>13
  DEF Next, WaitStep

(* A pulse marks and counts for the threads that wait at that instant.     *)
LEMMA StepKeepsPulses ==
  WaitInv /\ SignalInv /\ [Next]_vars => PulseIsExact' /\ PulsesGoUp'
<1> SUFFICES ASSUME WaitInv, SignalInv, [Next]_vars PROVE PulseIsExact' /\ PulsesGoUp'
  OBVIOUS
<1> USE DEF object, waiting, history
<1>0. PulseIsExact /\ PulsesGoUp /\ mode \in [Threads -> {"run", "asleep", "awake"}]
      /\ DOMAIN wait = Threads /\ pulse0 \in [Threads -> Nat] /\ pulses \in [Objects -> Nat]
  BY DEF SignalInv, WaitInv, WaitingType, ObjectType
<1>1. CASE UNCHANGED vars
  BY <1>0, <1>1, PulsesStay DEF vars
<1>2. ASSUME NEW t \in Threads, NEW w \in Waits, WaitSatisfied(t, w)
      PROVE  PulseIsExact' /\ PulsesGoUp'
  BY <1>0, <1>2, PulsesStay DEF WaitSatisfied
<1>3. ASSUME NEW t \in Threads, NEW w \in Waits, WaitBegins(t, w)
      PROVE  PulseIsExact' /\ PulsesGoUp'
  <2>1. /\ wait' = [wait EXCEPT ![t] = w] /\ pulse0' = [pulse0 EXCEPT ![t] = pulses[w.on[1]]]
        /\ mode' = [mode EXCEPT ![t] = "asleep"] /\ pulses' = pulses /\ pulsed' = pulsed \ {t}
    BY <1>3 DEF WaitBegins, Snapshot
  <2>2. pulses[w.on[1]] \in Nat
    BY <1>0, WaitParts
  <2>3. wait'[t] = w /\ pulse0'[t] = pulses'[w.on[1]] /\ t \notin pulsed'
    BY <1>0, <2>1
  <2>4. ASSUME NEW u \in Threads \ {t}
        PROVE  /\ wait'[u] = wait[u] /\ pulse0'[u] = pulse0[u] /\ mode'[u] = mode[u]
               /\ u \in pulsed' <=> u \in pulsed
    BY <1>0, <2>1
  <2>5. PulseIsExact'
    BY <1>0, <2>1, <2>3, <2>4 DEF PulseIsExact, SeesPulse
  <2>6. PulsesGoUp'
    BY <1>0, <2>1, <2>2, <2>3, <2>4 DEF PulsesGoUp
  <2> QED
    BY <2>5, <2>6
<1>4. ASSUME NEW t \in Threads, Wake(t) \/ WaitGoesOn(t) PROVE PulseIsExact' /\ PulsesGoUp'
  <2>1. mode[t] # "run"
    BY <1>4 DEF Wake, WaitGoesOn
  <2> QED
    BY <1>0, <1>4, <2>1, PulsesStay DEF Wake, WaitGoesOn
<1>5. ASSUME NEW t \in Threads, WaitGranted(t) \/ WaitPulsed(t) \/ WaitTimesOut(t)
      PROVE  PulseIsExact' /\ PulsesGoUp'
  <2>1. /\ mode' = [mode EXCEPT ![t] = "run"] /\ UNCHANGED <<pulses, wait, pulse0>>
        /\ pulsed' = pulsed \ {t}
    BY <1>5 DEF WaitGranted, WaitPulsed, WaitTimesOut, Return
  <2> QED
    BY <1>0, <2>1, PulsesStay
<1>6. ASSUME NEW t \in Threads,
             \/ \E o \in Objects : Create(t, o)
             \/ \E e \in Events : SetEvent(t, e) \/ ResetEvent(t, e)
             \/ \E e \in Events \ ManualEvents : PulseEvent(t, e)
             \/ \E s \in Semaphores : ReleaseSemaphore(t, s)
             \/ \E m \in Mutexes : ReleaseMutex(t, m)
      PROVE  PulseIsExact' /\ PulsesGoUp'
  <2>1. UNCHANGED <<pulses, wait, pulse0, pulsed>>
    BY <1>6 DEF Create, SetEvent, ResetEvent, PulseEvent, ReleaseSemaphore, ReleaseMutex
  <2>2. mode' \in {mode, Roused}
    BY <1>6, CallTypes
  <2>3. \A u \in Threads : mode'[u] # "run" => mode[u] # "run"
    BY <2>2, RousedIsAwake
  <2> QED
    BY <1>0, <2>1, <2>3, PulsesStay
<1>7. ASSUME NEW t \in Threads, NEW e \in ManualEvents, PulseEvent(t, e)
      PROVE  PulseIsExact' /\ PulsesGoUp'
  <2>1. /\ pulses' = [pulses EXCEPT ![e] = @ + 1] /\ pulsed' = pulsed \cup WaitingOn(e)
        /\ mode' = Roused /\ UNCHANGED <<wait, pulse0>>
    BY <1>7 DEF PulseEvent
  <2>2. \A o \in Objects : pulses'[o] = IF o = e THEN pulses[o] + 1 ELSE pulses[o]
    BY <1>0, <2>1
  <2>3. ASSUME NEW u \in Threads, mode'[u] # "run"
        PROVE  mode[u] # "run" /\ wait[u] \in Waits /\ wait[u].on[1] \in Objects
               /\ pulse0[u] \in Nat /\ pulses[wait[u].on[1]] \in Nat
               /\ pulse0[u] <= pulses[wait[u].on[1]]
    <3>1. mode[u] # "run"
      BY <2>1, <2>3, RousedIsAwake
    <3>2. wait[u] \in Waits
      BY <3>1 DEF WaitInv, WaitsAreOnMade
    <3> QED
      BY <1>0, <3>1, <3>2, WaitParts DEF PulsesGoUp
  <2>4. PulsesGoUp'
    BY <2>1, <2>2, <2>3 DEF PulsesGoUp
  <2>5. ASSUME NEW u \in Threads, mode'[u] # "run", wait[u].how = "one"
        PROVE  pulses'[wait[u].on[1]] # pulse0[u] <=> u \in pulsed'
    <3>1. pulses[wait[u].on[1]] # pulse0[u] <=> u \in pulsed
      BY <1>0, <2>3, <2>5 DEF PulseIsExact, SeesPulse
    <3>2. u \in WaitingOn(e) <=> wait[u].on[1] = e
      BY <2>3, <2>5, WaitParts DEF WaitingOn
    <3> QED
      BY <2>1, <2>2, <2>3, <2>5, <3>1, <3>2
  <2>6. PulseIsExact'
    BY <2>1, <2>5 DEF PulseIsExact, SeesPulse
  <2> QED
    BY <2>4, <2>6
<1> QED
  BY <1>1, <1>2, <1>3, <1>4, <1>5, <1>6, <1>7 DEF Next, WaitStep

-----------------------------------------------------------------------------
(* Nothing exists and nobody waits at first.                               *)
LEMMA InitInv == Init => IInv /\ MutexIsExclusive
<1> SUFFICES ASSUME Init PROVE IInv /\ MutexIsExclusive
  OBVIOUS
<1> USE DEF Init
<1>1. ObjectType /\ WaitingType /\ HistoryType /\ WaitsAreOnMade
  BY DEF ObjectType, WaitingType, HistoryType, WaitsAreOnMade
<1>2. WaitersExact
  <2>1. \A o : WaitingOn(o) = {}
    BY DEF WaitingOn
  <2> QED
    BY <2>1, FS_EmptySet DEF WaitersExact
<1>3. TakenInv
  BY DEF TakenInv, UnmadeIsEmpty, SemaphoreConserved, Objects
<1>4. SignalInv
  BY DEF SignalInv, SleepersBarred, PulseIsExact, PulsesGoUp
<1>5. MutexIsExclusive
  BY NobodyIsNoThread DEF MutexIsExclusive, Objects
<1> QED
  BY <1>1, <1>2, <1>3, <1>4, <1>5 DEF IInv, WaitInv

(* The inductive invariant holds for any threads, objects and waits.       *)
THEOREM Invariant == Spec => []IInv
<1>1. Init => IInv
  BY InitInv
<1>2. IInv /\ [Next]_vars => IInv'
  BY StepKeepsWaits, StepKeepsTaken, StepKeepsSleepers, StepKeepsPulses DEF IInv, SignalInv
<1> QED
  BY <1>1, <1>2, PTL DEF Spec

(* Handle::waiters counts exactly the threads that wait, through every way *)
(* a wait ends.                                                            *)
THEOREM WaitersCounted == Spec => []WaitersExact
<1>1. IInv => WaitersExact
  BY DEF IInv, WaitInv
<1> QED
  BY <1>1, Invariant, PTL

(* No broadcast that depends on Handle::waiters is missed: no thread ever  *)
(* sleeps while its wait is satisfied or after the pulse it waits for.     *)
THEOREM NoMissedSignal == Spec => []NobodySleepsOnSignal
<1>1. IInv => NobodySleepsOnSignal
  <2> SUFFICES ASSUME IInv, NEW t \in Threads, mode[t] = "asleep"
               PROVE  Granted(t, wait[t]) = {} /\ ~SeesPulse(t)
    BY DEF NobodySleepsOnSignal
  <2>1. wait[t] \in Waits
    BY DEF IInv, WaitInv, WaitsAreOnMade
  <2> QED
    BY <2>1, NoneGranted DEF IInv, SignalInv, SleepersBarred
<1> QED
  BY <1>1, Invariant, PTL

(* A pulse releases the threads that wait at that instant and no other.    *)
THEOREM PulsesAreExact == Spec => []PulseIsExact
<1>1. IInv => PulseIsExact
  BY DEF IInv, SignalInv
<1> QED
  BY <1>1, Invariant, PTL

(* Where no mutex is created held, what waits took, and only that, is gone *)
(* from the mutexes and the semaphores; of the semaphores it is so anyway. *)
THEOREM NothingTakenTwice ==
  ASSUME InitialOwner = FALSE
  PROVE  Spec => []TakenExactly
<1>1. Init => IInv /\ MutexIsExclusive
  BY InitInv
<1>2. IInv /\ MutexIsExclusive /\ [Next]_vars => MutexIsExclusive'
  BY StepKeepsOwners DEF IInv
<1>3. IInv /\ MutexIsExclusive => TakenExactly
  BY DEF TakenExactly, IInv, TakenInv
<1> QED
  BY <1>1, <1>2, <1>3, Invariant, PTL DEF Spec
=============================================================================
