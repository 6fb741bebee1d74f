------------------------ MODULE GuestSchedulerProofs ------------------------
(***************************************************************************)
(* Proofs about GuestScheduler for every set of slots, every bound on      *)
(* nested suspends and every guest program: the invariants of              *)
(* GuestSchedulerProps and the implementation of GuestTurns.               *)
(***************************************************************************)
EXTENDS GuestSchedulerProps, FiniteSetTheorems, TLAPS

-----------------------------------------------------------------------------
(* Counting program points.                                                *)

(* Main and the records are finitely many threads.                         *)
LEMMA ThreadsFinite == IsFiniteSet(Threads)
<1>1. IsFiniteSet(Slots \cup {Main})
  BY SlotsAreFinite, FS_AddElement
<1> QED BY <1>1 DEF Threads

(* A count is a natural number, and positive if anybody is there.          *)
LEMMA CountIsNat ==
  ASSUME NEW f, NEW Q
  PROVE  /\ Count(f, Q) \in Nat
         /\ \A t \in Threads : f[t] \in Q => Count(f, Q) > 0
<1> DEFINE S == {u \in Threads : f[u] \in Q}
<1>1. IsFiniteSet(S)
  BY ThreadsFinite, FS_Subset
<1>2. Cardinality(S) \in Nat
  BY <1>1, FS_CardinalityType
<1>3. ASSUME NEW t \in Threads, f[t] \in Q PROVE Cardinality(S) > 0
  <2>1. S # {}
    BY <1>3
  <2>2. Cardinality(S) # 0
    BY <1>1, <2>1, FS_EmptySet
  <2> QED BY <1>2, <2>2
<1> QED BY <1>2, <1>3 DEF Count

(* Moving one thread changes a count by its leaving and its arriving.      *)
SameElsewhere(f, g, t) == \A u \in Threads : u # t => g[u] = f[u]

Counts(f, g, t, Q) ==
  Count(g, Q) = Count(f, Q) + (IF g[t] \in Q THEN 1 ELSE 0)
                            - (IF f[t] \in Q THEN 1 ELSE 0)

(* When one thread moves, a count changes by its arriving and its leaving. *)
LEMMA CountMoved ==
  ASSUME NEW f, NEW g, NEW t \in Threads, NEW Q, SameElsewhere(f, g, t)
  PROVE  Counts(f, g, t, Q)
<1> USE DEF SameElsewhere
<1> DEFINE S == {u \in Threads : f[u] \in Q}
           R == {u \in Threads : g[u] \in Q}
<1>1. IsFiniteSet(S)
  BY ThreadsFinite, FS_Subset
<1>2. Cardinality(S) \in Nat
  BY <1>1, FS_CardinalityType
<1>3. ASSUME g[t] \in Q, f[t] \notin Q PROVE Cardinality(R) = Cardinality(S) + 1
  <2>1. R = S \cup {t} /\ t \notin S
    BY <1>3
  <2> QED BY <1>1, <2>1, FS_AddElement
<1>4. ASSUME g[t] \notin Q, f[t] \in Q PROVE Cardinality(R) = Cardinality(S) - 1
  <2>1. R = S \ {t} /\ t \in S
    BY <1>4
  <2> QED BY <1>1, <2>1, FS_RemoveElement
<1>5. ASSUME g[t] \in Q <=> f[t] \in Q PROVE Cardinality(R) = Cardinality(S)
  <2>1. R = S
    BY <1>5
  <2> QED BY <2>1
<1>6. Count(f, Q) = Cardinality(S) /\ Count(g, Q) = Cardinality(R)
  BY DEF Count
<1> HIDE DEF S, R
<1> QED BY <1>2, <1>3, <1>4, <1>5, <1>6 DEF Counts

(* The counters when one thread moves to another program point ...         *)
LEMMA PcCounts ==
  ASSUME TypeOK, CountersExact, NEW t \in Threads, NEW p, Goto(t, p)
  PROVE  /\ Count(pc', {"lockwait", "unwait"}) =
              waiters + (IF p \in {"lockwait", "unwait"} THEN 1 ELSE 0)
                - (IF pc[t] \in {"lockwait", "unwait"} THEN 1 ELSE 0)
         /\ Count(pc', Parked) =
              condWaiters + (IF p \in Parked THEN 1 ELSE 0)
                - (IF pc[t] \in Parked THEN 1 ELSE 0)
         /\ Count(pc', {"ytest", "ypark", "yleave"}) =
              yielders + (IF p \in {"ytest", "ypark", "yleave"} THEN 1 ELSE 0)
                - (IF pc[t] \in {"ytest", "ypark", "yleave"} THEN 1 ELSE 0)
<1>1. pc'[t] = p /\ SameElsewhere(pc, pc', t)
  BY DEF TypeOK, SameElsewhere, Goto
<1>2. /\ Counts(pc, pc', t, {"lockwait", "unwait"})
      /\ Counts(pc, pc', t, Parked)
      /\ Counts(pc, pc', t, {"ytest", "ypark", "yleave"})
  BY <1>1, CountMoved
<1> QED BY <1>1, <1>2 DEF Counts, CountersExact

One(l) == IF l = "live" THEN 1 ELSE 0
Becomes(t, l) == life' = [life EXCEPT ![t] = l]

(* ... and when one record is handed out, finished or freed.               *)
LEMMA LifeCounts ==
  ASSUME TypeOK, CountersExact, NEW t \in Threads, NEW l, Becomes(t, l)
  PROVE  Count(life', {"live"}) = live + One(l) - One(life[t])
<1>1. life'[t] = l /\ SameElsewhere(life, life', t)
  BY DEF TypeOK, SameElsewhere, Becomes
<1>2. Counts(life, life', t, {"live"})
  BY <1>1, CountMoved
<1> QED BY <1>1, <1>2 DEF Counts, CountersExact, One

(* Exact counters are natural numbers, so each decrement is of a positive  *)
(* one, and an empty counter means that nobody is at its points.           *)
LEMMA CountersNat ==
  ASSUME CountersExact
  PROVE  /\ waiters \in Nat /\ condWaiters \in Nat
         /\ yielders \in Nat /\ live \in Nat
         /\ condWaiters = 0 => \A t \in Threads : pc[t] \notin Parked
         /\ yielders = 0 => \A t \in Threads : pc[t] # "ypark"
BY CountIsNat DEF CountersExact

-----------------------------------------------------------------------------
(* Each action preserves the inductive invariant.                          *)

(* guest_lock's trylock. *)
LEMMA TryLockInv ==
  ASSUME IInv, NEW t \in Threads, TryLock(t)
  PROVE  IInv'
<1> USE NoThreadIsNone DEF TryLock, LockFree, locks, counts, queues, record
<1>1. TypeOK /\ CountersExact
  BY DEF IInv
<1>4. CountersExact'
  <2>1. pc[t] = "try" /\ (Goto(t, "taken") \/ Goto(t, "contend"))
    BY DEF IInv, RunnersAreLive
  <2> QED BY <1>1, <2>1, PcCounts, CountersNat DEF CountersExact, Parked
<1> USE DEF vars, locks, counts, queues, record, Goto
<1>5. TypeOK'
  BY <1>1, <1>4, CountIsNat, MaxSuspendIsNat DEF CountersExact, TypeOK, ThreadStates, Points, Holding, YHolding, Parked, Outside, Threads
<1>6. OneHolder'
  BY DEF IInv, TypeOK, OneHolder, Holding, YHolding, RunnersAreLive
<1>7. SuspendedNeverRuns' /\ TlsIsRunners' /\ RunnersAreLive'
  BY DEF IInv, TypeOK, OneHolder, Holding, SuspendedNeverRuns, TlsIsRunners, RunnersAreLive, Threads
<1>8. NoLostWakeup'
  BY CountersNat DEF IInv, TypeOK, OneHolder, Holding, NoLostWakeup, QueuesMatch, Parked, RunnersAreLive
<1>9. NoLostHandOff'
  BY CountersNat DEF IInv, TypeOK, NoLostHandOff, QueuesMatch, RunnersAreLive
<1>10. QueuesMatch'
  BY DEF IInv, TypeOK, OneHolder, Holding, QueuesMatch, Parked, RunnersAreLive
<1> QED BY <1>4, <1>5, <1>6, <1>7, <1>8, <1>9, <1>10 DEF IInv

(* Joining the counted lock waiters. *)
LEMMA ContendInv ==
  ASSUME IInv, NEW t \in Threads, Contend(t)
  PROVE  IInv'
<1> USE NoThreadIsNone DEF Contend, locks, counts, queues, record
<1>1. TypeOK /\ CountersExact
  BY DEF IInv
<1>4. CountersExact'
  <2>1. pc[t] = "contend" /\ Goto(t, "lockwait")
    BY DEF IInv, RunnersAreLive
  <2> QED BY <1>1, <2>1, PcCounts, CountersNat DEF CountersExact, Parked
<1> USE DEF vars, locks, counts, queues, record, Goto
<1>5. TypeOK'
  BY <1>1, <1>4, CountIsNat, MaxSuspendIsNat DEF CountersExact, TypeOK, ThreadStates, Points, Holding, YHolding, Parked, Outside, Threads
<1>6. OneHolder'
  BY DEF IInv, TypeOK, OneHolder, Holding, YHolding, RunnersAreLive
<1>7. SuspendedNeverRuns' /\ TlsIsRunners' /\ RunnersAreLive'
  BY DEF IInv, TypeOK, OneHolder, Holding, SuspendedNeverRuns, TlsIsRunners, RunnersAreLive, Threads
<1>8. NoLostWakeup'
  BY CountersNat DEF IInv, TypeOK, OneHolder, Holding, NoLostWakeup, QueuesMatch, Parked, RunnersAreLive
<1>9. NoLostHandOff'
  BY CountersNat DEF IInv, TypeOK, NoLostHandOff, QueuesMatch, RunnersAreLive
<1>10. QueuesMatch'
  BY DEF IInv, TypeOK, OneHolder, Holding, QueuesMatch, Parked, RunnersAreLive
<1> QED BY <1>4, <1>5, <1>6, <1>7, <1>8, <1>9, <1>10 DEF IInv

(* The blocking lock returns. *)
LEMMA AcquireLockInv ==
  ASSUME IInv, NEW t \in Threads, AcquireLock(t)
  PROVE  IInv'
<1> USE NoThreadIsNone DEF AcquireLock, locks, counts, queues, record
<1>1. TypeOK /\ CountersExact
  BY DEF IInv
<1>4. CountersExact'
  <2>1. pc[t] = "lockwait" /\ Goto(t, "unwait")
    BY DEF IInv, RunnersAreLive
  <2> QED BY <1>1, <2>1, PcCounts, CountersNat DEF CountersExact, Parked
<1> USE DEF vars, locks, counts, queues, record, Goto
<1>5. TypeOK'
  BY <1>1, <1>4, CountIsNat, MaxSuspendIsNat DEF CountersExact, TypeOK, ThreadStates, Points, Holding, YHolding, Parked, Outside, Threads
<1>6. OneHolder'
  BY DEF IInv, TypeOK, OneHolder, Holding, YHolding, RunnersAreLive
<1>7. SuspendedNeverRuns' /\ TlsIsRunners' /\ RunnersAreLive'
  BY DEF IInv, TypeOK, OneHolder, Holding, SuspendedNeverRuns, TlsIsRunners, RunnersAreLive, Threads
<1>8. NoLostWakeup'
  BY CountersNat DEF IInv, TypeOK, OneHolder, Holding, NoLostWakeup, QueuesMatch, Parked, RunnersAreLive
<1>9. NoLostHandOff'
  BY CountersNat DEF IInv, TypeOK, NoLostHandOff, QueuesMatch, RunnersAreLive
<1>10. QueuesMatch'
  BY DEF IInv, TypeOK, OneHolder, Holding, QueuesMatch, Parked, RunnersAreLive
<1> QED BY <1>4, <1>5, <1>6, <1>7, <1>8, <1>9, <1>10 DEF IInv

(* Leaving the lock waiters. *)
LEMMA UnWaitInv ==
  ASSUME IInv, NEW t \in Threads, UnWait(t)
  PROVE  IInv'
<1> USE NoThreadIsNone DEF UnWait, locks, counts, queues, record
<1>1. TypeOK /\ CountersExact
  BY DEF IInv
<1>4. CountersExact'
  <2>1. pc[t] = "unwait" /\ Goto(t, "taken")
    BY DEF IInv, RunnersAreLive
  <2> QED BY <1>1, <2>1, PcCounts, CountersNat DEF CountersExact, Parked
<1> USE DEF vars, locks, counts, queues, record, Goto
<1>5. TypeOK'
  BY <1>1, <1>4, CountIsNat, MaxSuspendIsNat DEF CountersExact, TypeOK, ThreadStates, Points, Holding, YHolding, Parked, Outside, Threads
<1>6. OneHolder'
  BY DEF IInv, TypeOK, OneHolder, Holding, YHolding, RunnersAreLive
<1>7. SuspendedNeverRuns' /\ TlsIsRunners' /\ RunnersAreLive'
  BY DEF IInv, TypeOK, OneHolder, Holding, SuspendedNeverRuns, TlsIsRunners, RunnersAreLive, Threads
<1>8. NoLostWakeup'
  BY CountersNat DEF IInv, TypeOK, OneHolder, Holding, NoLostWakeup, QueuesMatch, Parked, RunnersAreLive
<1>9. NoLostHandOff'
  BY CountersNat DEF IInv, TypeOK, NoLostHandOff, QueuesMatch, RunnersAreLive
<1>10. QueuesMatch'
  BY DEF IInv, TypeOK, OneHolder, Holding, QueuesMatch, Parked, RunnersAreLive
<1> QED BY <1>4, <1>5, <1>6, <1>7, <1>8, <1>9, <1>10 DEF IInv

(* Announcing a taken turn. *)
LEMMA TurnTakenInv ==
  ASSUME IInv, NEW t \in Threads, TurnTaken(t)
  PROVE  IInv'
<1> USE NoThreadIsNone DEF TurnTaken, locks, counts, queues, record
<1>1. TypeOK /\ CountersExact
  BY DEF IInv
<1>4. CountersExact'
  <2>1. pc[t] = "taken" /\ Goto(t, "peek")
    BY DEF IInv, RunnersAreLive
  <2> QED BY <1>1, <2>1, PcCounts, CountersNat DEF CountersExact, Parked
<1> USE DEF vars, locks, counts, queues, record, Goto
<1>5. TypeOK'
  BY <1>1, <1>4, CountIsNat, MaxSuspendIsNat DEF CountersExact, TypeOK, ThreadStates, Points, Holding, YHolding, Parked, Outside, Threads
<1>6. OneHolder'
  BY DEF IInv, TypeOK, OneHolder, Holding, YHolding, RunnersAreLive
<1>7. SuspendedNeverRuns' /\ TlsIsRunners' /\ RunnersAreLive'
  BY DEF IInv, TypeOK, OneHolder, Holding, SuspendedNeverRuns, TlsIsRunners, RunnersAreLive, Threads
<1>8. NoLostWakeup'
  BY CountersNat DEF IInv, TypeOK, OneHolder, Holding, NoLostWakeup, QueuesMatch, Parked, RunnersAreLive
<1>9. NoLostHandOff'
  BY CountersNat DEF IInv, TypeOK, NoLostHandOff, QueuesMatch, RunnersAreLive
<1>10. QueuesMatch'
  BY DEF IInv, TypeOK, OneHolder, Holding, QueuesMatch, Parked, RunnersAreLive
<1> QED BY <1>4, <1>5, <1>6, <1>7, <1>8, <1>9, <1>10 DEF IInv

(* Looking for yielders to wake. *)
LEMMA PeekYieldersInv ==
  ASSUME IInv, NEW t \in Threads, PeekYielders(t)
  PROVE  IInv'
<1> USE NoThreadIsNone DEF PeekYielders, NobodyYields, locks, counts, queues, record
<1>1. TypeOK /\ CountersExact
  BY DEF IInv
<1>4. CountersExact'
  <2>1. pc[t] = "peek" /\ (Goto(t, "settle") \/ Goto(t, "wake"))
    BY DEF IInv, RunnersAreLive
  <2> QED BY <1>1, <2>1, PcCounts, CountersNat DEF CountersExact, Parked
<1> USE DEF vars, locks, counts, queues, record, Goto
<1>5. TypeOK'
  BY <1>1, <1>4, CountIsNat, MaxSuspendIsNat DEF CountersExact, TypeOK, ThreadStates, Points, Holding, YHolding, Parked, Outside, Threads
<1>6. OneHolder'
  BY DEF IInv, TypeOK, OneHolder, Holding, YHolding, RunnersAreLive
<1>7. SuspendedNeverRuns' /\ TlsIsRunners' /\ RunnersAreLive'
  BY DEF IInv, TypeOK, OneHolder, Holding, SuspendedNeverRuns, TlsIsRunners, RunnersAreLive, Threads
<1>8. NoLostWakeup'
  BY CountersNat DEF IInv, TypeOK, OneHolder, Holding, NoLostWakeup, QueuesMatch, Parked, RunnersAreLive
<1>9. NoLostHandOff'
  BY CountersNat DEF IInv, TypeOK, NoLostHandOff, QueuesMatch, RunnersAreLive
<1>10. QueuesMatch'
  BY DEF IInv, TypeOK, OneHolder, Holding, QueuesMatch, Parked, RunnersAreLive
<1> QED BY <1>4, <1>5, <1>6, <1>7, <1>8, <1>9, <1>10 DEF IInv

(* Waking the yielders. *)
LEMMA WakeYieldersInv ==
  ASSUME IInv, NEW t \in Threads, WakeYielders(t)
  PROVE  IInv'
<1> USE NoThreadIsNone DEF WakeYielders, locks, counts, queues, record
<1>1. TypeOK /\ CountersExact
  BY DEF IInv
<1>4. CountersExact'
  <2>1. pc[t] = "wake" /\ Goto(t, "settle")
    BY DEF IInv, RunnersAreLive
  <2> QED BY <1>1, <2>1, PcCounts, CountersNat DEF CountersExact, Parked
<1> USE DEF vars, locks, counts, queues, record, Goto
<1>5. TypeOK'
  BY <1>1, <1>4, CountIsNat, MaxSuspendIsNat DEF CountersExact, TypeOK, ThreadStates, Points, Holding, YHolding, Parked, Outside, Threads
<1>6. OneHolder'
  BY DEF IInv, TypeOK, OneHolder, Holding, YHolding, RunnersAreLive
<1>7. SuspendedNeverRuns' /\ TlsIsRunners' /\ RunnersAreLive'
  BY DEF IInv, TypeOK, OneHolder, Holding, SuspendedNeverRuns, TlsIsRunners, RunnersAreLive, Threads
<1>8. NoLostWakeup'
  BY CountersNat DEF IInv, TypeOK, OneHolder, Holding, NoLostWakeup, QueuesMatch, Parked, RunnersAreLive
<1>9. NoLostHandOff'
  BY CountersNat DEF IInv, TypeOK, NoLostHandOff, QueuesMatch, RunnersAreLive
<1>10. QueuesMatch'
  BY DEF IInv, TypeOK, OneHolder, Holding, QueuesMatch, Parked, RunnersAreLive
<1> QED BY <1>4, <1>5, <1>6, <1>7, <1>8, <1>9, <1>10 DEF IInv

(* Binding the TLS bank and running, or parking suspended. *)
LEMMA SettleInv ==
  ASSUME IInv, NEW t \in Threads, Settle(t)
  PROVE  IInv'
<1> USE NoThreadIsNone DEF Settle, ParkSuspended, MustPark, BoundBank, locks, counts, queues, record
<1>1. TypeOK /\ CountersExact
  BY DEF IInv
<1>4. CountersExact'
  <2>1. pc[t] = "settle" /\ (Goto(t, "susp") \/ Goto(t, "guest"))
    BY DEF IInv, RunnersAreLive
  <2> QED BY <1>1, <2>1, PcCounts, CountersNat DEF CountersExact, Parked
<1> USE DEF vars, locks, counts, queues, record, Goto
<1>5. TypeOK'
  BY <1>1, <1>4, CountIsNat, MaxSuspendIsNat DEF CountersExact, TypeOK, ThreadStates, Points, Holding, YHolding, Parked, Outside, Threads
<1>6. OneHolder'
  BY DEF IInv, TypeOK, OneHolder, Holding, YHolding, RunnersAreLive
<1>7. SuspendedNeverRuns' /\ TlsIsRunners' /\ RunnersAreLive'
  BY DEF IInv, TypeOK, OneHolder, Holding, SuspendedNeverRuns, TlsIsRunners, RunnersAreLive, Threads
<1>8. NoLostWakeup'
  BY CountersNat DEF IInv, TypeOK, OneHolder, Holding, NoLostWakeup, QueuesMatch, Parked, RunnersAreLive
<1>9. NoLostHandOff'
  BY CountersNat DEF IInv, TypeOK, NoLostHandOff, QueuesMatch, RunnersAreLive
<1>10. QueuesMatch'
  BY DEF IInv, TypeOK, OneHolder, Holding, QueuesMatch, Parked, RunnersAreLive
<1> QED BY <1>4, <1>5, <1>6, <1>7, <1>8, <1>9, <1>10 DEF IInv

(* The first look at the epoch. *)
LEMMA ReleasedInv ==
  ASSUME IInv, NEW t \in Threads, Released(t)
  PROVE  IInv'
<1> USE NoThreadIsNone DEF Released, EpochMoved, locks, counts, queues, record
<1>1. TypeOK /\ CountersExact
  BY DEF IInv
<1>4. CountersExact'
  <2>1. pc[t] = "released" /\ (Goto(t, "ylock") \/ Goto(t, "try"))
    BY DEF IInv, RunnersAreLive
  <2> QED BY <1>1, <2>1, PcCounts, CountersNat DEF CountersExact, Parked
<1> USE DEF vars, locks, counts, queues, record, Goto
<1>5. TypeOK'
  BY <1>1, <1>4, CountIsNat, MaxSuspendIsNat DEF CountersExact, TypeOK, ThreadStates, Points, Holding, YHolding, Parked, Outside, Threads
<1>6. OneHolder'
  BY DEF IInv, TypeOK, OneHolder, Holding, YHolding, RunnersAreLive
<1>7. SuspendedNeverRuns' /\ TlsIsRunners' /\ RunnersAreLive'
  BY DEF IInv, TypeOK, OneHolder, Holding, SuspendedNeverRuns, TlsIsRunners, RunnersAreLive, Threads
<1>8. NoLostWakeup'
  BY CountersNat DEF IInv, TypeOK, OneHolder, Holding, NoLostWakeup, QueuesMatch, Parked, RunnersAreLive
<1>9. NoLostHandOff'
  BY CountersNat DEF IInv, TypeOK, NoLostHandOff, QueuesMatch, RunnersAreLive
<1>10. QueuesMatch'
  BY DEF IInv, TypeOK, OneHolder, Holding, QueuesMatch, Parked, RunnersAreLive
<1> QED BY <1>4, <1>5, <1>6, <1>7, <1>8, <1>9, <1>10 DEF IInv

(* Entering the yield lock. *)
LEMMA YieldLockInv ==
  ASSUME IInv, NEW t \in Threads, YieldLock(t)
  PROVE  IInv'
<1> USE NoThreadIsNone DEF YieldLock, locks, counts, queues, record
<1>1. TypeOK /\ CountersExact
  BY DEF IInv
<1>4. CountersExact'
  <2>1. pc[t] = "ylock" /\ (Goto(t, "ycount") \/ Goto(t, "try"))
    BY DEF IInv, RunnersAreLive
  <2> QED BY <1>1, <2>1, PcCounts, CountersNat DEF CountersExact, Parked
<1> USE DEF vars, locks, counts, queues, record, Goto
<1>5. TypeOK'
  BY <1>1, <1>4, CountIsNat, MaxSuspendIsNat DEF CountersExact, TypeOK, ThreadStates, Points, Holding, YHolding, Parked, Outside, Threads
<1>6. OneHolder'
  BY DEF IInv, TypeOK, OneHolder, Holding, YHolding, RunnersAreLive
<1>7. SuspendedNeverRuns' /\ TlsIsRunners' /\ RunnersAreLive'
  BY DEF IInv, TypeOK, OneHolder, Holding, SuspendedNeverRuns, TlsIsRunners, RunnersAreLive, Threads
<1>8. NoLostWakeup'
  BY CountersNat DEF IInv, TypeOK, OneHolder, Holding, NoLostWakeup, QueuesMatch, Parked, RunnersAreLive
<1>9. NoLostHandOff'
  BY CountersNat DEF IInv, TypeOK, NoLostHandOff, QueuesMatch, RunnersAreLive
<1>10. QueuesMatch'
  BY DEF IInv, TypeOK, OneHolder, Holding, QueuesMatch, Parked, RunnersAreLive
<1> QED BY <1>4, <1>5, <1>6, <1>7, <1>8, <1>9, <1>10 DEF IInv

(* Counting oneself a yielder. *)
LEMMA YieldCountInv ==
  ASSUME IInv, NEW t \in Threads, YieldCount(t)
  PROVE  IInv'
<1> USE NoThreadIsNone DEF YieldCount, locks, counts, queues, record
<1>1. TypeOK /\ CountersExact
  BY DEF IInv
<1>4. CountersExact'
  <2>1. pc[t] = "ycount" /\ Goto(t, "ytest")
    BY DEF IInv, RunnersAreLive
  <2> QED BY <1>1, <2>1, PcCounts, CountersNat DEF CountersExact, Parked
<1> USE DEF vars, locks, counts, queues, record, Goto
<1>5. TypeOK'
  BY <1>1, <1>4, CountIsNat, MaxSuspendIsNat DEF CountersExact, TypeOK, ThreadStates, Points, Holding, YHolding, Parked, Outside, Threads
<1>6. OneHolder'
  BY DEF IInv, TypeOK, OneHolder, Holding, YHolding, RunnersAreLive
<1>7. SuspendedNeverRuns' /\ TlsIsRunners' /\ RunnersAreLive'
  BY DEF IInv, TypeOK, OneHolder, Holding, SuspendedNeverRuns, TlsIsRunners, RunnersAreLive, Threads
<1>8. NoLostWakeup'
  BY CountersNat DEF IInv, TypeOK, OneHolder, Holding, NoLostWakeup, QueuesMatch, Parked, RunnersAreLive
<1>9. NoLostHandOff'
  BY CountersNat DEF IInv, TypeOK, NoLostHandOff, QueuesMatch, RunnersAreLive
<1>10. QueuesMatch'
  BY DEF IInv, TypeOK, OneHolder, Holding, QueuesMatch, Parked, RunnersAreLive
<1> QED BY <1>4, <1>5, <1>6, <1>7, <1>8, <1>9, <1>10 DEF IInv

(* The yield loop's test. *)
LEMMA YieldTestInv ==
  ASSUME IInv, NEW t \in Threads, YieldTest(t)
  PROVE  IInv'
<1> USE NoThreadIsNone DEF YieldTest, EpochMoved, locks, counts, queues, record
<1>1. TypeOK /\ CountersExact
  BY DEF IInv
<1>4. CountersExact'
  <2>1. pc[t] = "ytest" /\ (Goto(t, "ypark") \/ Goto(t, "yleave"))
    BY DEF IInv, RunnersAreLive
  <2> QED BY <1>1, <2>1, PcCounts, CountersNat DEF CountersExact, Parked
<1> USE DEF vars, locks, counts, queues, record, Goto
<1>5. TypeOK'
  BY <1>1, <1>4, CountIsNat, MaxSuspendIsNat DEF CountersExact, TypeOK, ThreadStates, Points, Holding, YHolding, Parked, Outside, Threads
<1>6. OneHolder'
  BY DEF IInv, TypeOK, OneHolder, Holding, YHolding, RunnersAreLive
<1>7. SuspendedNeverRuns' /\ TlsIsRunners' /\ RunnersAreLive'
  BY DEF IInv, TypeOK, OneHolder, Holding, SuspendedNeverRuns, TlsIsRunners, RunnersAreLive, Threads
<1>8. NoLostWakeup'
  BY CountersNat DEF IInv, TypeOK, OneHolder, Holding, NoLostWakeup, QueuesMatch, Parked, RunnersAreLive
<1>9. NoLostHandOff'
  BY CountersNat DEF IInv, TypeOK, NoLostHandOff, QueuesMatch, RunnersAreLive
<1>10. QueuesMatch'
  BY DEF IInv, TypeOK, OneHolder, Holding, QueuesMatch, Parked, RunnersAreLive
<1> QED BY <1>4, <1>5, <1>6, <1>7, <1>8, <1>9, <1>10 DEF IInv

(* The end of a yield slice. *)
LEMMA YieldWakeInv ==
  ASSUME IInv, NEW t \in Threads, YieldWake(t)
  PROVE  IInv'
<1> USE NoThreadIsNone DEF YieldWake, locks, counts, queues, record
<1>1. TypeOK /\ CountersExact
  BY DEF IInv
<1>4. CountersExact'
  <2>1. pc[t] = "ypark" /\ Goto(t, "ytest")
    BY DEF IInv, RunnersAreLive
  <2> QED BY <1>1, <2>1, PcCounts, CountersNat DEF CountersExact, Parked
<1> USE DEF vars, locks, counts, queues, record, Goto
<1>5. TypeOK'
  BY <1>1, <1>4, CountIsNat, MaxSuspendIsNat DEF CountersExact, TypeOK, ThreadStates, Points, Holding, YHolding, Parked, Outside, Threads
<1>6. OneHolder'
  BY DEF IInv, TypeOK, OneHolder, Holding, YHolding, RunnersAreLive
<1>7. SuspendedNeverRuns' /\ TlsIsRunners' /\ RunnersAreLive'
  BY DEF IInv, TypeOK, OneHolder, Holding, SuspendedNeverRuns, TlsIsRunners, RunnersAreLive, Threads
<1>8. NoLostWakeup'
  BY CountersNat DEF IInv, TypeOK, OneHolder, Holding, NoLostWakeup, QueuesMatch, Parked, RunnersAreLive
<1>9. NoLostHandOff'
  BY CountersNat DEF IInv, TypeOK, NoLostHandOff, QueuesMatch, RunnersAreLive
<1>10. QueuesMatch'
  BY DEF IInv, TypeOK, OneHolder, Holding, QueuesMatch, Parked, RunnersAreLive
<1> QED BY <1>4, <1>5, <1>6, <1>7, <1>8, <1>9, <1>10 DEF IInv

(* Leaving the yield lock. *)
LEMMA YieldLeaveInv ==
  ASSUME IInv, NEW t \in Threads, YieldLeave(t)
  PROVE  IInv'
<1> USE NoThreadIsNone DEF YieldLeave, locks, counts, queues, record
<1>1. TypeOK /\ CountersExact
  BY DEF IInv
<1>4. CountersExact'
  <2>1. pc[t] = "yleave" /\ Goto(t, "try")
    BY DEF IInv, RunnersAreLive
  <2> QED BY <1>1, <2>1, PcCounts, CountersNat DEF CountersExact, Parked
<1> USE DEF vars, locks, counts, queues, record, Goto
<1>5. TypeOK'
  BY <1>1, <1>4, CountIsNat, MaxSuspendIsNat DEF CountersExact, TypeOK, ThreadStates, Points, Holding, YHolding, Parked, Outside, Threads
<1>6. OneHolder'
  BY DEF IInv, TypeOK, OneHolder, Holding, YHolding, RunnersAreLive
<1>7. SuspendedNeverRuns' /\ TlsIsRunners' /\ RunnersAreLive'
  BY DEF IInv, TypeOK, OneHolder, Holding, SuspendedNeverRuns, TlsIsRunners, RunnersAreLive, Threads
<1>8. NoLostWakeup'
  BY CountersNat DEF IInv, TypeOK, OneHolder, Holding, NoLostWakeup, QueuesMatch, Parked, RunnersAreLive
<1>9. NoLostHandOff'
  BY CountersNat DEF IInv, TypeOK, NoLostHandOff, QueuesMatch, RunnersAreLive
<1>10. QueuesMatch'
  BY DEF IInv, TypeOK, OneHolder, Holding, QueuesMatch, Parked, RunnersAreLive
<1> QED BY <1>4, <1>5, <1>6, <1>7, <1>8, <1>9, <1>10 DEF IInv

(* Giving the turn up. *)
LEMMA YieldInv ==
  ASSUME IInv, NEW t \in Threads, Yield(t)
  PROVE  IInv'
<1> USE NoThreadIsNone DEF Yield, locks, counts, queues, record
<1>1. TypeOK /\ CountersExact
  BY DEF IInv
<1>4. CountersExact'
  <2>1. pc[t] = "guest" /\ Goto(t, "released")
    BY DEF IInv, RunnersAreLive
  <2> QED BY <1>1, <2>1, PcCounts, CountersNat DEF CountersExact, Parked
<1> USE DEF vars, locks, counts, queues, record, Goto
<1>5. TypeOK'
  BY <1>1, <1>4, CountIsNat, MaxSuspendIsNat DEF CountersExact, TypeOK, ThreadStates, Points, Holding, YHolding, Parked, Outside, Threads
<1>6. OneHolder'
  BY DEF IInv, TypeOK, OneHolder, Holding, YHolding, RunnersAreLive
<1>7. SuspendedNeverRuns' /\ TlsIsRunners' /\ RunnersAreLive'
  BY DEF IInv, TypeOK, OneHolder, Holding, SuspendedNeverRuns, TlsIsRunners, RunnersAreLive, Threads
<1>8. NoLostWakeup'
  BY CountersNat DEF IInv, TypeOK, OneHolder, Holding, NoLostWakeup, QueuesMatch, Parked, RunnersAreLive
<1>9. NoLostHandOff'
  BY CountersNat DEF IInv, TypeOK, NoLostHandOff, QueuesMatch, RunnersAreLive
<1>10. QueuesMatch'
  BY DEF IInv, TypeOK, OneHolder, Holding, QueuesMatch, Parked, RunnersAreLive
<1> QED BY <1>4, <1>5, <1>6, <1>7, <1>8, <1>9, <1>10 DEF IInv

(* Parking in a guest wait. *)
LEMMA CondWaitInv ==
  ASSUME IInv, NEW t \in Threads, CondWait(t)
  PROVE  IInv'
<1> USE NoThreadIsNone DEF CondWait, locks, counts, queues, record
<1>1. TypeOK /\ CountersExact
  BY DEF IInv
<1>4. CountersExact'
  <2>1. pc[t] = "guest" /\ Goto(t, "cond")
    BY DEF IInv, RunnersAreLive
  <2> QED BY <1>1, <2>1, PcCounts, CountersNat DEF CountersExact, Parked
<1> USE DEF vars, locks, counts, queues, record, Goto
<1>5. TypeOK'
  BY <1>1, <1>4, CountIsNat, MaxSuspendIsNat DEF CountersExact, TypeOK, ThreadStates, Points, Holding, YHolding, Parked, Outside, Threads
<1>6. OneHolder'
  BY DEF IInv, TypeOK, OneHolder, Holding, YHolding, RunnersAreLive
<1>7. SuspendedNeverRuns' /\ TlsIsRunners' /\ RunnersAreLive'
  BY DEF IInv, TypeOK, OneHolder, Holding, SuspendedNeverRuns, TlsIsRunners, RunnersAreLive, Threads
<1>8. NoLostWakeup'
  BY CountersNat DEF IInv, TypeOK, OneHolder, Holding, NoLostWakeup, QueuesMatch, Parked, RunnersAreLive
<1>9. NoLostHandOff'
  BY CountersNat DEF IInv, TypeOK, NoLostHandOff, QueuesMatch, RunnersAreLive
<1>10. QueuesMatch'
  BY DEF IInv, TypeOK, OneHolder, Holding, QueuesMatch, Parked, RunnersAreLive
<1> QED BY <1>4, <1>5, <1>6, <1>7, <1>8, <1>9, <1>10 DEF IInv

(* Guest time passing. *)
LEMMA ClockReachesInv ==
  ASSUME IInv, NEW t \in Threads, ClockReaches(t)
  PROVE  IInv'
<1> USE NoThreadIsNone DEF ClockReaches, locks, counts, queues, record
<1>1. TypeOK /\ CountersExact
  BY DEF IInv
<1>4. CountersExact'
  BY <1>1, CountersNat DEF CountersExact
<1> USE DEF vars, locks, counts, queues, record, Goto
<1>5. TypeOK'
  BY <1>1, <1>4, CountIsNat, MaxSuspendIsNat DEF CountersExact, TypeOK, ThreadStates, Points, Holding, YHolding, Parked, Outside, Threads
<1>6. OneHolder'
  BY DEF IInv, TypeOK, OneHolder, Holding, YHolding, RunnersAreLive
<1>7. SuspendedNeverRuns' /\ TlsIsRunners' /\ RunnersAreLive'
  BY DEF IInv, TypeOK, OneHolder, Holding, SuspendedNeverRuns, TlsIsRunners, RunnersAreLive, Threads
<1>8. NoLostWakeup'
  BY CountersNat DEF IInv, TypeOK, OneHolder, Holding, NoLostWakeup, QueuesMatch, Parked, RunnersAreLive
<1>9. NoLostHandOff'
  BY CountersNat DEF IInv, TypeOK, NoLostHandOff, QueuesMatch, RunnersAreLive
<1>10. QueuesMatch'
  BY DEF IInv, TypeOK, OneHolder, Holding, QueuesMatch, Parked, RunnersAreLive
<1> QED BY <1>4, <1>5, <1>6, <1>7, <1>8, <1>9, <1>10 DEF IInv

(* A guest wait returning. *)
LEMMA CondWakeInv ==
  ASSUME IInv, NEW t \in Threads, CondWake(t)
  PROVE  IInv'
<1> USE NoThreadIsNone DEF CondWake, locks, counts, queues, record
<1>1. TypeOK /\ CountersExact
  BY DEF IInv
<1>4. CountersExact'
  <2>1. pc[t] = "cond" /\ Goto(t, "taken")
    BY DEF IInv, RunnersAreLive
  <2> QED BY <1>1, <2>1, PcCounts, CountersNat DEF CountersExact, Parked
<1> USE DEF vars, locks, counts, queues, record, Goto
<1>5. TypeOK'
  BY <1>1, <1>4, CountIsNat, MaxSuspendIsNat DEF CountersExact, TypeOK, ThreadStates, Points, Holding, YHolding, Parked, Outside, Threads
<1>6. OneHolder'
  BY DEF IInv, TypeOK, OneHolder, Holding, YHolding, RunnersAreLive
<1>7. SuspendedNeverRuns' /\ TlsIsRunners' /\ RunnersAreLive'
  BY DEF IInv, TypeOK, OneHolder, Holding, SuspendedNeverRuns, TlsIsRunners, RunnersAreLive, Threads
<1>8. NoLostWakeup'
  BY CountersNat DEF IInv, TypeOK, OneHolder, Holding, NoLostWakeup, QueuesMatch, Parked, RunnersAreLive
<1>9. NoLostHandOff'
  BY CountersNat DEF IInv, TypeOK, NoLostHandOff, QueuesMatch, RunnersAreLive
<1>10. QueuesMatch'
  BY DEF IInv, TypeOK, OneHolder, Holding, QueuesMatch, Parked, RunnersAreLive
<1> QED BY <1>4, <1>5, <1>6, <1>7, <1>8, <1>9, <1>10 DEF IInv

(* A suspended thread waking to look at its count. *)
LEMMA SuspWakeInv ==
  ASSUME IInv, NEW t \in Threads, SuspWake(t)
  PROVE  IInv'
<1> USE NoThreadIsNone DEF SuspWake, locks, counts, queues, record
<1>1. TypeOK /\ CountersExact
  BY DEF IInv
<1>4. CountersExact'
  <2>1. pc[t] = "susp" /\ Goto(t, "taken")
    BY DEF IInv, RunnersAreLive
  <2> QED BY <1>1, <2>1, PcCounts, CountersNat DEF CountersExact, Parked
<1> USE DEF vars, locks, counts, queues, record, Goto
<1>5. TypeOK'
  BY <1>1, <1>4, CountIsNat, MaxSuspendIsNat DEF CountersExact, TypeOK, ThreadStates, Points, Holding, YHolding, Parked, Outside, Threads
<1>6. OneHolder'
  BY DEF IInv, TypeOK, OneHolder, Holding, YHolding, RunnersAreLive
<1>7. SuspendedNeverRuns' /\ TlsIsRunners' /\ RunnersAreLive'
  BY DEF IInv, TypeOK, OneHolder, Holding, SuspendedNeverRuns, TlsIsRunners, RunnersAreLive, Threads
<1>8. NoLostWakeup'
  BY CountersNat DEF IInv, TypeOK, OneHolder, Holding, NoLostWakeup, QueuesMatch, Parked, RunnersAreLive
<1>9. NoLostHandOff'
  BY CountersNat DEF IInv, TypeOK, NoLostHandOff, QueuesMatch, RunnersAreLive
<1>10. QueuesMatch'
  BY DEF IInv, TypeOK, OneHolder, Holding, QueuesMatch, Parked, RunnersAreLive
<1> QED BY <1>4, <1>5, <1>6, <1>7, <1>8, <1>9, <1>10 DEF IInv

(* guest_cond_broadcast. *)
LEMMA BroadcastInv ==
  ASSUME IInv, NEW t \in Threads, Broadcast(t)
  PROVE  IInv'
<1> USE NoThreadIsNone DEF Broadcast, locks, counts, queues, record
<1>1. TypeOK /\ CountersExact
  BY DEF IInv
<1>4. CountersExact'
  BY <1>1, CountersNat DEF CountersExact
<1> USE DEF vars, locks, counts, queues, record, Goto, CondBroadcast, MarkedReady, SomebodyParked
<1>5. TypeOK'
  BY <1>1, <1>4, CountIsNat, MaxSuspendIsNat DEF CountersExact, TypeOK, ThreadStates, Points, Holding, YHolding, Parked, Outside, Threads
<1>6. OneHolder'
  BY DEF IInv, TypeOK, OneHolder, Holding, YHolding, RunnersAreLive
<1>7. SuspendedNeverRuns' /\ TlsIsRunners' /\ RunnersAreLive'
  BY DEF IInv, TypeOK, OneHolder, Holding, SuspendedNeverRuns, TlsIsRunners, RunnersAreLive, Threads
<1>8. NoLostWakeup'
  BY CountersNat DEF IInv, TypeOK, OneHolder, Holding, NoLostWakeup, QueuesMatch, Parked, RunnersAreLive
<1>9. NoLostHandOff'
  BY CountersNat DEF IInv, TypeOK, NoLostHandOff, QueuesMatch, RunnersAreLive
<1>10. QueuesMatch'
  BY DEF IInv, TypeOK, OneHolder, Holding, QueuesMatch, Parked, RunnersAreLive
<1> QED BY <1>4, <1>5, <1>6, <1>7, <1>8, <1>9, <1>10 DEF IInv

(* Entering a blocking host call. *)
LEMMA BlockingBeginInv ==
  ASSUME IInv, NEW t \in Threads, BlockingBegin(t)
  PROVE  IInv'
<1> USE NoThreadIsNone DEF BlockingBegin, locks, counts, queues, record
<1>1. TypeOK /\ CountersExact
  BY DEF IInv
<1>4. CountersExact'
  <2>1. pc[t] = "guest" /\ Goto(t, "blocked")
    BY DEF IInv, RunnersAreLive
  <2> QED BY <1>1, <2>1, PcCounts, CountersNat DEF CountersExact, Parked
<1> USE DEF vars, locks, counts, queues, record, Goto
<1>5. TypeOK'
  BY <1>1, <1>4, CountIsNat, MaxSuspendIsNat DEF CountersExact, TypeOK, ThreadStates, Points, Holding, YHolding, Parked, Outside, Threads
<1>6. OneHolder'
  BY DEF IInv, TypeOK, OneHolder, Holding, YHolding, RunnersAreLive
<1>7. SuspendedNeverRuns' /\ TlsIsRunners' /\ RunnersAreLive'
  BY DEF IInv, TypeOK, OneHolder, Holding, SuspendedNeverRuns, TlsIsRunners, RunnersAreLive, Threads
<1>8. NoLostWakeup'
  BY CountersNat DEF IInv, TypeOK, OneHolder, Holding, NoLostWakeup, QueuesMatch, Parked, RunnersAreLive
<1>9. NoLostHandOff'
  BY CountersNat DEF IInv, TypeOK, NoLostHandOff, QueuesMatch, RunnersAreLive
<1>10. QueuesMatch'
  BY DEF IInv, TypeOK, OneHolder, Holding, QueuesMatch, Parked, RunnersAreLive
<1> QED BY <1>4, <1>5, <1>6, <1>7, <1>8, <1>9, <1>10 DEF IInv

(* Leaving a blocking host call. *)
LEMMA BlockingEndInv ==
  ASSUME IInv, NEW t \in Threads, BlockingEnd(t)
  PROVE  IInv'
<1> USE NoThreadIsNone DEF BlockingEnd, locks, counts, queues, record
<1>1. TypeOK /\ CountersExact
  BY DEF IInv
<1>4. CountersExact'
  <2>1. pc[t] = "blocked" /\ Goto(t, "try")
    BY DEF IInv, RunnersAreLive
  <2> QED BY <1>1, <2>1, PcCounts, CountersNat DEF CountersExact, Parked
<1> USE DEF vars, locks, counts, queues, record, Goto
<1>5. TypeOK'
  BY <1>1, <1>4, CountIsNat, MaxSuspendIsNat DEF CountersExact, TypeOK, ThreadStates, Points, Holding, YHolding, Parked, Outside, Threads
<1>6. OneHolder'
  BY DEF IInv, TypeOK, OneHolder, Holding, YHolding, RunnersAreLive
<1>7. SuspendedNeverRuns' /\ TlsIsRunners' /\ RunnersAreLive'
  BY DEF IInv, TypeOK, OneHolder, Holding, SuspendedNeverRuns, TlsIsRunners, RunnersAreLive, Threads
<1>8. NoLostWakeup'
  BY CountersNat DEF IInv, TypeOK, OneHolder, Holding, NoLostWakeup, QueuesMatch, Parked, RunnersAreLive
<1>9. NoLostHandOff'
  BY CountersNat DEF IInv, TypeOK, NoLostHandOff, QueuesMatch, RunnersAreLive
<1>10. QueuesMatch'
  BY DEF IInv, TypeOK, OneHolder, Holding, QueuesMatch, Parked, RunnersAreLive
<1> QED BY <1>4, <1>5, <1>6, <1>7, <1>8, <1>9, <1>10 DEF IInv

(* SuspendThread of oneself and of others. *)
LEMMA SuspendInv ==
  ASSUME IInv, NEW t \in Threads, NEW u \in Threads, Suspend(t, u)
  PROVE  IInv'
<1> USE NoThreadIsNone DEF Suspend, ParkSuspended, ParksItself, locks, counts, queues, record
<1>1. TypeOK /\ CountersExact
  BY DEF IInv
<1>4. CountersExact'
  <2>1. CASE u = t
    <3>1. pc[t] = "guest" /\ Goto(t, "susp")
      BY <2>1
    <3> QED BY <1>1, <2>1, <3>1, PcCounts, CountersNat DEF CountersExact, Parked
  <2>2. CASE u # t
    BY <1>1, <2>2 DEF CountersExact
  <2> QED BY <2>1, <2>2
<1> USE DEF vars, locks, counts, queues, record, Goto
<1>5. TypeOK'
  BY <1>1, <1>4, CountIsNat, MaxSuspendIsNat DEF CountersExact, TypeOK, ThreadStates, Points, Holding, YHolding, Parked, Outside, Threads
<1>6. OneHolder'
  BY DEF IInv, TypeOK, OneHolder, Holding, YHolding, RunnersAreLive
<1>7. SuspendedNeverRuns' /\ TlsIsRunners' /\ RunnersAreLive'
  BY DEF IInv, TypeOK, OneHolder, Holding, SuspendedNeverRuns, TlsIsRunners, RunnersAreLive, Threads
<1>8. NoLostWakeup'
  BY CountersNat DEF IInv, TypeOK, OneHolder, Holding, NoLostWakeup, QueuesMatch, Parked, RunnersAreLive
<1>9. NoLostHandOff'
  BY CountersNat DEF IInv, TypeOK, NoLostHandOff, QueuesMatch, RunnersAreLive
<1>10. QueuesMatch'
  BY DEF IInv, TypeOK, OneHolder, Holding, QueuesMatch, Parked, RunnersAreLive
<1> QED BY <1>4, <1>5, <1>6, <1>7, <1>8, <1>9, <1>10 DEF IInv

(* ResumeThread. *)
LEMMA ResumeInv ==
  ASSUME IInv, NEW t \in Threads, NEW u \in Threads, Resume(t, u)
  PROVE  IInv'
<1> USE NoThreadIsNone DEF Resume, Lowered, LastLevel, locks, counts, queues, record
<1>1. TypeOK /\ CountersExact
  BY DEF IInv
<1>4. CountersExact'
  BY <1>1, CountersNat DEF CountersExact
<1> USE DEF vars, locks, counts, queues, record, Goto, CondBroadcast, MarkedReady, SomebodyParked
<1>5. TypeOK'
  BY <1>1, <1>4, CountIsNat, MaxSuspendIsNat DEF CountersExact, TypeOK, ThreadStates, Points, Holding, YHolding, Parked, Outside, Threads
<1>6. OneHolder'
  BY DEF IInv, TypeOK, OneHolder, Holding, YHolding, RunnersAreLive
<1>7. SuspendedNeverRuns' /\ TlsIsRunners' /\ RunnersAreLive'
  BY DEF IInv, TypeOK, OneHolder, Holding, SuspendedNeverRuns, TlsIsRunners, RunnersAreLive, Threads
<1>8. NoLostWakeup'
  BY CountersNat DEF IInv, TypeOK, OneHolder, Holding, NoLostWakeup, QueuesMatch, Parked, RunnersAreLive
<1>9. NoLostHandOff'
  BY CountersNat DEF IInv, TypeOK, NoLostHandOff, QueuesMatch, RunnersAreLive
<1>10. QueuesMatch'
  BY DEF IInv, TypeOK, OneHolder, Holding, QueuesMatch, Parked, RunnersAreLive
<1> QED BY <1>4, <1>5, <1>6, <1>7, <1>8, <1>9, <1>10 DEF IInv

(* Creating a thread. *)
LEMMA CreateInv ==
  ASSUME IInv, NEW t \in Threads, NEW s \in Slots, Create(t, s)
  PROVE  IInv'
<1> USE NoThreadIsNone DEF Create, locks, counts, queues, record
<1> s \in Threads /\ s # Main
  BY MainIsNoSlot DEF Threads
<1>1. TypeOK /\ CountersExact
  BY DEF IInv
<1>2. life[s] = "free" /\ Becomes(s, "live")
  BY DEF IInv, RunnersAreLive, Becomes
<1>3. Count(life', {"live"}) = live'
  <2>1. Count(life', {"live"}) = live + One("live") - One("free")
    BY <1>1, <1>2, LifeCounts
  <2> QED BY <1>1, <2>1, CountersNat DEF One
<1>4. CountersExact'
  <2>1. pc[s] = "none" /\ Goto(s, "try")
    BY DEF IInv, RunnersAreLive
  <2> QED BY <1>1, <2>1, <1>3, PcCounts, CountersNat DEF CountersExact, Parked
<1> USE DEF vars, locks, counts, queues, record, Goto
<1>5. TypeOK'
  BY <1>1, <1>4, CountIsNat, MaxSuspendIsNat DEF CountersExact, TypeOK, ThreadStates, Points, Holding, YHolding, Parked, Outside, Threads
<1>6. OneHolder'
  BY DEF IInv, TypeOK, OneHolder, Holding, YHolding, RunnersAreLive
<1>7. SuspendedNeverRuns' /\ TlsIsRunners' /\ RunnersAreLive'
  BY DEF IInv, TypeOK, OneHolder, Holding, SuspendedNeverRuns, TlsIsRunners, RunnersAreLive, Threads
<1>8. NoLostWakeup'
  BY CountersNat DEF IInv, TypeOK, OneHolder, Holding, NoLostWakeup, QueuesMatch, Parked, RunnersAreLive
<1>9. NoLostHandOff'
  BY CountersNat DEF IInv, TypeOK, NoLostHandOff, QueuesMatch, RunnersAreLive
<1>10. QueuesMatch'
  BY DEF IInv, TypeOK, OneHolder, Holding, QueuesMatch, Parked, RunnersAreLive
<1> QED BY <1>4, <1>5, <1>6, <1>7, <1>8, <1>9, <1>10 DEF IInv

(* A thread ending. *)
LEMMA ExitInv ==
  ASSUME IInv, NEW t \in Threads, Exit(t)
  PROVE  IInv'
<1> USE NoThreadIsNone DEF Exit, locks, counts, queues, record
<1>1. TypeOK /\ CountersExact
  BY DEF IInv
<1>2. life[t] = "live" /\ Becomes(t, "finished")
  BY DEF IInv, RunnersAreLive, Becomes
<1>3. Count(life', {"live"}) = live'
  <2>1. Count(life', {"live"}) = live + One("finished") - One("live")
    BY <1>1, <1>2, LifeCounts
  <2> QED BY <1>1, <2>1, CountersNat DEF One
<1>4. CountersExact'
  <2>1. pc[t] = "guest" /\ Goto(t, "none")
    BY DEF IInv, RunnersAreLive
  <2> QED BY <1>1, <2>1, <1>3, PcCounts, CountersNat DEF CountersExact, Parked
<1> USE DEF vars, locks, counts, queues, record, Goto, CondBroadcast, MarkedReady, SomebodyParked
<1>5. TypeOK'
  BY <1>1, <1>4, CountIsNat, MaxSuspendIsNat DEF CountersExact, TypeOK, ThreadStates, Points, Holding, YHolding, Parked, Outside, Threads
<1>6. OneHolder'
  BY DEF IInv, TypeOK, OneHolder, Holding, YHolding, RunnersAreLive
<1>7. SuspendedNeverRuns' /\ TlsIsRunners' /\ RunnersAreLive'
  BY DEF IInv, TypeOK, OneHolder, Holding, SuspendedNeverRuns, TlsIsRunners, RunnersAreLive, Threads
<1>8. NoLostWakeup'
  BY CountersNat DEF IInv, TypeOK, OneHolder, Holding, NoLostWakeup, QueuesMatch, Parked, RunnersAreLive
<1>9. NoLostHandOff'
  BY CountersNat DEF IInv, TypeOK, NoLostHandOff, QueuesMatch, RunnersAreLive
<1>10. QueuesMatch'
  BY DEF IInv, TypeOK, OneHolder, Holding, QueuesMatch, Parked, RunnersAreLive
<1> QED BY <1>4, <1>5, <1>6, <1>7, <1>8, <1>9, <1>10 DEF IInv

(* Freeing the record of a finished thread. *)
LEMMA ReapInv ==
  ASSUME IInv, NEW t \in Threads, NEW s \in Slots, Reap(t, s)
  PROVE  IInv'
<1> USE NoThreadIsNone DEF Reap, MayReap, locks, counts, queues, record
<1> s \in Threads /\ s # Main
  BY MainIsNoSlot DEF Threads
<1>1. TypeOK /\ CountersExact
  BY DEF IInv
<1>2. life[s] = "finished" /\ Becomes(s, "free")
  BY DEF IInv, RunnersAreLive, Becomes
<1>3. Count(life', {"live"}) = live'
  <2>1. Count(life', {"live"}) = live + One("free") - One("finished")
    BY <1>1, <1>2, LifeCounts
  <2> QED BY <1>1, <2>1, CountersNat DEF One
<1>4. CountersExact'
  BY <1>1, <1>3, CountersNat DEF CountersExact
<1> USE DEF vars, locks, counts, queues, record, Goto
<1>5. TypeOK'
  BY <1>1, <1>4, CountIsNat, MaxSuspendIsNat DEF CountersExact, TypeOK, ThreadStates, Points, Holding, YHolding, Parked, Outside, Threads
<1>6. OneHolder'
  BY DEF IInv, TypeOK, OneHolder, Holding, YHolding, RunnersAreLive
<1>7. SuspendedNeverRuns' /\ TlsIsRunners' /\ RunnersAreLive'
  BY DEF IInv, TypeOK, OneHolder, Holding, SuspendedNeverRuns, TlsIsRunners, RunnersAreLive, Threads
<1>8. NoLostWakeup'
  BY CountersNat DEF IInv, TypeOK, OneHolder, Holding, NoLostWakeup, QueuesMatch, Parked, RunnersAreLive
<1>9. NoLostHandOff'
  BY CountersNat DEF IInv, TypeOK, NoLostHandOff, QueuesMatch, RunnersAreLive
<1>10. QueuesMatch'
  BY DEF IInv, TypeOK, OneHolder, Holding, QueuesMatch, Parked, RunnersAreLive
<1> QED BY <1>4, <1>5, <1>6, <1>7, <1>8, <1>9, <1>10 DEF IInv

-----------------------------------------------------------------------------
(* The invariant theorems.                                                 *)

(* The process starts in a state of the invariant: the main thread alone,  *)
(* holding g_lock.                                                         *)
LEMMA InitInv == Init => IInv
<1> SUFFICES ASSUME Init PROVE IInv
  OBVIOUS
<1> USE NoThreadIsNone, MainIsNoSlot DEF Init
<1>1. TypeOK
  BY MaxSuspendIsNat
  DEF TypeOK, ThreadStates, Points, Holding, YHolding, Parked, Outside, Threads
<1>2. CountersExact
  <2>1. ASSUME NEW Q, "guest" \notin Q, "none" \notin Q PROVE Count(pc, Q) = 0
    <3>1. {t \in Threads : pc[t] \in Q} = {}
      BY <2>1
    <3> QED BY <3>1, FS_EmptySet DEF Count
  <2>2. Count(life, {"live"}) = 1
    <3>1. {t \in Threads : life[t] \in {"live"}} = {Main}
      BY DEF Threads
    <3>2. Cardinality({Main}) = 1
      BY FS_Singleton
    <3> QED BY <3>1, <3>2 DEF Count
  <2>3. /\ Count(pc, {"lockwait", "unwait"}) = 0
        /\ Count(pc, Parked) = 0
        /\ Count(pc, {"ytest", "ypark", "yleave"}) = 0
    BY <2>1 DEF Parked
  <2> QED BY <2>2, <2>3 DEF CountersExact
<1>3. OneHolder /\ SuspendedNeverRuns /\ TlsIsRunners /\ RunnersAreLive
  BY DEF OneHolder, SuspendedNeverRuns, TlsIsRunners, RunnersAreLive, Holding,
         YHolding, Threads
<1>4. NoLostWakeup /\ NoLostHandOff /\ QueuesMatch
  BY DEF NoLostWakeup, NoLostHandOff, QueuesMatch, Threads
<1> QED BY <1>1, <1>2, <1>3, <1>4 DEF IInv

(* Every step preserves the invariant. *)
LEMMA StepInv == IInv /\ [Next]_vars => IInv'
<1> SUFFICES ASSUME IInv, [Next]_vars PROVE IInv'
  OBVIOUS
<1>1. CASE UNCHANGED vars
  BY <1>1 DEF vars, locks, counts, queues, record, IInv, TypeOK, OneHolder,
     SuspendedNeverRuns, TlsIsRunners, RunnersAreLive, CountersExact, Count,
     NoLostWakeup, NoLostHandOff, QueuesMatch
<1>2. ASSUME NEW t \in Threads, LockStep(t) PROVE IInv'
  BY <1>2, TryLockInv, ContendInv, AcquireLockInv, UnWaitInv, TurnTakenInv,
     PeekYieldersInv, WakeYieldersInv, SettleInv DEF LockStep
<1>3. ASSUME NEW t \in Threads, YieldStep(t) PROVE IInv'
  BY <1>3, ReleasedInv, YieldLockInv, YieldCountInv, YieldTestInv,
     YieldWakeInv, YieldLeaveInv DEF YieldStep
<1>4. ASSUME NEW t \in Threads, GuestStep(t) PROVE IInv'
  BY <1>4, YieldInv, CondWaitInv, BroadcastInv, BlockingBeginInv, ExitInv,
     SuspendInv, ResumeInv, CreateInv, ReapInv DEF GuestStep
<1>5. ASSUME NEW t \in Threads, WaitStep(t) PROVE IInv'
  BY <1>5, ClockReachesInv, CondWakeInv, SuspWakeInv, BlockingEndInv
  DEF WaitStep, WakeFromWait, WakeFromSuspend, SpuriousWake
<1> QED BY <1>1, <1>2, <1>3, <1>4, <1>5 DEF Next

(* The inductive invariant holds of the scheduler of threads.cpp and       *)
(* threads_yield.cpp, however many threads there are.                      *)
THEOREM Invariant == Spec => []IInv
<1>1. Init => IInv
  BY InitInv
<1>2. IInv /\ [Next]_vars => IInv'
  BY StepInv
<1> QED BY <1>1, <1>2, PTL DEF Spec

(* Type correctness; in particular no counter is ever decremented below    *)
(* zero, and suspend counts stay within their bound.                       *)
THEOREM TypeCorrect == Spec => []TypeOK
<1>1. IInv => TypeOK
  BY DEF IInv
<1> QED BY <1>1, Invariant, PTL

(* Mutual exclusion of the two mutexes' regions in threads.cpp and         *)
(* threads_yield.cpp.                                                      *)
THEOREM MutualExclusion == Spec => []OneHolder
<1>1. IInv => OneHolder
  BY DEF IInv
<1> QED BY <1>1, Invariant, PTL

(* SuspendThread's guarantee: once it has returned, its target executes no *)
(* guest code until it is resumed as often.                                *)
THEOREM SuspendIsExact == Spec => []SuspendedNeverRuns
<1>1. IInv => SuspendedNeverRuns
  BY DEF IInv
<1> QED BY <1>1, Invariant, PTL

(* A guest thread only ever runs with its own TLS bank bound.              *)
THEOREM OwnTls == Spec => []TlsIsRunners
<1>1. IInv => TlsIsRunners
  BY DEF IInv
<1> QED BY <1>1, Invariant, PTL

(* The counters behind scheduler_has_waiter and guest_cond_broadcast are   *)
(* exact.                                                                  *)
THEOREM ExactCounters == Spec => []CountersExact
<1>1. IInv => CountersExact
  BY DEF IInv
<1> QED BY <1>1, Invariant, PTL

(* No broadcast and no last ResumeThread is lost on a parked thread.       *)
THEOREM WakeupsArrive == Spec => []NoLostWakeup
<1>1. IInv => NoLostWakeup
  BY DEF IInv
<1> QED BY <1>1, Invariant, PTL

(* The hand-off promise is kept by a signal, not by the 10 ms slice.       *)
THEOREM HandOffsArrive == Spec => []NoLostHandOff
<1>1. IInv => NoLostHandOff
  BY DEF IInv
<1> QED BY <1>1, Invariant, PTL

-----------------------------------------------------------------------------
(* The scheduler implements turn taking.                                   *)

(* Under the invariant the abstract turn is exactly where guest code runs. *)
LEMMA TurnIs ==
  ASSUME IInv
  PROVE  /\ \A t \in Threads : Turn = t <=> pc[t] = "guest"
         /\ Turn = NoThread <=> \A t \in Threads : pc[t] # "guest"
<1>1. \A t \in Threads : pc[t] = "guest" => lock = t
  BY DEF IInv, OneHolder, Holding
<1>2. lock \in Threads \cup {NoThread}
  BY DEF IInv, TypeOK
<1> QED BY <1>1, <1>2, NoThreadIsNone DEF Turn

(* A step that starts and ends outside guest code, or inside it, and       *)
(* leaves life, suspend counts and TLS bank alone is not seen.             *)
LEMMA Unseen ==
  ASSUME IInv, IInv', UNCHANGED <<tls, life, suspended>>,
         \A t \in Threads : (pc[t] = "guest") <=> (pc'[t] = "guest")
  PROVE  UNCHANGED Turns!vars
<1>1. Turn' = Turn
  <2>1. \A t \in Threads : Turn' = t <=> pc'[t] = "guest"
    BY TurnIs DEF Turn, IInv, OneHolder, Holding, TypeOK
  <2>2. Turn \in Threads \cup {NoThread} /\ Turn' \in Threads \cup {NoThread}
    BY DEF Turn, IInv, TypeOK
  <2> QED BY <2>1, <2>2, TurnIs
<1> QED BY <1>1 DEF Turns!vars

(* Init implements the abstract one: the main thread has the turn. *)
LEMMA InitTurns == Init => Turns!Init
BY NoThreadIsNone
DEF Init, Turns!Init, Turn, Threads, Turns!Threads

(* guest_lock's last step is the abstract taking of a turn, or the binding *)
(* of a bank by a thread that then parks; its other steps are not seen.    *)
LEMMA LockStepTurns ==
  ASSUME IInv, IInv', NEW t \in Threads, LockStep(t)
  PROVE  [Turns!Next]_(Turns!vars)
<1> USE DEF locks, counts, queues, record, Goto
<1>1. CASE Settle(t) /\ suspended[t] = 0
  <2>1. life[t] = "live" /\ Turn = NoThread /\ Turn' = t
    BY <1>1, TurnIs
    DEF Settle, MustPark, IInv, TypeOK, OneHolder, Holding, RunnersAreLive, Turn
  <2>2. Turns!TakeTurn(t)
    BY <1>1, <2>1 DEF Settle, MustPark, BoundBank, Turns!TakeTurn
  <2> QED BY <2>2 DEF Turns!Next, Threads, Turns!Threads
<1>2. CASE Settle(t) /\ suspended[t] # 0
  <2>1. Turn = NoThread /\ Turn' = NoThread
    BY <1>2, TurnIs, NoThreadIsNone
    DEF Settle, MustPark, ParkSuspended, IInv, TypeOK, OneHolder, Holding, Turn
  <2>2. UNCHANGED <<life, suspended>> /\ tls' \in {tls, t}
    BY <1>2 DEF Settle, MustPark, BoundBank, ParkSuspended, IInv, TypeOK
  <2>3. Turns!Bind(t) \/ UNCHANGED Turns!vars
    BY <2>1, <2>2 DEF Turns!Bind, Turns!vars
  <2> QED BY <2>3 DEF Turns!Next, Threads, Turns!Threads
<1>3. ASSUME TryLock(t) \/ Contend(t) \/ AcquireLock(t) \/ UnWait(t)
               \/ TurnTaken(t) \/ PeekYielders(t) \/ WakeYielders(t)
      PROVE  UNCHANGED Turns!vars
  <2>1. /\ UNCHANGED <<tls, life, suspended>>
        /\ \A u \in Threads : (pc[u] = "guest") <=> (pc'[u] = "guest")
    BY <1>3 DEF IInv, TypeOK, TryLock, Contend, AcquireLock, UnWait, TurnTaken,
       PeekYielders, WakeYielders
  <2> QED BY <2>1, Unseen
<1> QED BY <1>1, <1>2, <1>3 DEF LockStep

(* Nothing inside guest_yield_turn is seen: the turn was given up before.  *)
LEMMA YieldStepTurns ==
  ASSUME IInv, IInv', NEW t \in Threads, YieldStep(t)
  PROVE  UNCHANGED Turns!vars
<1>1. /\ UNCHANGED <<tls, life, suspended>>
      /\ \A u \in Threads : (pc[u] = "guest") <=> (pc'[u] = "guest")
  BY DEF YieldStep, IInv, TypeOK, Released, YieldLock, YieldCount, YieldTest,
     YieldWake, YieldLeave, locks, counts, queues, record, Goto
<1> QED BY <1>1, Unseen

(* Waiting, timing out and returning from a host call are not seen.        *)
LEMMA WaitStepTurns ==
  ASSUME IInv, IInv', NEW t \in Threads, WaitStep(t)
  PROVE  UNCHANGED Turns!vars
<1>1. /\ UNCHANGED <<tls, life, suspended>>
      /\ \A u \in Threads : (pc[u] = "guest") <=> (pc'[u] = "guest")
  BY DEF WaitStep, IInv, TypeOK, ClockReaches, WakeFromWait, WakeFromSuspend,
     SpuriousWake, CondWake, SuspWake, BlockingEnd, locks, counts, queues,
     record, Goto
<1> QED BY <1>1, Unseen

(* Each request of the running thread is the abstract one of its name, or  *)
(* gives the turn up, or is not seen.                                      *)
LEMMA GuestStepTurns ==
  ASSUME IInv, IInv', NEW t \in Threads, GuestStep(t)
  PROVE  [Turns!Next]_(Turns!vars)
<1> USE DEF locks, counts, queues, record, Goto
<1> \A s \in Slots : s \in Threads
  BY DEF Threads
<1>a. pc[t] = "guest" /\ Turn = t
  BY TurnIs DEF GuestStep, Yield, CondWait, Broadcast, BlockingBegin, Exit,
     Suspend, Resume, Create, Reap
<1>1. ASSUME Yield(t) \/ CondWait(t) \/ BlockingBegin(t)
      PROVE  Turns!GiveTurn(t)
  <2>1. lock' = NoThread /\ UNCHANGED <<tls, life, suspended>>
    BY <1>1 DEF Yield, CondWait, BlockingBegin
  <2> QED BY <1>a, <2>1 DEF Turn, Turns!GiveTurn
<1>2. CASE Broadcast(t)
  <2>1. UNCHANGED <<tls, life, suspended, pc>>
    BY <1>2 DEF Broadcast
  <2> QED BY <2>1, Unseen
<1>3. ASSUME NEW u \in Threads, Suspend(t, u)
      PROVE  Turns!Suspend(t, u)
  <2>1. Turn' = IF u = t THEN NoThread ELSE t
    BY <1>3, <1>a, NoThreadIsNone
    DEF Suspend, ParksItself, ParkSuspended, Turn, IInv, OneHolder, Holding
  <2> QED BY <1>3, <1>a, <2>1 DEF Suspend, ParksItself, Turns!Suspend
<1>4. ASSUME NEW u \in Threads, Resume(t, u)
      PROVE  Turns!Resume(t, u) \/ UNCHANGED Turns!vars
  <2>1. Turn' = Turn
    BY <1>4, <1>a DEF Resume, Turn
  <2>2. CASE suspended[u] > 0
    BY <1>4, <1>a, <2>1, <2>2 DEF Resume, Lowered, Turns!Resume, IInv, TypeOK
  <2>3. CASE ~(suspended[u] > 0)
    <3>1. suspended' = suspended
      BY <1>4, <2>3 DEF Resume, Lowered, IInv, TypeOK
    <3> QED BY <1>4, <2>1, <3>1 DEF Resume, Turns!vars
  <2> QED BY <2>2, <2>3
<1>5. ASSUME NEW s \in Slots, Create(t, s)
      PROVE  Turns!Create(t, s)
  <2>1. s # t
    BY <1>5, <1>a DEF Create, IInv, RunnersAreLive
  <2>2. Turn' = Turn
    BY <1>5, <1>a, <2>1, NoThreadIsNone
    DEF Create, Turn, IInv, TypeOK, OneHolder, Holding
  <2> QED BY <1>5, <1>a, <2>2 DEF Create, Turns!Create
<1>6. ASSUME Exit(t)
      PROVE  Turns!Exit(t)
  <2>1. Turn' = NoThread
    BY <1>6 DEF Exit, Turn
  <2> QED BY <1>6, <1>a, <2>1 DEF Exit, Turns!Exit
<1>7. ASSUME NEW s \in Slots, Reap(t, s)
      PROVE  Turns!Reap(t, s)
  <2>1. Turn' = Turn
    BY <1>7, <1>a DEF Reap, Turn
  <2> QED BY <1>7, <1>a, <2>1 DEF Reap, MayReap, Turns!Reap
<1> QED
  BY <1>1, <1>2, <1>3, <1>4, <1>5, <1>6, <1>7
  DEF GuestStep, Turns!Next, Turns!Threads, Threads

(* Every step of the scheduler is a step of turn taking or a stutter.      *)
LEMMA StepTurns ==
  IInv /\ IInv' /\ [Next]_vars => [Turns!Next]_(Turns!vars)
<1> SUFFICES ASSUME IInv, IInv', [Next]_vars
             PROVE  [Turns!Next]_(Turns!vars)
  OBVIOUS
<1>1. CASE UNCHANGED vars
  <2>1. UNCHANGED <<tls, life, suspended, pc>>
    BY <1>1 DEF vars, record
  <2> QED BY <2>1, Unseen
<1>2. CASE Next
  BY <1>2, LockStepTurns, YieldStepTurns, GuestStepTurns, WaitStepTurns
  DEF Next
<1> QED BY <1>1, <1>2

(* The scheduler implements GuestTurns: mutex, condition variables,        *)
(* hand-off and counters add up to guest threads taking turns, suspended   *)
(* ones excepted.                                                          *)
THEOREM Implementation == Spec => ImplementsTurns
<1>1. Init => Turns!Init
  BY InitTurns
<1>2. IInv /\ IInv' /\ [Next]_vars => [Turns!Next]_(Turns!vars)
  BY StepTurns
<1> QED BY <1>1, <1>2, Invariant, PTL DEF Spec, ImplementsTurns, Turns!Spec
=============================================================================
