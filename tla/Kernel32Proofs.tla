--------------------------- MODULE Kernel32Proofs ---------------------------
(***************************************************************************)
(* Proofs about two parts of src/src/native/kernel32.cpp, ThreadHandles    *)
(* and CriticalSection, for any numbers of threads, records and handle     *)
(* indices and any bounds.                                                 *)
(*                                                                         *)
(* IInv of the handles needs where a stray handle of a failed creation can *)
(* be left.  SectionInv of the section: the ownership clause of LeaveLast  *)
(* and Take needs that a waiter owns nothing, and the lock count needs     *)
(* that a section that a waiter takes is free, so that it starts from 0.   *)
(***************************************************************************)
EXTENDS ThreadHandles, CriticalSection, FiniteSetTheorems, TLAPS

USE DEF Records

-----------------------------------------------------------------------------
(* Counting the handles of a record tells whether h is the only one.       *)
LEMMA OnlyHandle ==
  ASSUME TypeOK, NEW h \in open
  PROVE  /\ LastHandle(record[h]) => HandlesOf(record[h]) = {h}
         /\ ~LastHandle(record[h]) => \E g \in HandlesOf(record[h]) : g # h
<1> DEFINE S == HandlesOf(record[h])
<1>1. IsFiniteSet(S)
  <2>1. S \subseteq Handles
    BY DEF HandlesOf, TypeOK
  <2> QED
    BY <2>1, HandlesAreFinite, FS_Subset
<1>2. h \in S
  BY DEF HandlesOf
<1>3. Cardinality(S) = 1 <=> \E x : S = {x}
  BY <1>1, FS_Singleton
<1> QED
  BY <1>2, <1>3 DEF LastHandle

(* The initial tables. *)
LEMMA InitInvariant == Init => IInv
<1> SUFFICES ASSUME Init PROVE IInv
  OBVIOUS
<1>1. TypeOK
  BY BoundsAreNat, MainIsNoSlot DEF Init, TypeOK
<1>2. HandleKeepsItsThread /\ SignalledIffFinished /\ StraysAreSpoilt
  BY DEF Init, HandleKeepsItsThread, SignalledIffFinished, StraysAreSpoilt
<1>3. LastCloseReaps
  BY MainIsNoSlot DEF Init, LastCloseReaps
<1> QED
  BY <1>1, <1>2, <1>3 DEF IInv

-----------------------------------------------------------------------------
(* A new thread: no handle the guest knows names a free record.            *)
LEMMA CreateKeeps ==
  ASSUME IInv, NEW t \in Records, NEW r \in Slots, NEW h \in Handles,
         Create(t, r, h)
  PROVE  IInv'
<1> USE DEF IInv
<1>1. /\ h \notin open /\ h \notin known
      /\ life[r] = "free"
      /\ open' = open \cup {h} /\ known' = known \cup {h}
      /\ signalled' = signalled \ {h}
      /\ record' = [record EXCEPT ![h] = r]
      /\ means' = [means EXCEPT ![h] = born[r] + 1]
      /\ life' = [life EXCEPT ![r] = "live"]
      /\ born' = [born EXCEPT ![r] = @ + 1]
      /\ orphans' = orphans \ {r} /\ spoilt' = spoilt
  BY DEF Create, OpenHandle, Give, TypeOK
<1>2. \A g \in known : record[g] # r /\ g # h
  BY <1>1 DEF HandleKeepsItsThread
<1>3. TypeOK'
  <2>1. suspended' \in [Records -> 0 .. MaxSuspend]
    BY BoundsAreNat DEF Create, TypeOK
  <2>2. born' \in [Records -> Nat] /\ means' \in [Handles -> Nat]
    BY <1>1 DEF TypeOK
  <2> QED
    BY <1>1, <2>1, <2>2 DEF TypeOK
<1>4. HandleKeepsItsThread'
  BY <1>1, <1>2 DEF HandleKeepsItsThread, TypeOK
<1>5. SignalledIffFinished'
  BY <1>1, <1>2 DEF SignalledIffFinished, TypeOK
<1>6. LastCloseReaps'
  <2> SUFFICES ASSUME NEW q \in Slots \ (orphans \cup spoilt)', life'[q] = "finished"
               PROVE  (HandlesOf(q) \cap known)' # {}
    BY DEF LastCloseReaps
  <2>1. q # r /\ q \notin orphans \cup spoilt /\ life[q] = "finished"
    BY <1>1 DEF TypeOK
  <2>2. PICK g \in HandlesOf(q) \cap known : TRUE
    BY <2>1 DEF LastCloseReaps
  <2> QED
    BY <1>1, <1>2, <2>2 DEF HandlesOf, TypeOK
<1>7. StraysAreSpoilt'
  BY <1>1 DEF StraysAreSpoilt, TypeOK
<1> QED
  BY <1>3, <1>4, <1>5, <1>6, <1>7

(* A creation that fails leaves a handle the guest never hears of.         *)
LEMMA CreateFailsKeeps ==
  ASSUME IInv, NEW t \in Records, NEW r \in Slots, NEW h \in Handles,
         CreateFails(t, r, h)
  PROVE  IInv'
<1> USE DEF IInv
<1>1. /\ h \notin open /\ h \notin known
      /\ open' = open \cup {h} /\ known' = known
      /\ signalled' = signalled \ {h}
      /\ record' = [record EXCEPT ![h] = r]
      /\ spoilt' = spoilt \cup {r}
      /\ UNCHANGED <<life, suspended, means, born, orphans>>
  BY DEF CreateFails, OpenHandle, TypeOK, table
<1>2. TypeOK'
  BY <1>1 DEF TypeOK
<1>3. HandleKeepsItsThread' /\ SignalledIffFinished'
  BY <1>1 DEF HandleKeepsItsThread, SignalledIffFinished, TypeOK
<1>4. LastCloseReaps'
  <2> SUFFICES ASSUME NEW q \in Slots \ (orphans \cup spoilt)', life'[q] = "finished"
               PROVE  (HandlesOf(q) \cap known)' # {}
    BY DEF LastCloseReaps
  <2>1. q \notin orphans \cup spoilt /\ life[q] = "finished"
    BY <1>1
  <2>2. PICK g \in HandlesOf(q) \cap known : TRUE
    BY <2>1 DEF LastCloseReaps
  <2> QED
    BY <1>1, <2>2 DEF HandlesOf, TypeOK
<1>5. StraysAreSpoilt'
  BY <1>1 DEF StraysAreSpoilt, TypeOK
<1> QED
  BY <1>2, <1>3, <1>4, <1>5

(* A thread ends: every handle that names it is marked, and no other.      *)
LEMMA FinishKeeps ==
  ASSUME IInv, NEW t \in Records, Finish(t)
  PROVE  IInv'
<1> USE DEF IInv
<1>1. /\ t \in Slots /\ life[t] = "live"
      /\ life' = [life EXCEPT ![t] = "finished"]
      /\ signalled' = signalled \cup HandlesOf(t)
      /\ orphans' = IF HandlesOf(t) \cap known = {} THEN orphans \cup {t} ELSE orphans
      /\ UNCHANGED <<suspended, open, record, known, means, born, spoilt>>
  BY DEF Finish, Running, Marked
<1>2. HandlesOf(t) \subseteq open
  BY DEF HandlesOf
<1>3. TypeOK'
  <2>1. orphans' \subseteq Records /\ signalled' \subseteq Handles
    BY <1>1, <1>2 DEF TypeOK
  <2> QED
    BY <1>1, <2>1 DEF TypeOK
<1>4. HandleKeepsItsThread'
  BY <1>1 DEF HandleKeepsItsThread, TypeOK
<1>5. SignalledIffFinished'
  <2> SUFFICES ASSUME NEW g \in known
               PROVE  g \in signalled' <=> life'[record[g]] = "finished"
    BY <1>1 DEF SignalledIffFinished
  <2>1. g \in open /\ record[g] \in Records
    BY DEF TypeOK
  <2>2. CASE record[g] = t
    BY <1>1, <2>1, <2>2 DEF HandlesOf, TypeOK
  <2>3. CASE record[g] # t
    BY <1>1, <2>1, <2>3 DEF HandlesOf, TypeOK, SignalledIffFinished
  <2> QED
    BY <2>2, <2>3
<1>6. LastCloseReaps'
  <2> SUFFICES ASSUME NEW q \in Slots, q \notin orphans', q \notin spoilt,
                      life'[q] = "finished"
               PROVE  HandlesOf(q) \cap known # {}
    BY <1>1 DEF LastCloseReaps, HandlesOf
  <2>1. q \notin orphans
    BY <1>1
  <2>2. CASE q = t
    BY <1>1, <2>2
  <2>3. CASE q # t
    BY <1>1, <2>1, <2>3 DEF LastCloseReaps, TypeOK
  <2> QED
    BY <2>2, <2>3
<1>7. StraysAreSpoilt'
  BY <1>1 DEF StraysAreSpoilt
<1> QED
  BY <1>3, <1>4, <1>5, <1>6, <1>7

(* A handle is closed: the record goes back only with its last handle, so  *)
(* no handle is left to name the thread that gets it next.                 *)
LEMMA CloseKeeps ==
  ASSUME IInv, NEW t \in Records, NEW h \in Handles, Close(t, h)
  PROVE  IInv'
<1> USE DEF IInv
<1>1. /\ h \in known /\ h \in open
      /\ open' = open \ {h} /\ known' = known \ {h}
      /\ life' \in [Records -> {"free", "live", "finished"}]
      /\ \A r \in Records : life'[r] = IF r \in Reaped(h) THEN "free" ELSE life[r]
      /\ UNCHANGED <<suspended, record, signalled, means, born, orphans, spoilt>>
  BY DEF Close, TypeOK, history
<1>2. \A r \in Reaped(h) : r = record[h] /\ life[r] = "finished" /\ HandlesOf(r) = {h}
  BY <1>1, OnlyHandle DEF Reaped
<1>3. \A g \in known' : g \in known /\ g \in open /\ g # h /\ record[g] \notin Reaped(h)
  BY <1>1, <1>2 DEF HandlesOf, TypeOK
<1>4. TypeOK'
  BY <1>1 DEF TypeOK
<1>5. HandleKeepsItsThread'
  BY <1>1, <1>3 DEF HandleKeepsItsThread, TypeOK
<1>6. SignalledIffFinished'
  BY <1>1, <1>3 DEF SignalledIffFinished, TypeOK
<1>7. LastCloseReaps'
  <2> SUFFICES ASSUME NEW q \in Slots, q \notin orphans, q \notin spoilt,
                      life'[q] = "finished"
               PROVE  (HandlesOf(q) \cap known)' # {}
    BY <1>1 DEF LastCloseReaps
  <2>1. q \notin Reaped(h) /\ life[q] = "finished"
    BY <1>1
  <2>2. PICK g \in HandlesOf(q) \cap known : TRUE
    BY <2>1 DEF LastCloseReaps
  <2>3. CASE g # h
    BY <1>1, <2>2, <2>3 DEF HandlesOf
  <2>4. CASE g = h
    <3>1. q = record[h] /\ ~LastHandle(record[h])
      BY <2>1, <2>2, <2>4 DEF HandlesOf, Reaped
    <3>2. PICK k \in HandlesOf(q) : k # h
      BY <1>1, <3>1, OnlyHandle
    <3>3. k \in known
      BY <3>2 DEF HandlesOf, StraysAreSpoilt
    <3> QED
      BY <1>1, <3>2, <3>3 DEF HandlesOf
  <2> QED
    BY <2>3, <2>4
<1>8. StraysAreSpoilt'
  BY <1>1 DEF StraysAreSpoilt
<1> QED
  BY <1>4, <1>5, <1>6, <1>7, <1>8

(* A copy g of a handle h, or of the caller's pseudo-handle: it names a    *)
(* record that is in use, and is signalled as that record's thread is.     *)
LEMMA CopyKeeps ==
  ASSUME IInv, NEW r \in Records, NEW g \in Handles,
         OpenHandle(g, r, life[r] = "finished"), Give(g, born[r]),
         life[r] # "free", UNCHANGED <<table, history>>
  PROVE  IInv'
<1> USE DEF IInv
<1>1. /\ g \notin open /\ g \notin known
      /\ open' = open \cup {g} /\ known' = known \cup {g}
      /\ record' = [record EXCEPT ![g] = r]
      /\ means' = [means EXCEPT ![g] = born[r]]
      /\ UNCHANGED <<life, suspended, born, orphans, spoilt>>
  BY DEF OpenHandle, Give, TypeOK, table, history
<1>2. /\ signalled' \subseteq Handles
      /\ g \in signalled' <=> life[r] = "finished"
      /\ \A k \in Handles \ {g} : k \in signalled' <=> k \in signalled
  BY DEF OpenHandle, TypeOK
<1>3. TypeOK'
  <2>1. born[r] \in Nat
    BY DEF TypeOK
  <2> QED
    BY <1>1, <1>2, <2>1 DEF TypeOK
<1>4. HandleKeepsItsThread'
  BY <1>1 DEF HandleKeepsItsThread, TypeOK
<1>5. SignalledIffFinished'
  BY <1>1, <1>2 DEF SignalledIffFinished, TypeOK
<1>6. LastCloseReaps'
  <2> SUFFICES ASSUME NEW q \in Slots, q \notin orphans, q \notin spoilt,
                      life[q] = "finished"
               PROVE  (HandlesOf(q) \cap known)' # {}
    BY <1>1 DEF LastCloseReaps
  <2>1. PICK k \in HandlesOf(q) \cap known : TRUE
    BY DEF LastCloseReaps
  <2> QED
    BY <1>1, <2>1 DEF HandlesOf, TypeOK
<1>7. StraysAreSpoilt'
  BY <1>1 DEF StraysAreSpoilt, TypeOK
<1> QED
  BY <1>3, <1>4, <1>5, <1>6, <1>7

(* DuplicateHandle of a handle. *)
LEMMA DuplicateKeeps ==
  ASSUME IInv, NEW t \in Records, NEW h \in Handles, NEW g \in Handles,
         Duplicate(t, h, g)
  PROVE  IInv'
<1>1. record[h] \in Records /\ life[record[h]] # "free" /\ means[h] = born[record[h]]
  BY DEF Duplicate, IInv, TypeOK, HandleKeepsItsThread
<1>2. h \in signalled <=> life[record[h]] = "finished"
  BY DEF Duplicate, IInv, SignalledIffFinished
<1>3. /\ OpenHandle(g, record[h], life[record[h]] = "finished")
      /\ Give(g, born[record[h]])
      /\ UNCHANGED <<table, history>>
  BY <1>1, <1>2 DEF Duplicate, OpenHandle
<1> QED
  BY <1>1, <1>3, CopyKeeps

(* DuplicateHandle of the caller's pseudo-handle. *)
LEMMA DuplicateSelfKeeps ==
  ASSUME IInv, NEW t \in Records, NEW g \in Handles, DuplicateSelf(t, g)
  PROVE  IInv'
<1>1. life[t] # "free" /\ life[t] # "finished"
  BY DEF DuplicateSelf, Running
<1>2. /\ OpenHandle(g, t, life[t] = "finished")
      /\ Give(g, born[t])
      /\ UNCHANGED <<table, history>>
  BY <1>1 DEF DuplicateSelf, OpenHandle
<1> QED
  BY <1>1, <1>2, CopyKeeps

(* DuplicateHandle that closes its source: the name moves. *)
LEMMA MoveKeeps ==
  ASSUME IInv, NEW t \in Records, NEW h \in Handles, NEW g \in Handles,
         Move(t, h, g)
  PROVE  IInv'
<1> USE DEF IInv
<1>1. /\ h \in known /\ h \in open /\ g \notin open /\ g \notin known /\ g # h
      /\ open' = (open \cup {g}) \ {h} /\ known' = (known \cup {g}) \ {h}
      /\ record' = [record EXCEPT ![g] = record[h]]
      /\ means' = [means EXCEPT ![g] = means[h]]
      /\ UNCHANGED <<life, suspended, born, orphans, spoilt>>
  BY DEF Move, TypeOK, table, history
<1>2. /\ signalled' \subseteq Handles
      /\ g \in signalled' <=> h \in signalled
      /\ \A k \in Handles \ {g} : k \in signalled' <=> k \in signalled
  BY DEF Move, TypeOK
<1>3. TypeOK'
  BY <1>1, <1>2 DEF TypeOK
<1>4. HandleKeepsItsThread'
  BY <1>1 DEF HandleKeepsItsThread, TypeOK
<1>5. SignalledIffFinished'
  BY <1>1, <1>2 DEF SignalledIffFinished, TypeOK
<1>6. LastCloseReaps'
  <2> SUFFICES ASSUME NEW q \in Slots, q \notin orphans, q \notin spoilt,
                      life[q] = "finished"
               PROVE  (HandlesOf(q) \cap known)' # {}
    BY <1>1 DEF LastCloseReaps
  <2>1. PICK k \in HandlesOf(q) \cap known : TRUE
    BY DEF LastCloseReaps
  <2>2. CASE k = h
    BY <1>1, <2>1, <2>2 DEF HandlesOf, TypeOK
  <2>3. CASE k # h
    BY <1>1, <2>1, <2>3 DEF HandlesOf, TypeOK
  <2> QED
    BY <2>2, <2>3
<1>7. StraysAreSpoilt'
  BY <1>1 DEF StraysAreSpoilt, TypeOK
<1> QED
  BY <1>3, <1>4, <1>5, <1>6, <1>7

(* Suspends and resumes touch the suspend counts alone. *)
LEMMA SuspendResumeKeeps ==
  ASSUME IInv, NEW t \in Records, NEW h \in Handles,
         Suspend(t, h) \/ Resume(t, h)
  PROVE  IInv'
<1> USE DEF IInv
<1>1. UNCHANGED <<life, handle, history>>
  BY DEF Suspend, Resume
<1>2. suspended' \in [Records -> 0 .. MaxSuspend]
  <2>1. CASE Suspend(t, h)
    BY <2>1, BoundsAreNat DEF Suspend, TypeOK
  <2>2. CASE Resume(t, h)
    <3>1. \A n \in 0 .. MaxSuspend : Lowered(n) \in 0 .. MaxSuspend
      BY BoundsAreNat DEF Lowered
    <3> QED
      BY <2>2, <3>1 DEF Resume, TypeOK
  <2> QED
    BY <2>1, <2>2
<1>3. TypeOK'
  BY <1>1, <1>2 DEF TypeOK, handle, history
<1>4. (HandleKeepsItsThread /\ SignalledIffFinished /\ StraysAreSpoilt)'
  BY <1>1 DEF HandleKeepsItsThread, SignalledIffFinished, StraysAreSpoilt, handle, history
<1>5. LastCloseReaps'
  BY <1>1 DEF LastCloseReaps, HandlesOf, handle, history
<1> QED
  BY <1>3, <1>4, <1>5

-----------------------------------------------------------------------------
(* The invariant holds in every reachable state. *)
THEOREM Invariant == Spec => []IInv
<1>1. Init => IInv
  BY InitInvariant
<1>2. IInv /\ [Next]_vars => IInv'
  <2> SUFFICES ASSUME IInv, [Next]_vars PROVE IInv'
    OBVIOUS
  <2>1. CASE UNCHANGED vars
    BY <2>1 DEF vars, table, handle, history, IInv, TypeOK, HandleKeepsItsThread,
                SignalledIffFinished, LastCloseReaps, StraysAreSpoilt, HandlesOf
  <2>2. CASE Next
    <3>1. PICK t \in Records :
            \/ Finish(t)
            \/ \E h \in Handles :
                 \/ \E r \in Slots : Create(t, r, h) \/ CreateFails(t, r, h)
                 \/ DuplicateSelf(t, h)
                 \/ Close(t, h) \/ Suspend(t, h) \/ Resume(t, h)
                 \/ \E g \in Handles : Duplicate(t, h, g) \/ Move(t, h, g)
      BY <2>2 DEF Next
    <3>2. CASE Finish(t)
      BY <3>2, FinishKeeps
    <3>3. ASSUME NEW h \in Handles, NEW r \in Slots,
                 Create(t, r, h) \/ CreateFails(t, r, h)
          PROVE  IInv'
      BY <3>3, CreateKeeps, CreateFailsKeeps
    <3>4. ASSUME NEW h \in Handles,
                 DuplicateSelf(t, h) \/ Close(t, h) \/ Suspend(t, h) \/ Resume(t, h)
          PROVE  IInv'
      BY <3>4, DuplicateSelfKeeps, CloseKeeps, SuspendResumeKeeps
    <3>5. ASSUME NEW h \in Handles, NEW g \in Handles,
                 Duplicate(t, h, g) \/ Move(t, h, g)
          PROVE  IInv'
      BY <3>5, DuplicateKeeps, MoveKeeps
    <3> QED
      BY <3>1, <3>2, <3>3, <3>4, <3>5
  <2> QED
    BY <2>1, <2>2
<1> QED
  BY <1>1, <1>2, PTL DEF Spec

(* A handle means the thread it was opened for as long as it is open. *)
THEOREM HandlesKeepTheirThreads == Spec => []HandleKeepsItsThread
<1>1. IInv => HandleKeepsItsThread
  BY DEF IInv
<1> QED
  BY <1>1, Invariant, PTL

(* A handle is signalled exactly when its thread has ended. *)
THEOREM SignalMeansFinished == Spec => []SignalledIffFinished
<1>1. IInv => SignalledIffFinished
  BY DEF IInv
<1> QED
  BY <1>1, Invariant, PTL

(* The close of the last handle gives a finished thread's record back. *)
THEOREM RecordsComeBack == Spec => []LastCloseReaps
<1>1. IInv => LastCloseReaps
  BY DEF IInv
<1> QED
  BY <1>1, Invariant, PTL

-----------------------------------------------------------------------------
(* Nobody is inside a fresh section, so SectionInv holds initially. *)
LEMMA SectionStart == SectionInit => SectionInv
<1> SUFFICES ASSUME SectionInit PROVE SectionInv
  OBVIOUS
<1> USE NobodyIsNoThread, MaxRenewsIsNat DEF SectionInit
<1>1. SectionType
  BY DEF SectionType
<1>2. OneInside
  BY DEF OneInside
<1>3. NoSleeperOnFree /\ LockCountFloor /\ WaitersOwnNothing
  BY DEF NoSleeperOnFree, LockCountFloor, WaitersOwnNothing
<1> QED
  BY <1>1, <1>2, <1>3 DEF SectionInv

(* Each step of a thread, and a stuttering step, keeps SectionInv: the     *)
(* fields of the section, the wait loop and the guest's own count agree.   *)
LEMMA SectionStep == SectionInv /\ [SectionNext]_sectionVars => SectionInv'
<1> SUFFICES ASSUME SectionInv, [SectionNext]_sectionVars PROVE SectionInv'
  OBVIOUS
<1> USE NobodyIsNoThread, MaxRenewsIsNat
<1> USE DEF SectionInv, SectionType, OneInside, NoSleeperOnFree, LockCountFloor,
            WaitersOwnNothing, section
<1>1. ASSUME NEW t \in Threads, Renew(t) PROVE SectionInv'
  BY <1>1 DEF Renew, FreeLockCount
<1>2. ASSUME NEW t \in Threads, Enter(t) PROVE SectionInv'
  BY <1>2 DEF Enter, Take, MayTake, TakenLockCount
<1>3. ASSUME NEW t \in Threads, Contend(t) PROVE SectionInv'
  BY <1>3 DEF Contend, MayTake
<1>4. ASSUME NEW t \in Threads, Wake(t) PROVE SectionInv'
  BY <1>4 DEF Wake
<1>5. ASSUME NEW t \in Threads, TakeLate(t) PROVE SectionInv'
  <2>1. owner = Nobody
    BY <1>5 DEF TakeLate, MayTake
  <2> QED
    BY <1>5, <2>1 DEF TakeLate, Take, TakenLockCount
<1>6. ASSUME NEW t \in Threads, SleepAgain(t) PROVE SectionInv'
  BY <1>6 DEF SleepAgain, MayTake
<1>7. ASSUME NEW t \in Threads, TryEnter(t) PROVE SectionInv'
  <2>1. CASE MayTake(t)
    BY <1>7, <2>1 DEF TryEnter, Take, MayTake, TakenLockCount
  <2>2. CASE ~MayTake(t)
    BY <1>7, <2>2 DEF TryEnter
  <2> QED
    BY <2>1, <2>2
<1>8. ASSUME NEW t \in Threads, Leave(t) PROVE SectionInv'
  <2>1. CASE LeaveAsStranger(t)
    BY <2>1 DEF LeaveAsStranger, sectionVars
  <2>2. CASE LeaveNested(t)
    BY <2>2 DEF LeaveNested, MayLeave, Nested
  <2>3. CASE LeaveLast(t)
    <3>1. owner = t /\ recursion = 1 /\ inside[t] = 1
      BY <2>3 DEF LeaveLast, MayLeave, Nested
    <3>2. inside' \in [Threads -> Nat] /\ \A u \in Threads : inside'[u] = 0
      BY <2>3, <3>1 DEF LeaveLast
    <3>3. /\ mode' \in [Threads -> {"out", "asleep", "awake"}]
          /\ \A u \in Threads : mode'[u] # "asleep"
      BY <2>3 DEF LeaveLast, Awoken
    <3>4. /\ owner' = Nobody /\ recursion' = 0 /\ lockCount' = -1
          /\ freedBy' = "leave" /\ renewals' = renewals
      BY <2>3 DEF LeaveLast, FreeLockCount
    <3> QED
      BY <3>2, <3>3, <3>4
  <2> QED
    BY <1>8, <2>1, <2>2, <2>3 DEF Leave
<1>9. CASE UNCHANGED sectionVars
  BY <1>9 DEF sectionVars
<1> QED
  BY <1>1, <1>2, <1>3, <1>4, <1>5, <1>6, <1>7, <1>8, <1>9 DEF SectionNext

(* SectionInv holds in every reachable state. *)
THEOREM SectionInvariant == SectionSpec => []SectionInv
  BY SectionStart, SectionStep, PTL DEF SectionSpec

(* At most one thread is inside a critical section, and its fields name    *)
(* that thread and its depth, whatever the guest does with the section.    *)
THEOREM Exclusion == SectionSpec => []OneInside
<1>1. SectionInv => OneInside
  BY DEF SectionInv
<1> QED
  BY SectionInvariant, <1>1, PTL

(* The last leave leaves no sleeper behind. *)
THEOREM LeaveWakes == SectionSpec => []NoSleeperOnFree
<1>1. SectionInv => NoSleeperOnFree
  BY DEF SectionInv
<1> QED
  BY SectionInvariant, <1>1, PTL

(* LockCount never reads below -1 and reads -1 while the section is free.  *)
THEOREM LockCountIsBounded == SectionSpec => []LockCountFloor
<1>1. SectionInv => LockCountFloor
  BY DEF SectionInv
<1> QED
  BY SectionInvariant, <1>1, PTL
=============================================================================
