--------------------------- MODULE ThreadHandles ---------------------------
(***************************************************************************)
(* Thread handles and the records they name: the thread half of            *)
(* src/src/native/kernel32_handle_table.cpp, DuplicateHandle, CloseHandle, *)
(* SuspendThread and ResumeThread of src/src/native/kernel32.cpp, and the  *)
(* life of a record in src/src/native/threads.cpp.                         *)
(*                                                                         *)
(* Both tables hand out small indices again.  A record goes back to its    *)
(* table when the last handle to a finished thread is closed; the handles  *)
(* that name it are found by scanning the handle table.  Each call is one  *)
(* step: its caller holds the guest lock (GuestScheduler).                 *)
(***************************************************************************)
EXTENDS Naturals, FiniteSets

CONSTANTS
  Slots,         \* the records that threads are created in
  Main,          \* the record of the main thread
  Handles,       \* the indices of the handle table
  MaxLives,      \* bound on the threads created in one record
  MaxSuspend,    \* bound on nested suspends
  PthreadFails   \* may pthread_create fail?

Records == Slots \cup {Main}

ASSUME SlotsAreFinite == IsFiniteSet(Slots)
ASSUME HandlesAreFinite == IsFiniteSet(Handles)
ASSUME MainIsNoSlot == Main \notin Slots
ASSUME BoundsAreNat == MaxLives \in Nat /\ MaxSuspend \in Nat \ {0}
ASSUME PthreadFailsIsBoolean == PthreadFails \in BOOLEAN

VARIABLES
  life,       \* per record: "free", "live" (used) or "finished" (used)
  suspended,  \* per record: the suspend count
  open,       \* handles of kind H_THREAD
  record,     \* per handle: thread_rec
  signalled,  \* handles whose count is 1
  known,      \* handles the guest was given and has not closed
  born,       \* history: per record, how many threads it has held
  means,      \* history: per handle, which of them it was opened for
  orphans,    \* history: records whose thread ended with no handle open
  spoilt      \* history: records on which a failed creation left a handle

table   == <<life, suspended>>
handle  == <<open, record, signalled, known, means>>
history == <<born, orphans, spoilt>>
vars    == <<table, handle, history>>

(* The threads that can make a call.                                       *)
Running(t) == life[t] = "live" /\ suspended[t] = 0

(* k32_thread_handle_count.                                                *)
HandlesOf(r) == {h \in open : record[h] = r}

-----------------------------------------------------------------------------
(* A handle h that was not open is set up for the thread in r.  (The code  *)
(* takes the lowest free index; which one is of no account here.)          *)
OpenHandle(h, r, sig) ==
  /\ h \notin open
  /\ open' = open \cup {h}
  /\ record' = [record EXCEPT ![h] = r]
  /\ signalled' = IF sig THEN signalled \cup {h} ELSE signalled \ {h}

Give(h, n) ==
  /\ known' = known \cup {h}
  /\ means' = [means EXCEPT ![h] = n]

(* guest_thread_create_ex: takes a record, then a handle, then a pthread.  *)
Create(t, r, h) ==
  /\ Running(t)
  /\ life[r] = "free" /\ born[r] < MaxLives
  /\ OpenHandle(h, r, FALSE)
  /\ Give(h, born[r] + 1)
  /\ life' = [life EXCEPT ![r] = "live"]
  /\ \E n \in {0, 1} : suspended' = [suspended EXCEPT ![r] = n]
  /\ born' = [born EXCEPT ![r] = @ + 1]
  /\ orphans' = orphans \ {r}
  /\ UNCHANGED spoilt

(* Without a pthread the record is given back and the handle is not.       *)
CreateFails(t, r, h) ==
  /\ PthreadFails
  /\ Running(t)
  /\ life[r] = "free"
  /\ OpenHandle(h, r, FALSE)
  /\ spoilt' = spoilt \cup {r}
  /\ UNCHANGED <<table, known, means, born, orphans>>

(* The end of thread_main, guest_thread_exit: k32_handle_thread_done marks *)
(* every alias.  (A definition Name_Slip is a mistake that could be made   *)
(* in Name.)                                                               *)
Marked_NoAlias(r) == {h \in HandlesOf(r) : HandlesOf(r) = {h}}
Marked(r) == HandlesOf(r)

Finish(t) ==
  /\ t \in Slots
  /\ Running(t)
  /\ life' = [life EXCEPT ![t] = "finished"]
  /\ signalled' = signalled \cup Marked(t)
  /\ orphans' = IF HandlesOf(t) \cap known = {} THEN orphans \cup {t} ELSE orphans
  /\ UNCHANGED <<suspended, open, record, known, means, born, spoilt>>

-----------------------------------------------------------------------------
(* guest_thread_handle_closed, before the handle itself is cleared.        *)
LastHandle_AnyHandle(r) == TRUE
LastHandle_Cleared(r) == Cardinality(HandlesOf(r)) = 0
LastHandle(r) == Cardinality(HandlesOf(r)) = 1

Reaped(h) == {r \in {record[h]} : life[r] = "finished" /\ LastHandle(r)}

Close(t, h) ==
  /\ Running(t)
  /\ h \in known
  /\ life' = [r \in Records |-> IF r \in Reaped(h) THEN "free" ELSE life[r]]
  /\ open' = open \ {h}
  /\ known' = known \ {h}
  /\ UNCHANGED <<suspended, record, signalled, means, history>>

(* DuplicateHandle copies the entry, of a handle or of the caller's own    *)
(* pseudo-handle.                                                          *)
Duplicate(t, h, g) ==
  /\ Running(t)
  /\ h \in known
  /\ OpenHandle(g, record[h], h \in signalled)
  /\ Give(g, means[h])
  /\ UNCHANGED <<table, history>>

DuplicateSelf(t, g) ==
  /\ Running(t)
  /\ OpenHandle(g, t, FALSE)
  /\ Give(g, born[t])
  /\ UNCHANGED <<table, history>>

(* With DUPLICATE_CLOSE_SOURCE the copy exists when the source is closed,  *)
(* so the source is never the last handle.                                 *)
Move(t, h, g) ==
  /\ Running(t)
  /\ h \in known
  /\ g \notin open
  /\ open' = (open \cup {g}) \ {h}
  /\ record' = [record EXCEPT ![g] = record[h]]
  /\ signalled' = IF h \in signalled THEN signalled \cup {g} ELSE signalled \ {g}
  /\ known' = (known \cup {g}) \ {h}
  /\ means' = [means EXCEPT ![g] = means[h]]
  /\ UNCHANGED <<table, history>>

-----------------------------------------------------------------------------
(* SuspendThread and ResumeThread, through by_handle.                      *)
Suspend(t, h) ==
  /\ Running(t)
  /\ h \in known
  /\ life[record[h]] # "free"
  /\ suspended[record[h]] < MaxSuspend
  /\ suspended' = [suspended EXCEPT ![record[h]] = @ + 1]
  /\ UNCHANGED <<life, handle, history>>

Lowered_NoFloor(n) == n - 1
Lowered(n) == IF n > 0 THEN n - 1 ELSE n

Resume(t, h) ==
  /\ Running(t)
  /\ h \in known
  /\ life[record[h]] # "free"
  /\ suspended' = [suspended EXCEPT ![record[h]] = Lowered(@)]
  /\ UNCHANGED <<life, handle, history>>

-----------------------------------------------------------------------------
Init ==
  /\ life = [r \in Records |-> IF r = Main THEN "live" ELSE "free"]
  /\ suspended = [r \in Records |-> 0]
  /\ open = {} /\ signalled = {} /\ known = {}
  /\ record = [h \in Handles |-> Main]
  /\ born = [r \in Records |-> IF r = Main THEN 1 ELSE 0]
  /\ means = [h \in Handles |-> 1]
  /\ orphans = {} /\ spoilt = {}

Next ==
  \E t \in Records :
    \/ Finish(t)
    \/ \E h \in Handles :
         \/ \E r \in Slots : Create(t, r, h) \/ CreateFails(t, r, h)
         \/ DuplicateSelf(t, h)
         \/ Close(t, h) \/ Suspend(t, h) \/ Resume(t, h)
         \/ \E g \in Handles : Duplicate(t, h, g) \/ Move(t, h, g)

Spec == Init /\ [][Next]_vars

-----------------------------------------------------------------------------
(* The types of the two tables' fields, suspend counts within their bound. *)
TypeOK ==
  /\ life \in [Records -> {"free", "live", "finished"}]
  /\ suspended \in [Records -> 0 .. MaxSuspend]
  /\ open \subseteq Handles /\ signalled \subseteq Handles
  /\ known \subseteq open
  /\ record \in [Handles -> Records]
  /\ born \in [Records -> Nat]
  /\ means \in [Handles -> Nat]
  /\ orphans \subseteq Records /\ spoilt \subseteq Records

(* While the guest holds a handle, the record behind it is not handed to   *)
(* another thread: the handle means the thread it was opened for, however  *)
(* many aliases came and went ("a CLOSED handle stops naming this thread", *)
(* and an open one does not).                                              *)
HandleKeepsItsThread ==
  \A h \in known : life[record[h]] # "free" /\ means[h] = born[record[h]]

(* WaitForSingleObject on any alias of a thread sees that it has ended,    *)
(* whether the alias was made before or after; and not earlier.            *)
SignalledIffFinished ==
  \A h \in known : h \in signalled <=> life[record[h]] = "finished"

(* A finished thread whose handles are all closed has given its record     *)
(* back, unless they were closed before it ended or the record carries the *)
(* handle of a failed creation.                                            *)
LastCloseReaps ==
  \A r \in Slots \ (orphans \cup spoilt) :
    life[r] = "finished" => HandlesOf(r) \cap known # {}

(* The inductive invariant: only a failed creation leaves handles open     *)
(* that the guest does not know.                                           *)
StraysAreSpoilt == \A h \in open \ known : record[h] \in spoilt

IInv ==
  /\ TypeOK
  /\ HandleKeepsItsThread /\ SignalledIffFinished
  /\ LastCloseReaps /\ StraysAreSpoilt

-----------------------------------------------------------------------------
(* "This is a fixed table, not a leak report" (threads.cpp, when every     *)
(* slot is taken): no slot is taken by a thread that has ended and that no *)
(* handle names any more.                                                  *)
NoSlotLeaks ==
  \A r \in Slots : life[r] = "finished" => HandlesOf(r) # {}

(* "The stacks go back here too" (threads.cpp, guest_thread_handle_closed, *)
(* at the close of the last handle): of a thread that ended with a handle  *)
(* open, nothing is kept once the guest has closed all it was given.       *)
StacksGoBack ==
  \A r \in Slots \ orphans : life[r] = "finished" => HandlesOf(r) \cap known # {}

(* "The main thread is refused BY NAME" (kernel32.cpp, SuspendThread).     *)
MainIsNeverSuspended == suspended[Main] = 0
=============================================================================
