-------------------------- MODULE SaveGamesProofs ---------------------------
(***************************************************************************)
(* Proofs about SaveGames and the Autosave under it, for any number of     *)
(* autosaves, idle polls, saves and records.                               *)
(*                                                                         *)
(* On the disk (DiskInv): a name is only ever given a record that was      *)
(* written and synced whole, so a power loss finds no torn one; and every  *)
(* record that is renamed is at least as recent as the one last reported,  *)
(* so that it does not matter which name it replaces.                      *)
(*                                                                         *)
(* In the menus (MenuInv): nothing is published while the save manager is  *)
(* at work, so the directory stays as it was when the player chose; a read *)
(* is owned only between its start and its dispatch; and Continue's        *)
(* acknowledgement waits for no other read than its own.                   *)
(***************************************************************************)
EXTENDS SaveGames, WellFoundedInduction, TLAPS

DiskType ==
  /\ leaf \in Leaves /\ written \in 0 .. 3
  /\ clock \in 0 .. MaxTime /\ saved \in 0 .. clock
  /\ name \in [Leaves -> Contents]
  /\ survives \in [Leaves -> SUBSET Contents]

(* What each step of a publication counts on.                              *)
PublicationInv ==
  /\ pc = "write" => written < 3
  /\ pc \in {"sync", "close", "rename", "syncdir"} => written = 3
  /\ pc \in {"close", "rename"} => synced = TRUE
  /\ pc = "syncdir" => name[leaf] = [at |-> clock, whole |-> TRUE]

DiskInv == DiskType /\ PublicationInv /\ RecordsAreWhole /\ SavedStays

MenuType ==
  /\ owner \in {"None", "Continue", "Menu"}
  /\ mode \in {0, 3} /\ slot \in Saves
  /\ mode = 0 <=> phase = "none"
  /\ phase # "none" => Idle

(* Where a read is on its way, and what it will find.                      *)
ReadInv ==
  /\ owner # "None" =>
       /\ phase = "dispatch"
       /\ wanted = [source |-> owner, at |-> TimeOf(register)]
  /\ owner = "None" /\ phase = "dispatch" =>
       wanted = [source |-> "Title", at |-> manual[slot]]
  /\ phase = "list" => \A l \in Leaves : listed[l] > 0 => listed[l] = name[l].at

AckInv == ack => owner = "Continue" \/ (phase = "done" /\ loaded.source = "Continue")

MenuInv == MenuType /\ ReadInv /\ LoadsWhatWasChosen /\ AckInv

IInv == DiskInv /\ MenuInv

-----------------------------------------------------------------------------
(* A set of naturals has a least one.                                      *)
LEMMA Least ==
  ASSUME NEW T \in SUBSET Nat, T # {}
  PROVE  \E x \in T : \A y \in T : x <= y
<1> DEFINE R == {ss \in Nat \X Nat : ss[1] < ss[2]}
<1>1. OpToRel(<, Nat) = R
  BY Zenon DEF OpToRel
<1>2. IsWellFoundedOn(R, Nat)
  BY <1>1, NatLessThanWellFounded, Zenon
<1>3. PICK x \in T : \A y \in T : <<y, x>> \notin R
  <2> HIDE DEF R
  <2> QED
    BY <1>2, WFMin
<1>4. ASSUME NEW y \in T PROVE x <= y
  <2>1. <<y, x>> \in Nat \X Nat /\ <<y, x>> \notin R
    BY <1>3
  <2>2. ~(y < x)
    BY <2>1
  <2> QED
    BY <2>2
<1> QED
  BY <1>4

(* save_catalog_next_autosave always finds one of the autosaves' names.    *)
LEMMA NextIsALeaf ==
  ASSUME name \in [Leaves -> Contents]
  PROVE  NextAutosave \in Leaves
<1> USE ThereIsASlot, AutosaveBounds
<1>1. CASE Present # Leaves
  <2> DEFINE F == Leaves \ Present
  <2>1. F \in SUBSET Nat /\ F # {} /\ F \subseteq Leaves
    BY <1>1 DEF Leaves, Present
  <2>2. Min(F) \in F
    <3> HIDE DEF F
    <3>1. \E x \in F : \A y \in F : x =< y
      BY <2>1, Least
    <3> QED
      BY <3>1 DEF Min
  <2> QED
    BY <1>1, <2>1, <2>2 DEF NextAutosave
<1>2. CASE Present = Leaves
  <2> DEFINE T == {name[l].at : l \in Leaves}
  <2>1. \A l \in Leaves : name[l].at \in Nat
    BY DEF Contents
  <2>2. T \in SUBSET Nat /\ T # {}
    BY <2>1 DEF Leaves
  <2>3. PICK x \in T : \A y \in T : x <= y
    <3> HIDE DEF T
    <3> QED
      BY <2>2, Least
  <2>4. \E l \in Leaves : \A k \in Leaves : name[l].at <= name[k].at
    BY <2>3
  <2> QED
    BY <1>2, <2>4 DEF NextAutosave
<1> QED
  BY <1>1, <1>2

-----------------------------------------------------------------------------
(* At the start there are no saves, and nothing is asked for.              *)
LEMMA InitInv == Init => IInv
<1> SUFFICES ASSUME Init PROVE IInv
  OBVIOUS
<1> USE ThereIsASlot, AutosaveBounds DEF Init, AutosaveInit, MenuInit
<1>1. 0 \in Leaves /\ Absent \in Contents /\ Absent.whole
  BY DEF Leaves, Contents, Absent
<1>2. DiskType /\ PublicationInv
  BY <1>1 DEF DiskType, PublicationInv
<1>3. RecordsAreWhole /\ SavedStays
  BY <1>1 DEF RecordsAreWhole, SavedStays
<1>4. MenuInv
  BY DEF MenuInv, MenuType, ReadInv, LoadsWhatWasChosen, AckInv, Idle
<1> QED
  BY <1>2, <1>3, <1>4 DEF IInv, DiskInv

(* A step that leaves the directory and the publication alone.             *)
LEMMA DiskKept ==
  ASSUME DiskInv, UNCHANGED <<publication, disk, saved>>
  PROVE  DiskInv'
  BY DEF DiskInv, DiskType, PublicationInv, RecordsAreWhole, SavedStays,
         publication, disk

(* A publication keeps the directory whole: what is renamed was written    *)
(* and synced, and what is reported is what the directory holds.           *)
LEMMA PublishKeepsDisk ==
  ASSUME DiskInv, Publish \/ Fail
  PROVE  DiskInv'
<1> USE ThereIsASlot, AutosaveBounds
<1> USE DEF DiskInv, DiskType, PublicationInv, RecordsAreWhole, SavedStays,
            policy, publication, disk
<1>1. CASE Capture
  <2>1. leaf' \in Leaves
    BY <1>1, NextIsALeaf DEF Capture
  <2> QED
    BY <1>1, <2>1 DEF Capture
<1>2. CASE Open
  BY <1>2 DEF Open, Goes
<1>3. CASE Write
  BY <1>3 DEF Write
<1>4. CASE Sync
  BY <1>4 DEF Sync, Goes, Synced
<1>5. CASE Close
  BY <1>5 DEF Close, Goes
<1>6. CASE Rename
  <2> DEFINE r == [at |-> clock, whole |-> TRUE]
  <2>1. Record = r /\ AfterPowerLoss = {r} /\ r \in Contents
    BY <1>6 DEF Rename, Goes, Record, AfterPowerLoss, Contents
  <2>2. name' = [name EXCEPT ![leaf] = r]
        /\ survives' = [survives EXCEPT ![leaf] = @ \cup {r}]
    BY <1>6, <2>1 DEF Rename
  <2>3. UNCHANGED <<leaf, written, synced, clock, saved>> /\ pc' = "syncdir"
        /\ written = 3
    BY <1>6 DEF Rename, Goes
  <2>4. DiskType' /\ PublicationInv'
    BY <2>1, <2>2, <2>3
  <2>5. RecordsAreWhole'
    BY <2>1, <2>2
  <2>6. SavedStays'
    <3> SUFFICES ASSUME saved > 0
                 PROVE  \E l \in Leaves : \A c \in survives'[l] : c.whole /\ c.at >= saved
      BY <2>3
    <3>1. PICK l \in Leaves : \A c \in survives[l] : c.whole /\ c.at >= saved
      OBVIOUS
    <3>2. r.whole /\ r.at >= saved
      OBVIOUS
    <3> HIDE DEF r
    <3>3. \A c \in survives'[l] : c.whole /\ c.at >= saved
      BY <2>2, <3>1, <3>2
    <3> QED
      BY <3>3
  <2> QED
    BY <2>4, <2>5, <2>6
<1>7. CASE SyncDirectory
  <2>1. survives' = [l \in Leaves |-> {name[l]}]
    BY <1>7 DEF SyncDirectory, Kept
  <2>2. name[leaf] = [at |-> clock, whole |-> TRUE] /\ UNCHANGED <<name, clock>>
        /\ saved' = clock /\ leaf' = 0 /\ written' = 0 /\ pc' = "none"
    BY <1>7 DEF SyncDirectory, Finished
  <2>3. 0 \in Leaves
    BY DEF Leaves
  <2>4. DiskType' /\ PublicationInv' /\ RecordsAreWhole'
    BY <2>1, <2>2, <2>3
  <2>5. SavedStays'
    BY <2>1, <2>2
  <2> QED
    BY <2>4, <2>5
<1>8. CASE Fail
  <2>1. 0 \in Leaves
    BY DEF Leaves
  <2> QED
    BY <1>8, <2>1 DEF Fail, Finished
<1> QED
  BY <1>1, <1>2, <1>3, <1>4, <1>5, <1>6, <1>7, <1>8 DEF Publish

(* A kill keeps the directory; a power loss leaves of every name a record  *)
(* that survives.                                                          *)
LEMMA RestartKeepsDisk ==
  ASSUME DiskInv, Kill \/ PowerLoss
  PROVE  DiskInv'
<1> USE ThereIsASlot DEF DiskInv
<1>1. 0 \in Leaves
  BY DEF Leaves
<1>2. UNCHANGED <<clock, saved>> /\ leaf' = 0 /\ written' = 0 /\ pc' = "none"
  BY DEF Kill, PowerLoss, Restarted, Finished
<1>3. CASE Kill
  BY <1>1, <1>2, <1>3
  DEF Kill, DiskType, PublicationInv, RecordsAreWhole, SavedStays
<1>4. CASE PowerLoss
  <2>1. PICK d \in [Leaves -> UNION {survives[l] : l \in Leaves}] :
          /\ \A l \in Leaves : d[l] \in survives[l]
          /\ name' = d /\ survives' = [l \in Leaves |-> {d[l]}]
    BY <1>4 DEF PowerLoss
  <2>2. \A l \in Leaves : d[l] \in Contents
    BY <2>1 DEF DiskType
  <2>3. DiskType' /\ PublicationInv'
    BY <1>1, <1>2, <2>1, <2>2 DEF DiskType, PublicationInv
  <2>4. RecordsAreWhole'
    BY <2>1 DEF RecordsAreWhole
  <2>5. SavedStays'
    BY <1>2, <2>1 DEF SavedStays
  <2> QED
    BY <2>3, <2>4, <2>5
<1> QED
  BY <1>3, <1>4

-----------------------------------------------------------------------------
(* While the save manager is at work nothing of the autosaves changes, and *)
(* while an autosave is published no read is on its way.                   *)
LEMMA PublishKeepsMenu ==
  ASSUME MenuInv, UNCHANGED menu, \/ Publish \/ Fail
                                  \/ \E control \in BOOLEAN :
                                       Count(mode, control) \/ Fire(mode, control)
  PROVE  MenuInv'
<1> USE DEF MenuInv, MenuType, ReadInv, LoadsWhatWasChosen, AckInv, menu, Idle
<1>1. CASE Publish \/ Fail
  <2>1. phase = "none" /\ owner = "None"
    BY <1>1 DEF Publish, Fail, Capture, Open, Write, Sync, Close, Rename,
                SyncDirectory, Goes
  <2> QED
    BY <2>1
<1>2. ASSUME NEW control \in BOOLEAN, Count(mode, control) PROVE MenuInv'
  BY <1>2 DEF Count, publication, disk, TimeOf
<1>3. ASSUME NEW control \in BOOLEAN, Fire(mode, control) PROVE MenuInv'
  BY <1>3 DEF Fire, Ready
<1> QED
  BY <1>1, <1>2, <1>3

(* The autosaves' policy disturbs no read.                                 *)
LEMMA MenuKept ==
  ASSUME MenuInv, UNCHANGED <<publication, disk, menu>>
  PROVE  MenuInv'
  BY DEF MenuInv, MenuType, ReadInv, LoadsWhatWasChosen, AckInv, menu, Idle,
         publication, disk, TimeOf

(* Nothing in the menus touches the disk, and each of their steps leaves   *)
(* at most one read on its way, to the file that was chosen.               *)
LEMMA MenusKeepMenu ==
  ASSUME DiskType, MenuInv,
         \/ ShowMainMenu \/ Continue \/ OpenList \/ CloseList \/ Read \/ SuccessMessage
         \/ \E l \in Leaves : ChooseAutosave(l)
         \/ \E s \in Saves : ChooseManual(s) \/ ManualSave(s)
  PROVE  MenuInv' /\ UNCHANGED <<publication, name, survives, saved>>
<1> USE SavesAreNoAutosaves
<1> USE DEF MenuInv, MenuType, ReadInv, LoadsWhatWasChosen, AckInv, Idle,
            autosave, publication, disk, TimeOf
<1>1. CASE ShowMainMenu
  BY <1>1 DEF ShowMainMenu, Cancelled
<1>2. CASE Continue
  BY <1>2 DEF Continue, Start, Begun, ExpectedMode, CanPrepare
<1>3. CASE OpenList
  <2>1. \A l \in Leaves : listed'[l] > 0 => listed'[l] = name[l].at
    BY <1>3 DEF OpenList
  <2> QED
    BY <1>3, <2>1 DEF OpenList
<1>4. CASE CloseList
  BY <1>4 DEF CloseList, NothingChosen
<1>5. CASE Read
  <2>1. /\ phase = "dispatch" /\ owner' = "None"
        /\ UNCHANGED <<autosave, mode, manual, latest, listed, register, slot, wanted>>
    BY <1>5 DEF Read, Redirect
  <2>2. MenuType' /\ ReadInv'
    <3>1. phase' \in {"done", "error"}
      BY <1>5 DEF Read
    <3> QED
      BY <2>1, <3>1
  <2>3. CASE phase' = "done"
    <3>1. CASE owner = "None"
      <4>1. slot \notin Leaves
        OBVIOUS
      <4>2. loaded' = [source |-> "Title", at |-> manual[slot]] /\ ack' = ack
        BY <1>5, <2>3, <3>1, <4>1 DEF Read
      <4> QED
        BY <2>1, <2>2, <2>3, <3>1, <4>2
    <3>2. CASE owner # "None"
      <4>1. loaded' = [source |-> owner, at |-> TimeOf(register)] /\ ack' = ack
        BY <1>5, <2>3, <3>2 DEF Read
      <4> QED
        BY <2>1, <2>2, <2>3, <3>2, <4>1
    <3> QED
      BY <3>1, <3>2
  <2>4. CASE phase' # "done"
    <3>1. ack' = IF owner = "Continue" THEN FALSE ELSE ack
      BY <1>5, <2>4 DEF Read
    <3> QED
      BY <2>1, <2>2, <2>4, <3>1
  <2> QED
    BY <2>1, <2>3, <2>4
<1>6. CASE SuccessMessage
  BY <1>6 DEF SuccessMessage, NothingChosen, Taken
<1>7. ASSUME NEW l \in Leaves, ChooseAutosave(l)
      PROVE  MenuInv' /\ UNCHANGED <<publication, name, survives, saved>>
  BY <1>7 DEF ChooseAutosave, Start, Begun, ExpectedMode, CanPrepare
<1>8. ASSUME NEW s \in Saves, ChooseManual(s)
      PROVE  MenuInv' /\ UNCHANGED <<publication, name, survives, saved>>
  BY <1>8 DEF ChooseManual
<1>9. ASSUME NEW s \in Saves, ManualSave(s)
      PROVE  MenuInv' /\ UNCHANGED <<publication, name, survives, saved>>
  BY <1>9 DEF ManualSave
<1> QED
  BY <1>1, <1>2, <1>3, <1>4, <1>5, <1>6, <1>7, <1>8, <1>9

(* Every step keeps both halves.                                           *)
LEMMA StepInv == IInv /\ [Next]_vars => IInv'
<1> SUFFICES ASSUME IInv, [Next]_vars PROVE IInv'
  OBVIOUS
<1> USE DEF IInv
<1>1. CASE Step
  BY <1>1, PublishKeepsDisk, PublishKeepsMenu DEF Step
<1>2. CASE Poll
  <2>1. PICK control \in BOOLEAN :
          (Count(mode, control) \/ Fire(mode, control)) /\ UNCHANGED menu
    BY <1>2 DEF Poll
  <2>2. DiskInv'
    <3>1. CASE Count(mode, control)
      BY <3>1, DiskKept DEF Count
    <3>2. CASE Fire(mode, control)
      BY <3>2 DEF Fire, DiskInv, DiskType, PublicationInv, RecordsAreWhole,
                  SavedStays, disk
    <3> QED
      BY <2>1, <3>1, <3>2
  <2> QED
    BY <2>1, <2>2, PublishKeepsMenu
<1>3. CASE Deferred
  <2>1. UNCHANGED <<publication, disk, saved, menu>>
    BY <1>3 DEF Deferred, Defer
  <2> QED
    BY <2>1, DiskKept, MenuKept
<1>4. CASE Restart
  <2>1. DiskInv'
    BY <1>4, RestartKeepsDisk DEF Restart
  <2>2. MenuInv'
    BY <1>4 DEF Restart, NothingChosen, MenuInv, MenuType, ReadInv,
                LoadsWhatWasChosen, AckInv
  <2> QED
    BY <2>1, <2>2
<1>5. CASE UNCHANGED menu /\ (ExtractionPad \/ CooledDown)
  <2>1. UNCHANGED <<publication, disk, saved, menu>>
    BY <1>5 DEF ExtractionPad, CooledDown
  <2> QED
    BY <2>1, DiskKept, MenuKept
<1>6. CASE \/ ShowMainMenu \/ Continue \/ OpenList \/ CloseList \/ Read \/ SuccessMessage
           \/ \E l \in Leaves : ChooseAutosave(l)
           \/ \E s \in Saves : ChooseManual(s) \/ ManualSave(s)
  <2>1. MenuInv' /\ UNCHANGED <<publication, name, survives, saved>>
    BY <1>6, MenusKeepMenu DEF DiskInv
  <2>2. clock' = clock \/ (pc = "none" /\ clock' = clock + 1 /\ clock < MaxTime)
    BY <1>6 DEF ShowMainMenu, Continue, OpenList, CloseList, Read, SuccessMessage,
                ChooseAutosave, ChooseManual, ManualSave, Idle, autosave, disk
  <2>3. DiskInv'
    BY <2>1, <2>2, AutosaveBounds
    DEF DiskInv, DiskType, PublicationInv, RecordsAreWhole, SavedStays, publication
  <2> QED
    BY <2>1, <2>3
<1>7. CASE UNCHANGED vars
  <2>1. UNCHANGED <<publication, disk, saved, menu>>
    BY <1>7 DEF vars, autosave
  <2> QED
    BY <2>1, DiskKept, MenuKept
<1> QED
  BY <1>1, <1>2, <1>3, <1>4, <1>5, <1>6, <1>7 DEF Next

-----------------------------------------------------------------------------
(* The inductive invariant of the disk and the menus always holds.         *)
THEOREM Invariant == Spec => []IInv
  BY InitInv, StepInv, PTL DEF Spec

(* Whatever step of a publication fails, is killed or loses power, every   *)
(* name holds a whole record.                                              *)
THEOREM NoTornRecord == Spec => []RecordsAreWhole
<1>1. IInv => RecordsAreWhole
  BY DEF IInv, DiskInv
<1> QED
  BY <1>1, Invariant, PTL

(* What autosave_runtime reported as saved survives all later failures.    *)
THEOREM SavedSurvives == Spec => []SavedStays
<1>1. IInv => SavedStays
  BY DEF IInv, DiskInv
<1> QED
  BY <1>1, Invariant, PTL

(* A load that succeeds reads the record the player chose.                 *)
THEOREM ExactLoad == Spec => []LoadsWhatWasChosen
<1>1. IInv => LoadsWhatWasChosen
  BY DEF IInv, MenuInv
<1> QED
  BY <1>1, Invariant, PTL

(* Only a load that Continue began is acknowledged by itself.              *)
THEOREM AckForContinueOnly == Spec => []AckIsContinues
<1>1. IInv => AckIsContinues
  BY DEF IInv, MenuInv, MenuType, ReadInv, AckInv, AckIsContinues
<1> QED
  BY <1>1, Invariant, PTL

(* A temporary file exists only between its open and its rename, so that a *)
(* publication that fails anywhere leaves none behind; and none begins     *)
(* before the last has ended.                                              *)
TempInv ==
  /\ temp => pc \in {"write", "sync", "close", "rename"}
  /\ pc # "none" => active

THEOREM NothingIsLeftBehind == Spec => []NoLitter
<1>1. Init => TempInv
  BY DEF Init, AutosaveInit, TempInv
<1>2. TempInv /\ [Next]_vars => TempInv'
  <2> SUFFICES ASSUME TempInv, [Next]_vars PROVE TempInv'
    OBVIOUS
  <2>1. CASE Publish
    BY <2>1 DEF Publish, Capture, Open, Write, Sync, Close, Rename, SyncDirectory, Goes,
                TempInv, policy
  <2>2. CASE Fail \/ Kill \/ PowerLoss
    BY <2>2 DEF Fail, Unlinked, Kill, PowerLoss, Restarted, TempInv
  <2>3. ASSUME NEW control \in BOOLEAN, Fire(mode, control) PROVE TempInv'
    BY <2>3 DEF Fire, TempInv
  <2>4. CASE UNCHANGED <<pc, temp, active>>
    BY <2>4 DEF TempInv
  <2>5. CASE ExtractionPad \/ CooledDown \/ Deferred \/ UNCHANGED vars
    BY <2>4, <2>5 DEF ExtractionPad, CooledDown, Deferred, Defer, vars, autosave, policy,
                      publication
  <2>6. ASSUME NEW control \in BOOLEAN, Count(mode, control) PROVE TempInv'
    BY <2>4, <2>6 DEF Count, publication
  <2>7. CASE \/ ShowMainMenu \/ Continue \/ OpenList \/ CloseList \/ Read \/ SuccessMessage
             \/ \E l \in Leaves : ChooseAutosave(l)
             \/ \E s \in Saves : ChooseManual(s) \/ ManualSave(s)
    BY <2>4, <2>7 DEF ShowMainMenu, Continue, OpenList, CloseList, Read, SuccessMessage,
                      ChooseAutosave, ChooseManual, ManualSave, autosave, policy,
                      publication, Cancelled
  <2> QED
    BY <2>1, <2>2, <2>3, <2>5, <2>6, <2>7 DEF Next, Step, Poll, Restart
<1>3. TempInv => NoLitter
  BY DEF TempInv, NoLitter
<1> QED
  BY <1>1, <1>2, <1>3, PTL DEF Spec
=============================================================================
