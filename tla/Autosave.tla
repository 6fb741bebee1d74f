------------------------------ MODULE Autosave ------------------------------
(***************************************************************************)
(* Checkpoints and their way to the disk: src/src/save/autosave_policy.cpp,*)
(* src/src/native/autosave_runtime.cpp, src/src/save/autosave_storage.cpp  *)
(* (the POSIX half) and src/src/save/save_catalog.cpp.                     *)
(*                                                                         *)
(* A hero on an extraction pad schedules a checkpoint.  A poll of the main *)
(* loop takes it when the player has been in control for a while, captures *)
(* the campaign (guest code runs meanwhile), and publishes it: a temporary *)
(* file is written, synced, closed and renamed over an autosave, and the   *)
(* directory is synced.  Each of these can fail, the process can be killed *)
(* and the power can go between any two of them.                           *)
(*                                                                         *)
(* `name' is the directory as readers see it; `survives' is what a power   *)
(* loss may make of each name.  A record is its time and whether all of it *)
(* is there.  Times are distinct: checkpoints are a cooldown apart.        *)
(*                                                                         *)
(* Name_Mistake is Name with that mistake; no specification uses it.       *)
(***************************************************************************)
EXTENDS Naturals, FiniteSets, FiniteSetsExt

CONSTANTS
  Slots,           \* kAutosaveSlots: autosave0 .. autosave4
  IdlePolls,       \* kAutosaveIdlePolls
  MaxTime          \* bound on the records written

ASSUME ThereIsASlot == Slots \in Nat \ {0}
ASSUME AutosaveBounds == IdlePolls \in Nat \ {0} /\ MaxTime \in Nat

Leaves == 0 .. Slots - 1
Contents == [at : 0 .. MaxTime, whole : BOOLEAN]
Absent == [at |-> 0, whole |-> TRUE]

VARIABLES
  pending, active,  \* has_pending, has_active
  idle,             \* idle_polls
  cooling,          \* now - last_pad_s < kAutosaveCooldownSeconds
  pc,               \* the next step of the publication, or "none"
  leaf,             \* g_last_leaf
  temp,             \* is there a temporary file of this process?
  written, synced,  \* parts of it that were written; are they on the disk?
  name, survives,   \* the directory
  clock,            \* time of the last write of a save
  saved             \* history: the last record reported as saved

policy  == <<pending, active, idle, cooling>>
publication == <<pc, leaf, temp, written, synced>>
disk    == <<name, survives, clock>>
autosave == <<policy, publication, disk, saved>>

Present == {l \in Leaves : name[l] # Absent}

-----------------------------------------------------------------------------
(* autosave_policy_extraction_pad: at most one per cooldown.  A checkpoint *)
(* that still waits is replaced.                                           *)
ExtractionPad ==
  /\ ~cooling
  /\ pending' = TRUE /\ idle' = 0 /\ cooling' = TRUE
  /\ UNCHANGED <<active, publication, disk, saved>>

CooledDown ==
  /\ cooling /\ cooling' = FALSE
  /\ UNCHANGED <<pending, active, idle, publication, disk, saved>>

(* autosave_policy_menu_show.                                              *)
Cancelled ==
  /\ pending' = FALSE
  /\ idle' = IF pending THEN 0 ELSE idle
  /\ UNCHANGED <<active, cooling>>

(* autosave_policy_poll, up to Fire.  `ready': the save manager is idle and*)
(* the player is in control.                                               *)
Ready_AnyMode(managerMode, control) == control
Ready(managerMode, control) == managerMode = 0 /\ control

Counted_Saturates == IF idle + 1 < IdlePolls THEN idle + 1 ELSE idle
Counted == idle + 1

Defer(managerMode, control) ==
  /\ pending /\ ~active
  /\ ~Ready(managerMode, control)
  /\ idle' = 0
  /\ UNCHANGED <<pending, active, cooling, publication, disk, saved>>

Count(managerMode, control) ==
  /\ pending /\ ~active
  /\ Ready(managerMode, control)
  /\ Counted < IdlePolls
  /\ idle' = Counted
  /\ UNCHANGED <<pending, active, cooling, publication, disk, saved>>

Fire(managerMode, control) ==
  /\ pending /\ ~active
  /\ Ready(managerMode, control)
  /\ Counted >= IdlePolls
  /\ idle' = Counted
  /\ active' = TRUE /\ pending' = FALSE
  /\ pc' = "capture"
  /\ UNCHANGED <<cooling, leaf, temp, written, synced, disk, saved>>

-----------------------------------------------------------------------------
(* save_catalog_next_autosave: the first free slot, else the oldest.       *)
NextAutosave_Count == Cardinality(Present)
NextAutosave ==
  IF Present # Leaves THEN Min(Leaves \ Present)
  ELSE CHOOSE l \in Leaves : \A k \in Leaves : name[l].at <= name[k].at

(* campaign_snapshot_capture and the choice of a leaf.                     *)
Capture ==
  /\ pc = "capture"
  /\ pc' = "open" /\ leaf' = NextAutosave
  /\ UNCHANGED <<policy, temp, written, synced, disk, saved>>

(* The step from pc = here to pc = there.                                  *)
Goes(here, there) == pc = here /\ pc' = there

Open ==
  /\ Goes("open", "write")
  /\ temp' = TRUE /\ written' = 0 /\ synced' = FALSE
  /\ UNCHANGED <<policy, leaf, disk, saved>>

(* write_record: header, length and payload, then fsync.                   *)
Write ==
  /\ pc = "write" /\ clock < MaxTime
  /\ written' = written + 1
  /\ clock' = IF written = 2 THEN clock + 1 ELSE clock
  /\ pc' = IF written = 2 THEN "sync" ELSE "write"
  /\ UNCHANGED <<policy, leaf, temp, synced, name, survives, saved>>

Synced_Forgotten == synced
Synced == TRUE

Sync ==
  /\ Goes("sync", "close")
  /\ synced' = Synced
  /\ UNCHANGED <<policy, leaf, temp, written, disk, saved>>

Close ==
  /\ Goes("close", "rename")
  /\ UNCHANGED <<policy, leaf, temp, written, synced, disk, saved>>

(* host_replace.  Until the directory is synced a power loss may leave the *)
(* old file or the new one, and of the new one what was synced.            *)
Record == [at |-> clock, whole |-> written = 3]
AfterPowerLoss == {Record} \cup
  (IF synced THEN {} ELSE {[at |-> clock, whole |-> FALSE]})

Rename ==
  /\ Goes("rename", "syncdir")
  /\ temp' = FALSE
  /\ name' = [name EXCEPT ![leaf] = Record]
  /\ survives' = [survives EXCEPT ![leaf] = @ \cup AfterPowerLoss]
  /\ UNCHANGED <<policy, leaf, written, synced, clock, saved>>

(* The locals of the publication are gone.                                 *)
Finished == leaf' = 0 /\ written' = 0 /\ synced' = FALSE

(* host_sync_directory: every name of the directory is as readers see it.  *)
Kept_Forgotten == survives
Kept == [l \in Leaves |-> {name[l]}]

SyncDirectory ==
  /\ pc = "syncdir" /\ pc' = "none"
  /\ survives' = Kept
  /\ active' = FALSE
  /\ saved' = clock
  /\ Finished
  /\ UNCHANGED <<pending, idle, cooling, temp, name, clock>>

(* A step fails: the temporary goes, unless it has been renamed, and       *)
(* autosave_policy_finish takes the failure.                               *)
Unlinked_Forgotten == temp
Unlinked == FALSE

Fail ==
  /\ pc \notin {"none"}
  /\ pc' = "none" /\ temp' = Unlinked
  /\ active' = FALSE
  /\ Finished
  /\ UNCHANGED <<pending, idle, cooling, disk, saved>>

-----------------------------------------------------------------------------
(* The process is killed and started again; after a power loss the         *)
(* directory is any of those that survive.                                 *)
Restarted ==
  /\ pending' = FALSE /\ active' = FALSE /\ idle' = 0 /\ cooling' = FALSE
  /\ pc' = "none" /\ temp' = FALSE
  /\ Finished
  /\ UNCHANGED <<clock, saved>>

Kill == Restarted /\ UNCHANGED <<name, survives>>

PowerLoss ==
  /\ Restarted
  /\ \E d \in [Leaves -> UNION {survives[l] : l \in Leaves}] :
       /\ \A l \in Leaves : d[l] \in survives[l]
       /\ name' = d /\ survives' = [l \in Leaves |-> {d[l]}]

-----------------------------------------------------------------------------
AutosaveInit ==
  /\ pending = FALSE /\ active = FALSE /\ idle = 0 /\ cooling = FALSE
  /\ pc = "none" /\ leaf = 0 /\ temp = FALSE
  /\ written = 0 /\ synced = FALSE
  /\ name = [l \in Leaves |-> Absent]
  /\ survives = [l \in Leaves |-> {Absent}]
  /\ clock = 0 /\ saved = 0

Publish == Capture \/ Open \/ Write \/ Sync \/ Close \/ Rename \/ SyncDirectory
=============================================================================
