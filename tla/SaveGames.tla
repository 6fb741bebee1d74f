----------------------------- MODULE SaveGames ------------------------------
(***************************************************************************)
(* Loading a save exactly as chosen: src/src/native/exact_save_load.cpp,   *)
(* src/src/native/continue_runtime.cpp with its transaction in             *)
(* src/src/save/continue_policy.cpp, and the autosave rows of              *)
(* src/src/native/load_game_menu_runtime.cpp, over the saves that Autosave *)
(* writes.                                                                 *)
(*                                                                         *)
(* The title's own save manager is external: `mode' and `phase' say what   *)
(* the code above reads of it.  It dispatches a read some time after a     *)
(* file was chosen; an override then swaps the file name for the one that  *)
(* Continue or the menu asked for.                                         *)
(***************************************************************************)
EXTENDS Autosave

CONSTANTS
  Saves,     \* the title's own saveslot files
  NoLeaf     \* no save was found

ASSUME SavesAreNoAutosaves == Saves \cap Leaves = {} /\ Saves \subseteq Nat
ASSUME NoLeafIsNone == NoLeaf \notin Leaves \cup Saves

VARIABLES
  mode,      \* MANAGER_MODE: 0 idle, 3 load
  phase,     \* external: "none", "list", "dispatch", "done", "error"
  manual,    \* external: the times of the title's own saves
  latest,    \* g_latest_leaf, or NoLeaf
  listed,    \* history: the times of the autosaves the menu listed
  owner,     \* g_owner
  register,  \* g_leaf_guest
  ack,       \* auto_ack_pending
  slot,      \* external: the saveslot that the title would read
  wanted,    \* history: [source, at] of the last file chosen
  loaded     \* history: the same, of the last read that succeeded

Files == Leaves \cup Saves
menu == <<mode, phase, manual, latest, listed, owner, register, ack, slot,
          wanted, loaded>>
vars == <<autosave, menu>>

TimeOf(f) == IF f \in Leaves THEN name[f].at ELSE manual[f]
Whole(f) == f \in Leaves => name[f].whole
Existing == {f \in Files : TimeOf(f) > 0}

(* save_catalog_latest: the newest save by its time, of either kind.       *)
Latest ==
  IF Existing = {} THEN NoLeaf
  ELSE CHOOSE f \in Existing : \A g \in Existing : TimeOf(f) >= TimeOf(g)

Idle == pc = "none"

-----------------------------------------------------------------------------
(* CMenuMain::Show (x2_override_005c9260): whatever Continue was waiting   *)
(* for is given up, a checkpoint that waits is cancelled, the newest save  *)
(* is looked up.                                                           *)
ShowMainMenu ==
  /\ Idle /\ phase = "none"
  /\ ack' = FALSE
  /\ Cancelled
  /\ latest' = Latest
  /\ UNCHANGED <<publication, disk, saved, mode, phase, manual, listed, owner,
                 register, slot, wanted, loaded>>

(* exact_save_load_start.  prepare_leaf refuses while a read is owned; the *)
(* manager must be in the mode that the owner expects; a header that does  *)
(* not read back, or a manager that refuses, puts everything back.         *)
CanPrepare == owner = "None"

ExpectedMode(who) == IF who = "Continue" THEN 0 ELSE 3

Start(f, who) ==
  /\ CanPrepare /\ mode = ExpectedMode(who)
  /\ register' = f
  /\ \/ /\ Whole(f) /\ TimeOf(f) > 0
        /\ mode' = 3 /\ phase' = "dispatch" /\ owner' = who
     \/ UNCHANGED <<mode, phase, owner>>

Begun == owner' # owner

(* start_latest_load, from the Continue row.                               *)
Continue ==
  /\ Idle /\ phase = "none" /\ latest # NoLeaf
  /\ Start(latest, "Continue")
  /\ ack' = IF Begun THEN TRUE ELSE ack
  /\ wanted' = IF Begun THEN [source |-> "Continue", at |-> TimeOf(latest)]
                        ELSE wanted
  /\ UNCHANGED <<autosave, manual, latest, listed, slot, loaded>>

(* The Load Game list: its header reads use the same register, and are     *)
(* refused while a read is owned (read_autosaves).                         *)
OpenList ==
  /\ Idle /\ phase = "none" /\ mode = 0
  /\ mode' = 3 /\ phase' = "list"
  /\ listed' = [l \in Leaves |-> IF CanPrepare /\ Whole(l) THEN name[l].at ELSE 0]
  /\ register' = IF CanPrepare /\ Present # {} THEN Min(Present) ELSE register
  /\ UNCHANGED <<autosave, manual, latest, owner, ack, slot, wanted, loaded>>

ChooseAutosave(l) ==
  /\ phase = "list" /\ listed[l] > 0
  /\ Start(l, "Menu")
  /\ wanted' = IF Begun THEN [source |-> "Menu", at |-> listed[l]] ELSE wanted
  /\ UNCHANGED <<autosave, manual, latest, listed, ack, slot, loaded>>

(* A saveslot is chosen: the title's own path.                             *)
ChooseManual(s) ==
  /\ phase = "list" /\ manual[s] > 0
  /\ phase' = "dispatch" /\ slot' = s
  /\ wanted' = [source |-> "Title", at |-> manual[s]]
  /\ UNCHANGED <<autosave, mode, manual, latest, listed, owner, register, ack,
                 loaded>>

NothingChosen ==
  /\ listed' = [l \in Leaves |-> 0]
  /\ wanted' = [source |-> "None", at |-> 0] /\ loaded' = wanted'

CloseList ==
  /\ phase \in {"list", "error"}
  /\ phase' = "none" /\ mode' = 0 /\ NothingChosen
  /\ UNCHANGED <<autosave, manual, latest, owner, register, ack, slot>>

(* redirect_pending_load: the owned read goes to the register's file, once.*)
Redirect_Forgets == owner
Redirect == "None"

Read ==
  LET f == IF owner = "None" THEN slot ELSE register IN
  /\ phase = "dispatch"
  /\ owner' = Redirect
  /\ \/ /\ Whole(f) /\ phase' = "done"
        /\ loaded' = [source |-> IF owner = "None" THEN "Title" ELSE owner,
                      at |-> TimeOf(f)]
        /\ ack' = ack
     \/ /\ phase' = "error" /\ loaded' = loaded
        /\ ack' = IF owner = "Continue" THEN FALSE ELSE ack
  /\ UNCHANGED <<autosave, mode, manual, latest, listed, register, slot, wanted>>

(* The title's success message (x2_override_004b1280), of which Continue's *)
(* is answered at once, and any takes the acknowledgement away.            *)
Taken_Keeps == ack
Taken == FALSE

SuccessMessage ==
  /\ phase = "done"
  /\ ack' = Taken
  /\ phase' = "none" /\ mode' = 0 /\ NothingChosen
  /\ UNCHANGED <<autosave, manual, latest, owner, register, slot>>

(* The title writes one of its own saves; its message is not of mode 3.    *)
ManualSave(s) ==
  /\ Idle /\ phase = "none" /\ mode = 0 /\ clock < MaxTime
  /\ clock' = clock + 1
  /\ manual' = [manual EXCEPT ![s] = clock + 1]
  /\ ack' = FALSE
  /\ UNCHANGED <<policy, publication, name, survives, saved, mode, phase, latest,
                 listed, owner, register, slot, wanted, loaded>>

-----------------------------------------------------------------------------
MenuInit ==
  /\ mode = 0 /\ phase = "none" /\ manual = [s \in Saves |-> 0]
  /\ latest = NoLeaf /\ listed = [l \in Leaves |-> 0]
  /\ owner = "None" /\ register = 0 /\ ack = FALSE /\ slot \in Saves
  /\ wanted = [source |-> "None", at |-> 0] /\ loaded = wanted

Init == AutosaveInit /\ MenuInit

(* autosave_runtime_poll, with the manager's mode as it is.                *)
Deferred == \E control \in BOOLEAN : Defer(mode, control) /\ UNCHANGED menu
Poll == \E control \in BOOLEAN :
          (Count(mode, control) \/ Fire(mode, control)) /\ UNCHANGED menu

(* A restart empties the menu's variables too; the files are what they are.*)
Restart ==
  /\ Kill \/ PowerLoss
  /\ mode' = 0 /\ phase' = "none" /\ latest' = NoLeaf /\ NothingChosen
  /\ owner' = "None" /\ ack' = FALSE
  /\ UNCHANGED <<manual, register, slot>>

Step == UNCHANGED menu /\ (Publish \/ Fail)

Next ==
  \/ Step \/ Poll \/ Deferred \/ Restart
  \/ UNCHANGED menu /\ (ExtractionPad \/ CooledDown)
  \/ ShowMainMenu \/ Continue \/ OpenList \/ CloseList \/ Read \/ SuccessMessage
  \/ \E l \in Leaves : ChooseAutosave(l)
  \/ \E s \in Saves : ChooseManual(s) \/ ManualSave(s)

Spec == Init /\ [][Next]_vars

(* The main loop polls, the player in control, and a publication goes on.  *)
FairSpec == Spec /\ WF_vars(Poll) /\ WF_vars(Step)

-----------------------------------------------------------------------------
(* The values of the variables.                                            *)
TypeOK ==
  /\ {pending, active, cooling, temp, synced, ack} \subseteq BOOLEAN
  /\ idle \in 0 .. IdlePolls
  /\ pc \in {"none", "capture", "open", "write", "sync", "close", "rename",
             "syncdir"}
  /\ leaf \in Leaves /\ written \in 0 .. 3 /\ clock \in 0 .. MaxTime
  /\ name \in [Leaves -> Contents]
  /\ survives \in [Leaves -> SUBSET Contents]
  /\ mode \in {0, 3} /\ latest \in Files \cup {NoLeaf}
  /\ owner \in {"None", "Continue", "Menu"}

(* Crash safety of autosave_storage.cpp: whatever step fails, is killed or *)
(* loses power, every name holds a whole record, the old or the new.       *)
RecordsAreWhole ==
  \A l \in Leaves : name[l].whole /\ \A c \in survives[l] : c.whole

(* A checkpoint reported as saved stays, whatever fails or crashes later:  *)
(* on every disk that a power loss can leave some autosave is whole and at *)
(* least as recent.                                                        *)
SavedStays ==
  saved > 0 => \E l \in Leaves : \A c \in survives[l] : c.whole /\ c.at >= saved

(* A publication that fails at any step leaves no temporary file.          *)
NoLitter == pc = "none" => ~temp

(* A read that succeeds loads the record that was chosen: no autosave      *)
(* replaces a listed file before it is read, no second choice overwrites   *)
(* the name of the first, and the title's own loads are not redirected.    *)
LoadsWhatWasChosen == phase = "done" => loaded = wanted

(* The automatic answer to "load successful" goes to a load that Continue  *)
(* began, never to one that the player began by hand.                      *)
AckIsContinues == ack /\ phase = "done" => loaded.source = "Continue"

(* A checkpoint does not wait for ever once the save manager stays idle,   *)
(* the player in control, and off the pads.                                *)
CheckpointResolves ==
  <>[](mode = 0) /\ <>[][~Deferred /\ ~ExtractionPad]_vars
    => (pending ~> ~pending)
=============================================================================
