----------------------------- MODULE PlayerPads -----------------------------
(***************************************************************************)
(* Gamepads that come and go under a running game                          *)
(* (src/src/native/dinput_pad.cpp, dinput8.cpp, dinput8_hotplug.cpp,       *)
(* dinput8_controller_slots.cpp, src/src/input/controller_hotplug.cpp),    *)
(* the players they are published for (src/src/input/player_input.cpp) and *)
(* the ways to hand them out (src/src/ui/settings_document.cpp,            *)
(* controller_assignment_rows.cpp, src/src/native/control.cpp).            *)
(*                                                                         *)
(* Every time a unit is plugged in it gets a joystick id, and with it an   *)
(* instance GUID, that was never used before; Ids stands for both.         *)
(*                                                                         *)
(* The title's table of controllers is external: `table' and `attached'    *)
(* are what the code reads of it, and Enumerates what its routine does to  *)
(* them.  A save that is loaded brings a table of its own, with any of the *)
(* live pads in it: those of this run, if it was written in this run.      *)
(* `spoilt' is history that the properties need and no step reads.         *)
(*                                                                         *)
(* Name_Mistake is Name with that mistake; no specification uses it.       *)
(***************************************************************************)
EXTENDS DeviceSeats, FiniteSets

CONSTANTS
  Units,         \* the physical pads; those in Lasting have an identity
  MaxPlugs,      \* bound on joystick ids
  MaxTurns,      \* bound on what happens between the code's own steps
  Slots,         \* DINPUT_PAD_MAX
  TableSize      \* RETAIL_CONTROLLER_SLOTS

ASSUME LastingAreUnits == Lasting \subseteq Units
ASSUME BoundsAreNat ==
  MaxTurns \in Nat /\ {MaxPlugs, Slots, TableSize} \subseteq Nat \ {0} /\ MaxPlugs <= TableSize
ASSUME NoneIsNoPad == None \notin Nat \cup Units

Ids == 1 .. MaxPlugs
Foreign == 0     \* in a table: the GUID of a pad of some other run
Inventory == 1 .. Slots
Table == 1 .. TableSize

VARIABLES
  unit,      \* unit[i]: the unit that got id i, None if i is not yet given
  plugged,   \* the ids that SDL lists
  pad,       \* g_pad
  admitted,  \* g_hotplug: the present generation needs no admission
  known,     \* g_pad_ref and g_pad_enum
  broken,    \* was_broken
  table, attached,   \* external: GUIDs and attached flags of the title
  spoilt,    \* history: a table was loaded that the pump does not repair
  own, ses,  \* who owns what: see DeviceSeats
  pub,       \* g_last_pad, g_last_controller_slot, g_last_keyboard
  turns      \* counts to MaxTurns

world == <<unit, plugged>>
host == <<pad, admitted, known, broken>>
title == <<table, attached, spoilt>>
seating == <<own, ses>>
vars == <<world, host, title, seating, pub, turns>>

Turn == turns < MaxTurns /\ turns' = turns + 1

Live(pads) == {pads[s] : s \in Inventory} \ {None}

-----------------------------------------------------------------------------
(* dinput_pad_refresh: opens what is new, then closes what is gone, so a   *)
(* pad that finds no slot free waits for the next time.  SDL cannot open   *)
(* those in `dead'.                                                        *)
Rank(x, S) == Cardinality({y \in S : y < x})

Opened(pads, dead) ==
  LET fresh == (plugged \ Live(pads)) \ dead
      free == {s \in Inventory : pads[s] = None}
  IN [s \in Inventory |->
        IF s \in free /\ \E i \in fresh : Rank(i, fresh) = Rank(s, free)
        THEN CHOOSE i \in fresh : Rank(i, fresh) = Rank(s, free)
        ELSE pads[s]]

Refreshed(pads, dead) ==
  LET opened == Opened(pads, dead) IN
  [s \in Inventory |-> IF opened[s] \in plugged THEN opened[s] ELSE None]

-----------------------------------------------------------------------------
(* resolve_pads: the pad of this run wins, though it be unplugged, over    *)
(* the one that is reserved; no pad is claimed twice.                      *)
PadOf(pads, id) == {s \in Inventory : id # None /\ pads[s] = id}

Reserved(pads, seat) ==
  {s \in Inventory : /\ pads[s] # None
                     /\ unit[pads[s]] \in Held(own, seat) \cap Lasting}

Resolved_Twice(pads, seat) ==
  IF ses[seat] # None THEN PadOf(pads, ses[seat]) ELSE Reserved(pads, seat)
Resolved(pads, seat) ==
  IF ses[seat] # None THEN PadOf(pads, ses[seat])
  ELSE {s \in Reserved(pads, seat) : pads[s] \notin Seated(ses)}

(* dinput8_controller_slot_for_host_pad.                                   *)
SlotFor(pads, s) == {t \in attached : table[t] = pads[s]}

Keyboard(seat) ==
  IF seat > 0 /\ ses[seat] # None THEN {} ELSE Held(own, seat) \cap Keyboards

Ownership(pads) ==
  [seat \in Seats |->
     [pad |-> Resolved(pads, seat),
      slot |-> UNION {SlotFor(pads, s) : s \in Resolved(pads, seat)},
      kb |-> Keyboard(seat)]]

(* player_input_sync publishes what changed.                               *)
Changed_PadsOnly(now) ==
  \E s \in Seats : now[s].pad # pub[s].pad \/ now[s].kb # pub[s].kb
Changed(now) == now # pub
Published(now) == IF Changed(now) THEN now ELSE pub

-----------------------------------------------------------------------------
(* The title's enumeration: what it is told of keeps its entry or gets one *)
(* that nothing live has, and is attached.                                 *)
Enumerates(pads) ==
  \E at \in [Live(pads) -> Table] :
    /\ \A i, j \in Live(pads) : at[i] = at[j] => i = j
    /\ \A i \in Live(pads) :
         (\E t \in Table : table[t] = i) => table[at[i]] = i
    /\ table' = [t \in Table |->
                   IF \E i \in Live(pads) : at[i] = t
                   THEN CHOOSE i \in Live(pads) : at[i] = t ELSE table[t]]
    /\ attached' = {at[i] : i \in Live(pads)}
    /\ spoilt' = FALSE

(* table_matches_live_inventory.                                           *)
Matches(pads) == Live(pads) = {} \/ \E t \in attached : table[t] \in Live(pads)

(* dinput8_hotplug_pump, at the first input call of a frame: refresh, the  *)
(* sync with a refresh of its own, check_controller_table, admission by    *)
(* the title's routine, m_EnumDevices with a third refresh in it.          *)
Checked_Unseen(pads) == admitted
Checked(pads) == admitted /\ ~(known /\ ~Matches(pads) /\ ~broken)

PumpWith(dead) ==
  LET one == Refreshed(pad, dead)
      two == Refreshed(one, dead)
      three == Refreshed(two, dead)
      current == one = pad /\ two = pad /\ Checked(two)
  IN
  /\ pub' = Published(Ownership(two))
  /\ broken' = IF known THEN ~Matches(two) ELSE broken
  /\ admitted' = TRUE
  /\ IF current \/ ~known THEN pad' = two /\ UNCHANGED title
     ELSE pad' = three /\ Enumerates(three)
  /\ UNCHANGED <<world, known, seating>>

Pump == \E dead \in SUBSET (plugged \ Live(pad)) : PumpWith(dead)

(* Of the steps below, the pump's and no other.                            *)
Pumped == admitted' /\ UNCHANGED <<world, known, seating, turns>>

(* The title's own enumeration, when it starts.                            *)
GameEnumerates ==
  \E dead \in SUBSET (plugged \ Live(pad)) :
    /\ ~known /\ known' = TRUE
    /\ pad' = Refreshed(pad, dead)
    /\ admitted' = TRUE
    /\ Enumerates(pad')
    /\ UNCHANGED <<world, broken, seating, pub>>

(* settings_document_update: the settings screen looks for pads.           *)
LooksForPads ==
  \E dead \in SUBSET (plugged \ Live(pad)) :
    /\ Refreshed(pad, dead) # pad
    /\ pad' = Refreshed(pad, dead)
    /\ admitted' = FALSE
    /\ UNCHANGED <<world, known, broken, title, seating, pub>>

(* A save is loaded, and with it the table of the run that wrote it.  The  *)
(* pump takes a table for a live one that names some of the pads, and does *)
(* not look again at one that names none while was_broken is set.          *)
LoadsSave ==
  \E names \in SUBSET Live(pad) :
    /\ known
    /\ spoilt' = (names # Live(pad) /\ (names = {} => broken))
    /\ \E at \in [names -> Table] :
         /\ \A i, j \in names : at[i] = at[j] => i = j
         /\ table' = [t \in Table |->
                        IF \E i \in names : at[i] = t
                        THEN CHOOSE i \in names : at[i] = t ELSE Foreign]
    /\ attached' = Table
    /\ UNCHANGED <<world, host, seating, pub>>

Plug(u) ==
  LET i == Cardinality({j \in Ids : unit[j] # None}) + 1 IN
  /\ i \in Ids /\ \A j \in plugged : unit[j] # u
  /\ unit' = [unit EXCEPT ![i] = u]
  /\ plugged' = plugged \cup {i}
  /\ UNCHANGED <<host, title, seating, pub>>

Unplug(i) ==
  /\ i \in plugged /\ plugged' = plugged \ {i}
  /\ UNCHANGED <<unit, host, title, seating, pub>>

-----------------------------------------------------------------------------
(* The settings screen's table of devices.                                 *)
AssignKeyboard(k, seat) ==
  LET moved == Moved(own, k, seat) IN
  /\ Valid(moved)
  /\ own' = moved
  /\ ses' = IF seat \in Seats \ {0} THEN MadeRoom(ses, seat, own[k]) ELSE ses
  /\ UNCHANGED <<world, host, title, pub>>

(* A row of a lasting identity that has no assignment of this run.  Its    *)
(* owner is not shown, and not made room in, under a pad of this run.      *)
RowOwner(u) ==
  IF own[u] # NoSeat /\ ses[own[u]] # None THEN NoSeat ELSE own[u]

AssignLasting(u, seat) ==
  LET moved == Moved(own, u, seat) IN
  /\ \A id \in Seated(ses) : unit[id] # u
  /\ own[u] # NoSeat \/ \E id \in Live(pad) : unit[id] = u
  /\ Valid(moved)
  /\ own' = moved
  /\ ses' = IF seat \in Seats THEN MadeRoom(ses, seat, RowOwner(u)) ELSE ses
  /\ UNCHANGED <<world, host, title, pub>>

(* A connected pad gets a seat for this run: by its row, or by a command.  *)
AssignSession(id, seat) ==
  /\ id \in Live(pad)
  /\ ses' = Given(ses, id, seat)
  /\ UNCHANGED <<world, host, title, own, pub>>

ClearSession(seat) ==
  /\ ses[seat] # None
  /\ ses' = [ses EXCEPT ![seat] = None]
  /\ UNCHANGED <<world, host, title, own, pub>>

-----------------------------------------------------------------------------
Init ==
  /\ unit = [i \in Ids |-> None] /\ plugged = {}
  /\ pad = [s \in Inventory |-> None]
  /\ admitted = FALSE /\ known = FALSE /\ broken = FALSE
  /\ table = [t \in Table |-> None] /\ attached = {} /\ spoilt = FALSE
  /\ \E k \in Keyboards :
       own = [d \in Devices |-> IF d = k THEN 0 ELSE NoSeat]
  /\ ses = [s \in Seats |-> None]
  /\ pub = [s \in Seats |-> [pad |-> {}, slot |-> {}, kb |-> {}]]
  /\ turns = 0

Assigns ==
  \E seat \in Seats \cup {NoSeat} :
    \/ \E k \in Keyboards : AssignKeyboard(k, seat)
    \/ \E u \in Lasting : AssignLasting(u, seat)
    \/ /\ seat \in Seats
       /\ ClearSession(seat) \/ \E id \in Ids : AssignSession(id, seat)

Next ==
  \/ (Pump \/ GameEnumerates \/ LooksForPads) /\ UNCHANGED turns
  \/ (Assigns \/ LoadsSave) /\ Turn
  \/ (\E u \in Units : Plug(u)) /\ Turn
  \/ (\E i \in Ids : Unplug(i)) /\ Turn

Spec == Init /\ [][Next]_vars

-----------------------------------------------------------------------------
(* Whatever is reserved and displaced, no two devices of a kind, and for   *)
(* the players after the first no two devices, are reserved for one seat.  *)
OneReservation ==
  \A d, e \in Devices :
    d # e /\ own[d] = own[e] /\ own[d] # NoSeat => ~Clash(d, e, own[d])

(* "Each physical pad is claimed by at most one player" (player_input.cpp),*)
(* by the assignments of this run and the reservations together, and the   *)
(* players after the first play with one device.                           *)
OneOwner ==
  \A s \in Seats :
    /\ Cardinality(pub[s].pad) <= 1 /\ Cardinality(pub[s].slot) <= 1
    /\ \A q \in Seats \ {s} : pub[s].pad \cap pub[q].pad = {}
    /\ s > 0 => pub[s].pad = {} \/ pub[s].kb = {}

(* "Changing one session pad's seat never turns the other one off"         *)
(* (test_transient_controller_assignment.cpp): a pad that moves from seat  *)
(* to seat unseats no other pad, by whichever of the ways.                 *)
MovesUnseatNobody ==
  [][\A id \in Seated(ses) :
       SeatOf(ses', id) \notin {{}, SeatOf(ses, id)} => Seated(ses) \subseteq Seated(ses')]_vars

(* After the frame's first input call the title polls every pad that is    *)
(* open, whatever came, left or was loaded since, once it has enumerated:  *)
(* as long as no table was loaded that the pump does not repair, and again *)
(* from the next pad on that comes or leaves.                              *)
PumpAttachesAll ==
  [][Pumped /\ known /\ ~spoilt' =>
       \A i \in Live(pad') : \E t \in attached' : table'[t] = i]_vars

(* "The game's controller table must reflect the LIVE inventory"           *)
(* (dinput8_hotplug.cpp): so it must whatever table was loaded.            *)
TableIsLive ==
  [][Pumped /\ known =>
       \A i \in Live(pad') : \E t \in attached' : table'[t] = i]_vars

(* At the least, as its message has it, the table names some live pad.     *)
TableNamesSome ==
  [][Pumped /\ known => Matches(pad)']_vars

(* The controller that is published for a player is the one that the       *)
(* player's pad has in the title's table, also after the admission that    *)
(* follows in the same call.                                               *)
PublishedIsOwn ==
  [][Pumped =>
       \A s \in Seats : \A t \in pub'[s].slot :
         /\ t \in attached'
         /\ \E p \in pub'[s].pad : table'[t] = pad'[p]]_vars
=============================================================================
