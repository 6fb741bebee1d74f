---------------------------- MODULE DeviceSeats -----------------------------
(***************************************************************************)
(* Which device belongs to which player                                    *)
(* (src/src/config/input_assignments.cpp), with the assignments that last  *)
(* only for this run and name one connected pad                            *)
(* (src/src/input/transient_controller_assignment.cpp).                    *)
(*                                                                         *)
(* `own' gives each keyboard profile and each pad of lasting identity the  *)
(* seat it is reserved for; `ses' gives each seat its pad of this run.     *)
(* There are as many stored reservations as seats, so a full table only    *)
(* ever drops the one that is displaced, as Moved does.                    *)
(***************************************************************************)
EXTENDS Naturals

CONSTANTS
  Players,     \* kSettingsPlayers
  Keyboards,   \* the keyboard profiles
  Lasting,     \* the identities of pads with a serial or a path
  NoSeat,      \* kSettingsUnassigned
  None         \* no pad

ASSUME SomePlayers == Players \in Nat \ {0}
ASSUME DevicesDiffer == Keyboards \cap Lasting = {}

Seats == 0 .. Players - 1
ASSUME NoSeatIsNone == NoSeat \notin Seats

Devices == Keyboards \cup Lasting

SameKind(d, e) == (d \in Keyboards) = (e \in Keyboards)

(* The first player may use one device of each kind, the others one.       *)
Clash(d, e, seat) == seat > 0 \/ SameKind(d, e)

Held(own, seat) == {d \in Devices : own[d] = seat}

(* input_assignments_valid.                                                *)
Valid(own) ==
  /\ Held(own, 0) # {}
  /\ \A seat \in Seats \ {0} :
       ~(\E d, e \in Held(own, seat) : ~SameKind(d, e))

(* A device that is displaced takes the seat of the one that displaces it, *)
(* if that seat still has room for it.                                     *)
Moved_Stays(own, d, seat) == [own EXCEPT ![d] = seat]
Moved(own, d, seat) ==
  LET left == own[d]
      out == {e \in Devices \ {d} :
                seat # NoSeat /\ left # seat /\ own[e] = seat /\ Clash(d, e, seat)}
      Room(e) == left # NoSeat
                 /\ \A f \in Held(own, left) \ {d} : ~Clash(e, f, left)
  IN [e \in Devices |-> CASE e = d -> seat
                          [] e \in out -> IF Room(e) THEN left ELSE NoSeat
                          [] OTHER -> own[e]]

-----------------------------------------------------------------------------
SeatOf(ses, pad) == {s \in Seats : ses[s] = pad}
Seated(ses) == {ses[s] : s \in Seats} \ {None}

(* transient_controller_assign.                                            *)
Given_Drops(ses, pad, seat) ==
  [s \in Seats |-> CASE s = seat -> pad
                     [] s # seat /\ ses[s] = pad -> None
                     [] OTHER -> ses[s]]
Given(ses, pad, seat) ==
  [s \in Seats |-> CASE s = seat -> pad
                     [] s # seat /\ ses[s] = pad -> ses[seat]
                     [] OTHER -> ses[s]]

(* relocate_session_pad, with transient_controller_move.                   *)
MadeRoom(ses, seat, left) ==
  LET cleared == [ses EXCEPT ![seat] = None] IN
  IF left \notin {NoSeat, seat} /\ ses[left] = None
  THEN [cleared EXCEPT ![left] = ses[seat]]
  ELSE cleared
=============================================================================
