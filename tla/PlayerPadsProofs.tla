-------------------------- MODULE PlayerPadsProofs --------------------------
(***************************************************************************)
(* Proofs about PlayerPads.                                                *)
(*                                                                         *)
(* OneReservation is inductive by itself: seat_accepts and what it         *)
(* displaces leave no clash behind (MovedSeparates).  The rest needs IInv: *)
(* the ids of SDL are given in order, so that a unit that is plugged in    *)
(* again is another pad (UnitInv); an entry of the title's table and a     *)
(* session seat are each one pad's (TitleInv, SeatInv); and                *)
(* dinput_pad_refresh never opens a pad that it has open (Fits).  OneOwner *)
(* follows whenever ownership is resolved.                                 *)
(*                                                                         *)
(* PumpAttachesAll needs AInv besides: between two pumps the title polls   *)
(* every pad, or none through a table that has just been loaded and that   *)
(* the next pump will be the first to see, or the table is spoilt.         *)
(***************************************************************************)
EXTENDS PlayerPads, FiniteSetTheorems, TLAPS

Owns == [Devices -> Seats \cup {NoSeat}]

Separate(o) ==
  \A d, e \in Devices :
    d # e /\ o[d] = o[e] /\ o[d] # NoSeat => ~Clash(d, e, o[d])

(* Two devices clash in either order.                                      *)
LEMMA ClashIsMutual ==
  \A d, e, seat : Clash(d, e, seat) => Clash(e, d, seat)
  BY DEF Clash, SameKind

(* seat_accepts and relocate_displaced: whatever is handed to whom, no two *)
(* reservations clash afterwards if none did before.                       *)
LEMMA MovedSeparates ==
  ASSUME NEW o \in Owns, Separate(o), NEW d \in Devices,
         NEW seat \in Seats \cup {NoSeat}
  PROVE  Moved(o, d, seat) \in Owns /\ Separate(Moved(o, d, seat))
<1> DEFINE left == o[d]
           out == {e \in Devices \ {d} :
                     seat # NoSeat /\ left # seat /\ o[e] = seat /\ Clash(d, e, seat)}
           Room(e) == left # NoSeat
                      /\ \A f \in Held(o, left) \ {d} : ~Clash(e, f, left)
           m == Moved(o, d, seat)
<1>1. m = [e \in Devices |-> CASE e = d -> seat
                               [] e \in out -> IF Room(e) THEN left ELSE NoSeat
                               [] OTHER -> o[e]]
  BY DEF Moved
<1>2. d \notin out /\ m[d] = seat
  BY <1>1
<1>3. \A e \in out : m[e] = IF Room(e) THEN left ELSE NoSeat
  BY <1>1
<1>4. \A e \in Devices : e # d /\ e \notin out => m[e] = o[e]
  BY <1>1
<1>5. left \in Seats \cup {NoSeat}
  BY DEF Owns
<1> HIDE DEF m
<1>6. m \in Owns
  <2>1. m = [e \in Devices |-> m[e]]
    BY <1>1
  <2>2. ASSUME NEW e \in Devices PROVE m[e] \in Seats \cup {NoSeat}
    <3>1. CASE e = d
      BY <3>1, <1>2
    <3>2. CASE e \in out
      BY <3>2, <1>3, <1>5
    <3>3. CASE e # d /\ e \notin out
      BY <3>3, <1>4 DEF Owns
    <3> QED
      BY <3>1, <3>2, <3>3
  <2> QED
    BY <2>1, <2>2 DEF Owns
<1>7. ASSUME NEW b \in Devices, b # d, m[b] = seat, seat # NoSeat
      PROVE  ~Clash(d, b, seat)
  <2>1. b \notin out
    BY <1>3, <1>7
  <2>2. o[b] = seat
    BY <1>4, <1>7, <2>1
  <2>3. CASE left # seat
    BY <1>7, <2>1, <2>2, <2>3
  <2>4. CASE left = seat
    BY <1>7, <2>2, <2>4 DEF Separate
  <2> QED
    BY <2>3, <2>4
<1>8. ASSUME NEW a \in out, NEW b \in Devices \ {d}, b \notin out,
             m[a] = m[b], m[a] # NoSeat
      PROVE  ~Clash(a, b, m[a])
  <2>1. Room(a) /\ m[a] = left
    BY <1>3, <1>8
  <2>2. b \in Held(o, left) \ {d}
    BY <1>4, <1>8, <2>1 DEF Held
  <2> QED
    BY <2>1, <2>2
<1>9. ASSUME NEW a \in out, NEW b \in out, a # b
      PROVE  FALSE
  <2>1. o[a] = seat /\ o[b] = seat /\ seat \in Seats
    BY <1>9
  <2>2. Clash(d, a, seat) /\ Clash(d, b, seat)
    BY <1>9
  <2>3. Clash(a, b, seat)
    BY <2>2 DEF Clash, SameKind
  <2> QED
    BY <1>9, <2>1, <2>3 DEF Separate
<1>10. Separate(m)
  <2> SUFFICES ASSUME NEW a \in Devices, NEW b \in Devices, a # b,
                      m[a] = m[b], m[a] # NoSeat
               PROVE  ~Clash(a, b, m[a])
    BY DEF Separate
  <2>1. CASE a = d
    BY <2>1, <1>2, <1>7
  <2>2. CASE b = d
    BY <2>2, <1>2, <1>7, ClashIsMutual
  <2>3. CASE a # d /\ b # d /\ a \notin out /\ b \notin out
    BY <2>3, <1>4 DEF Separate
  <2>4. CASE a \in out /\ b # d /\ b \notin out
    BY <2>4, <1>8
  <2>5. CASE b \in out /\ a # d /\ a \notin out
    BY <2>5, <1>8, ClashIsMutual
  <2>6. CASE a \in out /\ b \in out
    BY <2>6, <1>9
  <2> QED
    BY <2>1, <2>2, <2>3, <2>4, <2>5, <2>6, <1>2
<1> QED
  BY <1>6, <1>10 DEF m

-----------------------------------------------------------------------------
(* What a table of pads is: every pad in one slot.                         *)
Fits(pads) ==
  /\ pads \in [Inventory -> Ids \cup {None}]
  /\ \A s, t \in Inventory : pads[s] = pads[t] /\ pads[s] # None => s = t

(* Different members of a finite set of numbers have different ranks.      *)
LEMMA RanksDiffer ==
  ASSUME NEW n \in Nat, NEW S \in SUBSET (1 .. n), NEW x \in S, NEW y \in S,
         Rank(x, S) = Rank(y, S)
  PROVE  x = y
<1>1. ASSUME NEW a \in S, NEW b \in S, a < b
      PROVE  Rank(a, S) # Rank(b, S)
  <2> DEFINE A == {z \in S : z < a}
             B == {z \in S : z < b}
  <2>1. IsFiniteSet(B)
    <3>1. IsFiniteSet(1 .. n)
      BY FS_Interval
    <3> QED
      BY <3>1, FS_Subset
  <2>2. A \subseteq B /\ a \in B /\ a \notin A
    <3>1. S \subseteq Int
      OBVIOUS
    <3>2. \A z \in S : z < a => z < b
      BY <1>1, <3>1
    <3>3. ~(a < a)
      BY <3>1
    <3> QED
      BY <1>1, <3>2, <3>3
  <2>3. Cardinality(A) # Cardinality(B)
    BY <2>1, <2>2, FS_Subset
  <2> QED
    BY <2>3 DEF Rank
<1>2. x \in Int /\ y \in Int
  OBVIOUS
<1>3. x < y \/ x = y \/ y < x
  BY <1>2
<1> QED
  BY <1>1, <1>3

(* dinput_pad_refresh: what is open and listed keeps its slot, and nothing *)
(* else stays open or is opened twice.                                     *)
LEMMA RefreshFits ==
  ASSUME plugged \subseteq Ids, NEW pads, Fits(pads), NEW dead
  PROVE  LET new == Refreshed(pads, dead) IN
         /\ Fits(new)
         /\ Live(new) \subseteq plugged
         /\ \A s \in Inventory : pads[s] \in plugged => new[s] = pads[s]
<1> DEFINE fresh == (plugged \ Live(pads)) \ dead
           free == {s \in Inventory : pads[s] = None}
           Gets(s, i) == i \in fresh /\ Rank(i, fresh) = Rank(s, free)
           opened == Opened(pads, dead)
           new == Refreshed(pads, dead)
<1>1. opened = [s \in Inventory |->
                  IF s \in free /\ \E i \in fresh : Rank(i, fresh) = Rank(s, free)
                  THEN CHOOSE i \in fresh : Rank(i, fresh) = Rank(s, free)
                  ELSE pads[s]]
  BY DEF Opened
<1>2. new = [s \in Inventory |-> IF opened[s] \in plugged THEN opened[s] ELSE None]
  BY DEF Refreshed
<1>3. None \notin Ids /\ MaxPlugs \in Nat /\ Slots \in Nat
  BY NoneIsNoPad, BoundsAreNat DEF Ids
<1> HIDE DEF opened, new
<1>4. ASSUME NEW s \in Inventory
      PROVE  \/ opened[s] = pads[s]
             \/ s \in free /\ Gets(s, opened[s])
  BY <1>1
<1>5. ASSUME NEW s \in Inventory, s \notin free
      PROVE  opened[s] = pads[s]
  BY <1>1, <1>5
<1>6. ASSUME NEW s \in Inventory, NEW t \in Inventory,
             opened[s] = opened[t], opened[s] \in plugged
      PROVE  s = t
  <2>1. CASE s \notin free /\ t \notin free
    BY <2>1, <1>3, <1>5, <1>6 DEF Fits
  <2>2. ASSUME NEW a \in Inventory, NEW b \in Inventory, a \in free, b \notin free,
               opened[a] = opened[b], opened[a] \in plugged
        PROVE  FALSE
    <3>1. opened[b] = pads[b]
      BY <1>5, <2>2
    <3>2. opened[a] # None
      BY <2>2, <1>3
    <3>3. opened[a] \in fresh
      BY <1>4, <2>2, <3>2
    <3>4. pads[b] \in Live(pads)
      BY <3>1, <3>2, <2>2 DEF Live
    <3> QED
      BY <2>2, <3>1, <3>3, <3>4
  <2>3. CASE s \in free /\ t \in free
    <3>1. Gets(s, opened[s]) /\ Gets(t, opened[t])
      BY <2>3, <1>3, <1>4, <1>6
    <3>2. Rank(s, free) = Rank(t, free)
      BY <3>1, <1>6
    <3>3. free \in SUBSET (1 .. Slots)
      BY DEF Inventory
    <3> QED
      BY <2>3, <3>2, <3>3, <1>3, RanksDiffer
  <2> QED
    BY <2>1, <2>2, <2>3, <1>6
<1>7. \A s \in Inventory : new[s] = IF opened[s] \in plugged THEN opened[s] ELSE None
  BY <1>2
<1>8. new \in [Inventory -> Ids \cup {None}]
  BY <1>2, <1>7
<1>9. \A s, t \in Inventory : new[s] = new[t] /\ new[s] # None => s = t
  BY <1>6, <1>7
<1>10. Live(new) \subseteq plugged
  BY <1>7 DEF Live
<1>11. ASSUME NEW s \in Inventory, pads[s] \in plugged
       PROVE  new[s] = pads[s]
  <2>1. s \notin free
    BY <1>3, <1>11
  <2> QED
    BY <2>1, <1>5, <1>7, <1>11
<1> QED
  BY <1>8, <1>9, <1>10, <1>11 DEF Fits, new

-----------------------------------------------------------------------------
(* The inductive invariant.  Ids are given in order, and a unit that is    *)
(* plugged in has one of them.                                             *)
UnitInv ==
  /\ unit \in [Ids -> Units \cup {None}] /\ plugged \subseteq Ids
  /\ \E n \in Nat : \A i \in Ids : unit[i] # None <=> i <= n
  /\ \A i \in plugged : unit[i] # None
  /\ \A i, j \in plugged : unit[i] = unit[j] => i = j

(* The title's table names no unit of this run twice.                      *)
TitleInv ==
  /\ table \in [Table -> Nat \cup {None}] /\ attached \subseteq Table
  /\ \A t, u \in Table : table[t] = table[u] /\ table[t] \in Ids => t = u

(* No pad of this run has two seats.                                       *)
SeatInv ==
  /\ own \in Owns /\ OneReservation
  /\ ses \in [Seats -> Ids \cup {None}]
  /\ \A s, q \in Seats : ses[s] = ses[q] /\ ses[s] # None => s = q

IInv ==
  /\ UnitInv /\ TitleInv /\ SeatInv /\ OneOwner
  /\ Fits(pad) /\ turns \in Nat

(* Sets of which one member is known.                                      *)
LEMMA AtMostOne ==
  ASSUME NEW S, \A x, y \in S : x = y
  PROVE  Cardinality(S) <= 1
<1>1. CASE S = {}
  BY <1>1, FS_EmptySet
<1>2. CASE S # {}
  <2>1. PICK x : S = {x}
    BY <1>2
  <2> QED
    BY <2>1, FS_Singleton
<1> QED
  BY <1>1, <1>2

(* resolve_pads and the rest of player_input_sync: a pad has one player, a *)
(* player one pad and, after the first, one device.                        *)
LEMMA OwnersDiffer ==
  ASSUME UnitInv, TitleInv, SeatInv,
         NEW pads, Fits(pads), Live(pads) \subseteq plugged,
         pub' = Ownership(pads)
  PROVE  OneOwner'
<1>0. None \notin Ids
  BY NoneIsNoPad, BoundsAreNat DEF Ids
<1>1. ASSUME NEW s \in Seats
      PROVE  /\ pub'[s].pad = Resolved(pads, s)
             /\ pub'[s].slot = UNION {SlotFor(pads, x) : x \in Resolved(pads, s)}
             /\ pub'[s].kb = Keyboard(s)
  BY DEF Ownership
<1>2. ASSUME NEW s \in Seats, NEW x \in Resolved(pads, s)
      PROVE  /\ x \in Inventory /\ pads[x] \in Ids /\ pads[x] \in plugged
             /\ \/ ses[s] # None /\ pads[x] = ses[s]
                \/ /\ ses[s] = None /\ pads[x] \notin Seated(ses)
                   /\ unit[pads[x]] \in Lasting /\ own[unit[pads[x]]] = s
  <2>1. x \in Inventory /\ pads[x] # None
    BY <1>2 DEF Resolved, PadOf, Reserved
  <2>2. pads[x] \in Ids /\ pads[x] \in plugged
    BY <2>1 DEF Fits, Live
  <2>3. CASE ses[s] # None
    BY <1>2, <2>1, <2>2, <2>3 DEF Resolved, PadOf
  <2>4. CASE ses[s] = None
    BY <1>2, <2>1, <2>2, <2>4 DEF Resolved, Reserved, Held, Devices
  <2> QED
    BY <2>3, <2>4
<1>3. ASSUME NEW s \in Seats, NEW q \in Seats,
             NEW x \in Resolved(pads, s), NEW y \in Resolved(pads, q),
             pads[x] = pads[y]
      PROVE  s = q /\ x = y
  <2>1. x = y
    BY <1>0, <1>2, <1>3 DEF Fits
  <2>2. ASSUME NEW a \in Seats, ses[a] # None PROVE ses[a] \in Seated(ses)
    BY <2>2 DEF Seated
  <2>3. s = q
    BY <1>2, <1>3, <2>2 DEF SeatInv
  <2> QED
    BY <2>1, <2>3
<1>4. ASSUME NEW s \in Seats, NEW x \in Resolved(pads, s), NEW y \in Resolved(pads, s)
      PROVE  x = y
  <2>1. CASE ses[s] # None
    BY <1>2, <1>3, <2>1
  <2>2. CASE ses[s] = None
    <3> DEFINE u == unit[pads[x]]
               v == unit[pads[y]]
    <3>1. u \in Lasting /\ v \in Lasting /\ own[u] = s /\ own[v] = s
      BY <1>2, <2>2
    <3>2. SameKind(u, v)
      BY <3>1, DevicesDiffer DEF SameKind
    <3>3. u = v
      BY <3>1, <3>2, NoSeatIsNone DEF SeatInv, OneReservation, Clash, Devices
    <3>4. pads[x] = pads[y]
      BY <1>2, <3>3 DEF UnitInv
    <3> QED
      BY <1>3, <3>4
  <2> QED
    BY <2>1, <2>2
<1>5. ASSUME NEW s \in Seats
      PROVE  Cardinality(pub'[s].pad) <= 1
  BY <1>1, <1>4, AtMostOne
<1>6. ASSUME NEW s \in Seats
      PROVE  Cardinality(pub'[s].slot) <= 1
  <2>1. ASSUME NEW t \in pub'[s].slot, NEW u \in pub'[s].slot
        PROVE  t = u
    <3>1. PICK x \in Resolved(pads, s) : t \in SlotFor(pads, x)
      BY <1>1
    <3>2. PICK y \in Resolved(pads, s) : u \in SlotFor(pads, y)
      BY <1>1
    <3>3. x = y /\ pads[x] \in Ids
      BY <1>2, <1>4
    <3> QED
      BY <3>1, <3>2, <3>3 DEF SlotFor, TitleInv
  <2> QED
    BY <2>1, AtMostOne
<1>7. ASSUME NEW s \in Seats, NEW q \in Seats \ {s}
      PROVE  pub'[s].pad \cap pub'[q].pad = {}
  BY <1>1, <1>3
<1>8. ASSUME NEW s \in Seats, s > 0, pub'[s].pad # {}, pub'[s].kb # {}
      PROVE  FALSE
  <2>1. PICK x : x \in Resolved(pads, s)
    BY <1>1, <1>8
  <2>2. PICK k : k \in Keyboards /\ k \in Held(own, s) /\ ses[s] = None
    BY <1>1, <1>8 DEF Keyboard
  <2>3. unit[pads[x]] \in Lasting /\ own[unit[pads[x]]] = s
    BY <1>2, <2>1, <2>2
  <2>4. own[k] = s /\ k # unit[pads[x]]
    BY <2>2, <2>3, DevicesDiffer DEF Held
  <2> QED
    BY <1>8, <2>2, <2>3, <2>4, NoSeatIsNone DEF SeatInv, OneReservation, Clash, Devices
<1> QED
  BY <1>5, <1>6, <1>7, <1>8 DEF OneOwner

-----------------------------------------------------------------------------
(* The title's enumeration: every live pad gets its own entry, the one it  *)
(* had if it had one.                                                      *)
LEMMA EnumerationAttaches ==
  ASSUME TitleInv, NEW pads, Fits(pads), Enumerates(pads)
  PROVE  /\ TitleInv'
         /\ \A i \in Live(pads) : \E t \in attached' : table'[t] = i
         /\ \A i \in Live(pads) : \A t \in Table :
              table[t] = i => t \in attached' /\ table'[t] = i
<1>1. Live(pads) \subseteq Ids /\ Ids \subseteq Nat
  BY DEF Live, Fits, Ids
<1>2. PICK at \in [Live(pads) -> Table] :
        /\ \A i, j \in Live(pads) : at[i] = at[j] => i = j
        /\ \A i \in Live(pads) :
             (\E t \in Table : table[t] = i) => table[at[i]] = i
        /\ table' = [t \in Table |->
                       IF \E i \in Live(pads) : at[i] = t
                       THEN CHOOSE i \in Live(pads) : at[i] = t ELSE table[t]]
        /\ attached' = {at[i] : i \in Live(pads)}
  BY DEF Enumerates
<1>3. ASSUME NEW i \in Live(pads) PROVE table'[at[i]] = i /\ at[i] \in attached'
  <2>1. (CHOOSE j \in Live(pads) : at[j] = at[i]) = i
    BY <1>2
  <2> QED
    BY <1>2, <2>1
<1>4. ASSUME NEW t \in Table, \A i \in Live(pads) : at[i] # t
      PROVE  table'[t] = table[t]
  BY <1>2, <1>4
<1>5. ASSUME NEW i \in Live(pads), NEW t \in Table, table[t] = i
      PROVE  t = at[i]
  <2>1. table[at[i]] = i /\ at[i] \in Table
    BY <1>2, <1>5
  <2> QED
    BY <1>1, <1>5, <2>1 DEF TitleInv
<1>6. ASSUME NEW t \in Table PROVE table'[t] \in Nat \cup {None}
  <2>1. CASE \E i \in Live(pads) : at[i] = t
    BY <1>1, <1>3, <2>1
  <2>2. CASE \A i \in Live(pads) : at[i] # t
    BY <1>4, <2>2 DEF TitleInv
  <2> QED
    BY <2>1, <2>2
<1>7. ASSUME NEW t \in Table, NEW u \in Table, table'[t] = table'[u], table'[t] \in Ids
      PROVE  t = u
  <2>1. ASSUME NEW x \in Table, NEW y \in Table, table'[x] = table'[y],
               NEW i \in Live(pads), at[i] = x
        PROVE  x = y
    <3>1. table'[y] = i
      BY <1>3, <2>1
    <3>2. CASE \E j \in Live(pads) : at[j] = y
      BY <1>3, <2>1, <3>1, <3>2
    <3>3. CASE \A j \in Live(pads) : at[j] # y
      BY <1>4, <1>5, <2>1, <3>1, <3>3
    <3> QED
      BY <3>2, <3>3
  <2>2. CASE \E i \in Live(pads) : at[i] = t
    BY <1>7, <2>1, <2>2
  <2>3. CASE \E i \in Live(pads) : at[i] = u
    BY <1>7, <2>1, <2>3
  <2>4. CASE (\A i \in Live(pads) : at[i] # t) /\ (\A i \in Live(pads) : at[i] # u)
    BY <1>4, <1>7, <2>4 DEF TitleInv
  <2> QED
    BY <2>2, <2>3, <2>4
<1>8. table' = [t \in Table |-> table'[t]] /\ attached' \subseteq Table
  BY <1>2
<1>9. TitleInv'
  BY <1>6, <1>7, <1>8 DEF TitleInv, Ids, Table
<1>10. ASSUME NEW i \in Live(pads), NEW t \in Table, table[t] = i
       PROVE  t \in attached' /\ table'[t] = i
  BY <1>3, <1>5, <1>10
<1>11. \A i \in Live(pads) : \E t \in attached' : table'[t] = i
  BY <1>3
<1> QED
  BY <1>9, <1>10, <1>11

-----------------------------------------------------------------------------
(* At the start no pad is known and one keyboard is the first player's.    *)
LEMMA InitInv == Init => IInv
<1> SUFFICES ASSUME Init PROVE IInv
  OBVIOUS
<1> USE NoneIsNoPad, BoundsAreNat DEF Init
<1>1. None \notin Ids
  BY DEF Ids
<1>2. UnitInv
  <2>1. \A i \in Ids : unit[i] # None <=> i <= 0
    BY DEF Ids
  <2> QED
    BY <2>1 DEF UnitInv
<1>3. TitleInv
  BY <1>1 DEF TitleInv
<1>4. SeatInv
  <2>1. PICK k \in Keyboards :
          own = [d \in Devices |-> IF d = k THEN 0 ELSE NoSeat]
    OBVIOUS
  <2>2. own \in Owns
    BY <2>1, SomePlayers DEF Owns, Seats
  <2>3. OneReservation
    BY <2>1 DEF OneReservation
  <2> QED
    BY <2>2, <2>3 DEF SeatInv
<1>5. OneOwner
  <2>1. \A s \in Seats : pub[s].pad = {} /\ pub[s].slot = {}
    OBVIOUS
  <2>2. Cardinality({}) <= 1
    BY FS_EmptySet
  <2> QED
    BY <2>1, <2>2 DEF OneOwner
<1>6. Fits(pad)
  BY DEF Fits
<1> QED
  BY <1>2, <1>3, <1>4, <1>5, <1>6 DEF IInv

(* The pump's two or three refreshes, each of a table that fits.           *)
LEMMA PumpRefreshes ==
  ASSUME IInv, NEW dead, PumpWith(dead)
  PROVE  LET one == Refreshed(pad, dead)
             two == Refreshed(one, dead)
             three == Refreshed(two, dead)
         IN
         /\ Fits(two) /\ Live(two) \subseteq plugged
         /\ Fits(three) /\ \A s \in Inventory : two[s] # None => three[s] = two[s]
         /\ pub' = Ownership(two)
         /\ IF (one = pad /\ two = pad /\ Checked(two)) \/ ~known
            THEN pad' = two /\ UNCHANGED title
            ELSE pad' = three /\ Enumerates(three)
         /\ UNCHANGED <<world, known, seating>>
<1> DEFINE one == Refreshed(pad, dead)
           two == Refreshed(one, dead)
           three == Refreshed(two, dead)
<1>1. /\ pub' = Published(Ownership(two))
      /\ IF (one = pad /\ two = pad /\ Checked(two)) \/ ~known
         THEN pad' = two /\ UNCHANGED title
         ELSE pad' = three /\ Enumerates(three)
      /\ UNCHANGED <<world, known, seating>>
  BY DEF PumpWith
<1>2. plugged \subseteq Ids
  BY DEF IInv, UnitInv
<1>3. Fits(one)
  BY <1>2, RefreshFits DEF IInv
<1>4. Fits(two) /\ Live(two) \subseteq plugged
  BY <1>2, <1>3, RefreshFits
<1>5. Fits(three) /\ \A s \in Inventory : two[s] \in plugged => three[s] = two[s]
  BY <1>2, <1>4, RefreshFits
<1>6. \A s \in Inventory : two[s] # None => three[s] = two[s]
  BY <1>4, <1>5 DEF Live
<1>7. pub' = Ownership(two)
  BY <1>1 DEF Published, Changed
<1> HIDE DEF one, two, three
<1>8. QED
  BY <1>1, <1>4, <1>5, <1>6, <1>7 DEF one, two, three

(* The frame's pump, and the two other ways to look for pads.              *)
LEMMA PumpKeeps == IInv /\ Pump /\ UNCHANGED turns => IInv'
<1> SUFFICES ASSUME IInv, Pump, UNCHANGED turns PROVE IInv'
  OBVIOUS
<1>1. PICK dead : PumpWith(dead)
  BY DEF Pump
<1> DEFINE two == Refreshed(Refreshed(pad, dead), dead)
           three == Refreshed(two, dead)
<1>2. /\ Fits(two) /\ Live(two) \subseteq plugged /\ Fits(three)
      /\ pub' = Ownership(two)
      /\ (pad' = two /\ UNCHANGED title) \/ (pad' = three /\ Enumerates(three))
      /\ UNCHANGED <<world, seating>>
  BY <1>1, PumpRefreshes
<1>3. OneOwner'
  BY <1>2, OwnersDiffer DEF IInv
<1>4. UnitInv' /\ SeatInv'
  BY <1>2 DEF IInv, UnitInv, SeatInv, OneReservation, world, seating
<1>5. TitleInv' /\ Fits(pad)'
  <2>1. CASE pad' = two /\ UNCHANGED title
    BY <1>2, <2>1 DEF IInv, TitleInv, Fits, title
  <2>2. CASE pad' = three /\ Enumerates(three)
    BY <1>2, <2>2, EnumerationAttaches DEF IInv, Fits
  <2> QED
    BY <1>2, <2>1, <2>2
<1> QED
  BY <1>3, <1>4, <1>5 DEF IInv

(* The title's enumeration and the settings screen refresh the pads too.   *)
LEMMA LooksKeep ==
  IInv /\ (GameEnumerates \/ LooksForPads) /\ UNCHANGED turns => IInv'
<1> SUFFICES ASSUME IInv, GameEnumerates \/ LooksForPads, UNCHANGED turns PROVE IInv'
  OBVIOUS
<1>1. PICK dead :
        /\ pad' = Refreshed(pad, dead)
        /\ Enumerates(pad') \/ UNCHANGED title
        /\ UNCHANGED <<world, seating, pub>>
  BY DEF GameEnumerates, LooksForPads
<1>2. Fits(pad')
  BY <1>1, RefreshFits DEF IInv, UnitInv
<1>3. TitleInv'
  <2>1. CASE Enumerates(pad')
    BY <1>2, <2>1, EnumerationAttaches DEF IInv
  <2>2. CASE UNCHANGED title
    BY <2>2 DEF IInv, TitleInv, title
  <2> QED
    BY <1>1, <2>1, <2>2
<1>4. UnitInv' /\ SeatInv' /\ OneOwner'
  BY <1>1 DEF IInv, UnitInv, SeatInv, OneReservation, OneOwner, world, seating
<1> QED
  BY <1>2, <1>3, <1>4 DEF IInv, Fits

(* A save's table names what it names of this run once.                    *)
LEMMA LoadsSaveKeeps == IInv /\ LoadsSave /\ Turn => IInv'
<1> SUFFICES ASSUME IInv, LoadsSave, Turn PROVE IInv'
  OBVIOUS
<1>0. PICK names \in SUBSET Live(pad) : \E at \in [names -> Table] :
        /\ \A i, j \in names : at[i] = at[j] => i = j
        /\ table' = [t \in Table |->
                       IF \E i \in names : at[i] = t
                       THEN CHOOSE i \in names : at[i] = t ELSE Foreign]
  BY DEF LoadsSave
<1>1. PICK at \in [names -> Table] :
        table' = [t \in Table |-> IF \E i \in names : at[i] = t
                                  THEN CHOOSE i \in names : at[i] = t ELSE Foreign]
  BY <1>0
<1>2. UNCHANGED <<world, host, seating, pub>> /\ attached' = Table
  BY DEF LoadsSave
<1>3. names \subseteq Ids /\ Ids \subseteq Nat /\ Foreign \in Nat \ Ids
  BY DEF IInv, Live, Fits, Ids, Foreign
<1>4. ASSUME NEW t \in Table
      PROVE  \/ table'[t] \in names /\ at[table'[t]] = t
             \/ table'[t] = Foreign
  BY <1>1
<1>5. TitleInv'
  <2>1. \A t \in Table : table'[t] \in Nat \cup {None}
    BY <1>3, <1>4
  <2>2. \A t, u \in Table : table'[t] = table'[u] /\ table'[t] \in Ids => t = u
    BY <1>3, <1>4
  <2>3. table' = [t \in Table |-> table'[t]] /\ attached' \subseteq Table
    BY <1>1, <1>2
  <2> QED
    BY <2>1, <2>2, <2>3 DEF TitleInv, Ids, Table
<1>6. UnitInv' /\ SeatInv' /\ OneOwner' /\ Fits(pad)'
  BY <1>2 DEF IInv, UnitInv, SeatInv, OneReservation, OneOwner, Fits, world, host, seating
<1>7. turns' \in Nat
  BY DEF IInv, Turn
<1> QED
  BY <1>5, <1>6, <1>7 DEF IInv

(* What is plugged in gets an id that nothing plugged in has.              *)
LEMMA PlugKeeps == ASSUME NEW u \in Units PROVE IInv /\ Plug(u) /\ Turn => IInv'
<1> SUFFICES ASSUME IInv, Plug(u), Turn PROVE IInv'
  OBVIOUS
<1> DEFINE given == {j \in Ids : unit[j] # None}
           i == Cardinality(given) + 1
<1>0. \A k \in Nat : Cardinality(1 .. k) = k
  BY FS_Interval
<1>1. /\ i \in Ids /\ \A j \in plugged : unit[j] # u
      /\ unit' = [unit EXCEPT ![i] = u]
      /\ plugged' = plugged \cup {i}
      /\ UNCHANGED <<host, title, seating, pub>>
  BY DEF Plug
<1>2. PICK n \in Nat : \A j \in Ids : unit[j] # None <=> j <= n
  BY DEF IInv, UnitInv
<1>3. MaxPlugs \in Nat /\ u # None
  BY BoundsAreNat, NoneIsNoPad
<1>4. CASE n >= MaxPlugs
  <2>1. given = 1 .. MaxPlugs
    BY <1>2, <1>3, <1>4 DEF Ids
  <2>2. i = MaxPlugs + 1
    BY <2>1, <1>0, <1>3
  <2> QED
    BY <1>1, <1>3, <2>2 DEF Ids
<1>5. CASE n < MaxPlugs
  <2>1. given = 1 .. n
    BY <1>2, <1>3, <1>5 DEF Ids
  <2>2. i = n + 1
    BY <2>1, <1>0
  <2>3. \A j \in Ids : unit'[j] = IF j = n + 1 THEN u ELSE unit[j]
    BY <1>1, <2>2 DEF IInv, UnitInv
  <2>4. \A j \in Ids : unit'[j] # None <=> j <= n + 1
    BY <1>2, <1>3, <2>3 DEF Ids
  <2>5. n + 1 \notin plugged
    BY <1>2 DEF IInv, UnitInv
  <2>6. plugged' = plugged \cup {n + 1} /\ plugged' \subseteq Ids
    BY <1>1, <2>2 DEF IInv, UnitInv
  <2>7. unit' \in [Ids -> Units \cup {None}]
    BY <1>1 DEF IInv, UnitInv
  <2>8. \A j \in plugged : unit'[j] = unit[j] /\ unit'[j] # u
    BY <1>1, <2>3, <2>5 DEF IInv, UnitInv
  <2>9. unit'[n + 1] = u
    BY <1>1, <2>2, <2>3
  <2>10. \A j \in plugged' : unit'[j] # None
    BY <1>3, <2>6, <2>8, <2>9 DEF IInv, UnitInv
  <2>11. \A j, k \in plugged' : unit'[j] = unit'[k] => j = k
    BY <2>6, <2>8, <2>9 DEF IInv, UnitInv
  <2>12. n + 1 \in Nat
    OBVIOUS
  <2>13. UnitInv'
    BY <2>4, <2>6, <2>7, <2>10, <2>11, <2>12 DEF UnitInv
  <2>14. TitleInv' /\ SeatInv' /\ OneOwner' /\ Fits(pad)' /\ turns' \in Nat
    BY <1>1 DEF IInv, TitleInv, SeatInv, OneReservation, OneOwner, Fits, host, title,
                seating, Turn
  <2> QED
    BY <2>13, <2>14 DEF IInv
<1> QED
  BY <1>4, <1>5, <1>3

(* What is unplugged keeps its id, its slot and its seats for now.         *)
LEMMA UnplugKeeps == ASSUME NEW i \in Ids PROVE IInv /\ Unplug(i) /\ Turn => IInv'
  BY DEF IInv, UnitInv, TitleInv, SeatInv, OneReservation, OneOwner, Fits, Unplug, Turn,
         host, title, seating

(* The four ways to hand devices out.                                      *)
LEMMA GivenDiffer ==
  ASSUME SeatInv, NEW id \in Ids, NEW seat \in Seats
  PROVE  LET new == Given(ses, id, seat) IN
         /\ new \in [Seats -> Ids \cup {None}]
         /\ \A s, q \in Seats : new[s] = new[q] /\ new[s] # None => s = q
<1> DEFINE new == Given(ses, id, seat)
<1>1. new = [s \in Seats |-> CASE s = seat -> id
                               [] s # seat /\ ses[s] = id -> ses[seat]
                               [] OTHER -> ses[s]]
  BY DEF Given
<1>2. id # None
  BY NoneIsNoPad, BoundsAreNat DEF Ids
<1>3. new[seat] = id
  BY <1>1
<1>4. ASSUME NEW s \in Seats, s # seat
      PROVE  new[s] = IF ses[s] = id THEN ses[seat] ELSE ses[s]
  BY <1>1, <1>4
<1> HIDE DEF new
<1>5. ASSUME NEW s \in Seats PROVE new[s] \in Ids \cup {None}
  BY <1>3, <1>4 DEF SeatInv
<1>6. new = [s \in Seats |-> new[s]]
  BY <1>1
<1>7. ASSUME NEW s \in Seats \ {seat}, NEW q \in Seats \ {seat},
             new[s] = new[q], new[s] # None
      PROVE  s = q
  <2>1. CASE ses[s] # id /\ ses[q] # id
    BY <1>4, <1>7, <2>1 DEF SeatInv
  <2>2. CASE ses[s] = id \/ ses[q] = id
    BY <1>2, <1>4, <1>7, <2>2 DEF SeatInv
  <2> QED
    BY <2>1, <2>2
<1>8. ASSUME NEW s \in Seats \ {seat} PROVE new[s] # id
  <2>1. CASE ses[s] = id
    BY <1>2, <1>4, <2>1 DEF SeatInv
  <2>2. CASE ses[s] # id
    BY <1>4, <2>2
  <2> QED
    BY <2>1, <2>2
<1>9. \A s, q \in Seats : new[s] = new[q] /\ new[s] # None => s = q
  BY <1>3, <1>7, <1>8
<1> QED
  BY <1>5, <1>6, <1>9 DEF new

(* relocate_session_pad empties one seat and may fill another, empty one.  *)
LEMMA RoomDiffers ==
  ASSUME SeatInv, NEW seat \in Seats, NEW left \in Seats \cup {NoSeat}
  PROVE  LET new == MadeRoom(ses, seat, left) IN
         /\ new \in [Seats -> Ids \cup {None}]
         /\ \A s, q \in Seats : new[s] = new[q] /\ new[s] # None => s = q
<1>1. CASE left \notin {NoSeat, seat} /\ ses[left] = None
  <2> DEFINE new == [[ses EXCEPT ![seat] = None] EXCEPT ![left] = ses[seat]]
  <2>1. MadeRoom(ses, seat, left) = new
    BY <1>1 DEF MadeRoom
  <2> QED
    BY <1>1, <2>1 DEF SeatInv
<1>2. CASE ~(left \notin {NoSeat, seat} /\ ses[left] = None)
  <2> DEFINE new == [ses EXCEPT ![seat] = None]
  <2>1. MadeRoom(ses, seat, left) = new
    BY <1>2 DEF MadeRoom
  <2> QED
    BY <2>1 DEF SeatInv
<1> QED
  BY <1>1, <1>2

(* The screen and the command leave reservations apart, and sessions too.  *)
LEMMA AssignsKeep == IInv /\ Assigns /\ Turn => IInv'
<1> SUFFICES ASSUME IInv, Assigns, Turn PROVE IInv'
  OBVIOUS
<1>1. ASSUME UNCHANGED <<world, host, title, pub>>, SeatInv'
      PROVE  IInv'
  BY <1>1 DEF IInv, UnitInv, TitleInv, OneOwner, Fits, Turn, world, host, title
<1>2. own \in Owns /\ Separate(own)
  BY DEF IInv, SeatInv, OneReservation, Separate
<1>3. ASSUME NEW d \in Devices, NEW seat \in Seats \cup {NoSeat}, own' = Moved(own, d, seat)
      PROVE  own' \in Owns /\ OneReservation'
  <2>1. own' \in Owns /\ Separate(own')
    BY <1>2, <1>3, MovedSeparates
  <2> QED
    BY <2>1 DEF Separate, OneReservation
<1>4. ASSUME NEW seat \in Seats, NEW left \in Seats \cup {NoSeat},
             ses' = MadeRoom(ses, seat, left), own' \in Owns /\ OneReservation'
      PROVE  SeatInv'
  BY <1>4, RoomDiffers DEF SeatInv, IInv
<1>5. ASSUME UNCHANGED ses, own' \in Owns /\ OneReservation'
      PROVE  SeatInv'
  BY <1>5 DEF SeatInv, IInv
<1>6. ASSUME NEW seat \in Seats \cup {NoSeat}, NEW k \in Keyboards, AssignKeyboard(k, seat)
      PROVE  IInv'
  <2>1. own' \in Owns /\ OneReservation'
    BY <1>3, <1>6 DEF AssignKeyboard, Devices
  <2>2. own[k] \in Seats \cup {NoSeat}
    BY <1>2 DEF Owns, Devices
  <2>3. SeatInv'
    <3>1. CASE seat \in Seats \ {0}
      BY <1>4, <1>6, <2>1, <2>2, <3>1 DEF AssignKeyboard
    <3>2. CASE seat \notin Seats \ {0}
      BY <1>5, <1>6, <2>1, <3>2 DEF AssignKeyboard
    <3> QED
      BY <3>1, <3>2
  <2> QED
    BY <1>1, <1>6, <2>3 DEF AssignKeyboard
<1>7. ASSUME NEW seat \in Seats \cup {NoSeat}, NEW u \in Lasting, AssignLasting(u, seat)
      PROVE  IInv'
  <2>1. own' \in Owns /\ OneReservation'
    BY <1>3, <1>7 DEF AssignLasting, Devices
  <2>2. RowOwner(u) \in Seats \cup {NoSeat}
    BY <1>2 DEF RowOwner, Owns, Devices
  <2>3. SeatInv'
    <3>1. CASE seat \in Seats
      BY <1>4, <1>7, <2>1, <2>2, <3>1 DEF AssignLasting
    <3>2. CASE seat \notin Seats
      BY <1>5, <1>7, <2>1, <3>2 DEF AssignLasting
    <3> QED
      BY <3>1, <3>2
  <2> QED
    BY <1>1, <1>7, <2>3 DEF AssignLasting
<1>8. ASSUME NEW seat \in Seats, NEW id \in Ids, AssignSession(id, seat)
      PROVE  IInv'
  <2>1. SeatInv'
    BY <1>8, GivenDiffer DEF AssignSession, IInv, SeatInv, OneReservation
  <2> QED
    BY <1>1, <1>8, <2>1 DEF AssignSession
<1>9. ASSUME NEW seat \in Seats, ClearSession(seat)
      PROVE  IInv'
  <2>1. SeatInv'
    BY <1>9 DEF ClearSession, IInv, SeatInv, OneReservation
  <2> QED
    BY <1>1, <1>9, <2>1 DEF ClearSession
<1> QED
  BY <1>6, <1>7, <1>8, <1>9 DEF Assigns

(* No pad is in two slots, entries or seats, whatever comes and goes.      *)
THEOREM Invariant == Spec => []IInv
<1>1. IInv /\ [Next]_vars => IInv'
  <2> SUFFICES ASSUME IInv, [Next]_vars PROVE IInv'
    OBVIOUS
  <2>1. CASE (Pump \/ GameEnumerates \/ LooksForPads) /\ UNCHANGED turns
    BY <2>1, PumpKeeps, LooksKeep
  <2>2. CASE (Assigns \/ LoadsSave) /\ Turn
    BY <2>2, AssignsKeep, LoadsSaveKeeps
  <2>3. CASE (\E u \in Units : Plug(u)) /\ Turn
    BY <2>3, PlugKeeps
  <2>4. CASE (\E i \in Ids : Unplug(i)) /\ Turn
    BY <2>4, UnplugKeeps
  <2>5. CASE UNCHANGED vars
    BY <2>5 DEF vars, IInv, UnitInv, TitleInv, SeatInv, OneReservation, OneOwner, Fits,
                world, host, title, seating
  <2> QED
    BY <2>1, <2>2, <2>3, <2>4, <2>5 DEF Next
<1> QED
  BY <1>1, InitInv, PTL DEF Spec

(* input_assignments.cpp: reservations never clash, for any number of      *)
(* players and devices and any sequence of displacements.                  *)
THEOREM ReservationsAgree == Spec => []OneReservation
<1>1. IInv => OneReservation
  BY DEF IInv, SeatInv
<1> QED
  BY <1>1, Invariant, PTL

(* resolve_pads: no pad is published for two players, by session           *)
(* assignments and reservations together, and no player but the first has  *)
(* two devices.                                                            *)
THEOREM PadsHaveOneOwner == Spec => []OneOwner
<1>1. IInv => OneOwner
  BY DEF IInv
<1> QED
  BY <1>1, Invariant, PTL

-----------------------------------------------------------------------------
(* A step that has pumped is the pump.                                     *)
LEMMA OnlyThePump == IInv /\ Next /\ Pumped => Pump
<1> SUFFICES ASSUME IInv, Next, Pumped PROVE Pump
  OBVIOUS
<1>1. ~Turn
  BY DEF IInv, Turn, Pumped
<1>2. ~LooksForPads
  BY DEF LooksForPads, Pumped
<1>3. ~GameEnumerates
  BY DEF GameEnumerates, Pumped
<1> QED
  BY <1>1, <1>2, <1>3 DEF Next

(* player_input_sync runs before the admission of the same call: what it   *)
(* published is what the admission leaves.                                 *)
LEMMA PumpPublishesOwn ==
  ASSUME IInv, Pump, NEW s \in Seats, NEW t \in pub'[s].slot
  PROVE  t \in attached' /\ \E p \in pub'[s].pad : table'[t] = pad'[p]
<1>1. PICK dead : PumpWith(dead)
  BY DEF Pump
<1> DEFINE two == Refreshed(Refreshed(pad, dead), dead)
           three == Refreshed(two, dead)
<1>2. /\ Fits(two) /\ Live(two) \subseteq plugged /\ Fits(three)
      /\ \A p \in Inventory : two[p] # None => three[p] = two[p]
      /\ pub' = Ownership(two)
      /\ (pad' = two /\ UNCHANGED title) \/ (pad' = three /\ Enumerates(three))
  BY <1>1, PumpRefreshes
<1>3. PICK p \in Resolved(two, s) : t \in SlotFor(two, p)
  BY <1>2 DEF Ownership
<1>4. p \in Inventory /\ two[p] # None
  BY <1>3 DEF Resolved, PadOf, Reserved
<1>5. p \in pub'[s].pad /\ t \in attached /\ table[t] = two[p]
  BY <1>2, <1>3 DEF Ownership, SlotFor
<1>6. CASE pad' = two /\ UNCHANGED title
  BY <1>5, <1>6 DEF title
<1>7. CASE pad' = three /\ Enumerates(three)
  <2>1. three[p] = two[p] /\ three[p] \in Live(three)
    BY <1>2, <1>4 DEF Live
  <2>2. t \in Table
    BY <1>5 DEF IInv, TitleInv
  <2>3. t \in attached' /\ table'[t] = three[p]
    BY <1>2, <1>5, <1>7, <2>1, <2>2, EnumerationAttaches DEF IInv
  <2> QED
    BY <1>5, <1>7, <2>3
<1> QED
  BY <1>2, <1>6, <1>7

(* A player is never published with another pad's controller.              *)
THEOREM PublishedControllersAreOwn == Spec => PublishedIsOwn
<1>1. ASSUME IInv, [Next]_vars
      PROVE  [Pumped =>
                \A s \in Seats : \A t \in pub'[s].slot :
                  /\ t \in attached'
                  /\ \E p \in pub'[s].pad : table'[t] = pad'[p]]_vars
  BY <1>1, OnlyThePump, PumpPublishesOwn
<1> QED
  BY <1>1, Invariant, PTL DEF Spec, PublishedIsOwn

-----------------------------------------------------------------------------
(* Between two pumps: the title polls all pads, or a save that it loaded   *)
(* names none of them, which the next pump sees for the first time, unless *)
(* the table is one that the pump does not repair.                         *)
AllAttached == \A i \in Live(pad) : \E t \in attached : table[t] = i
NoneAttached == \A t \in attached : table[t] \notin Live(pad)

AInv == known /\ admitted /\ ~spoilt => AllAttached \/ (NoneAttached /\ ~broken)

(* A pump that enumerates attaches all; one that does not had no need to,  *)
(* or leaves a spoilt table as it is.                                      *)
LEMMA PumpAttaches ==
  ASSUME IInv, AInv, Pump, known, ~spoilt'
  PROVE  AllAttached'
<1>1. PICK dead : PumpWith(dead)
  BY DEF Pump
<1> DEFINE one == Refreshed(pad, dead)
           two == Refreshed(one, dead)
           three == Refreshed(two, dead)
           current == one = pad /\ two = pad /\ Checked(two)
<1>2. /\ Fits(three)
      /\ IF current \/ ~known THEN pad' = two /\ UNCHANGED title
         ELSE pad' = three /\ Enumerates(three)
  BY <1>1, PumpRefreshes
<1>3. CASE current
  <2>1. pad' = pad /\ UNCHANGED title
    BY <1>2, <1>3
  <2>2. admitted /\ (Matches(pad) \/ broken)
    BY <1>3 DEF Checked
  <2>3. ~spoilt
    BY <2>1 DEF title
  <2>4. AllAttached
    BY <2>2, <2>3 DEF AInv, AllAttached, NoneAttached, Matches
  <2> QED
    BY <2>1, <2>4 DEF AllAttached, title, Live
<1>4. CASE ~current
  <2>1. pad' = three /\ Enumerates(three)
    BY <1>2, <1>4
  <2>2. \A i \in Live(three) : \E t \in attached' : table'[t] = i
    BY <1>2, <2>1, EnumerationAttaches DEF IInv
  <2> QED
    BY <2>1, <2>2 DEF AllAttached, Live
<1> QED
  BY <1>3, <1>4

(* A save's table names all pads, or none before a pump that will look, or *)
(* spoils the title's.                                                     *)
LEMMA LoadsAttachAllOrNone ==
  ASSUME IInv, LoadsSave, ~spoilt'
  PROVE  AInv'
<1>1. /\ broken' = broken /\ attached' = Table /\ Live(pad)' = Live(pad)
  BY DEF LoadsSave, host, Live
<1>2. PICK names \in SUBSET Live(pad) :
        /\ spoilt' = (names # Live(pad) /\ (names = {} => broken))
        /\ \E at \in [names -> Table] :
             /\ \A i, j \in names : at[i] = at[j] => i = j
             /\ table' = [t \in Table |->
                            IF \E i \in names : at[i] = t
                            THEN CHOOSE i \in names : at[i] = t ELSE Foreign]
  BY DEF LoadsSave
<1>3. PICK at \in [names -> Table] :
        /\ \A i, j \in names : at[i] = at[j] => i = j
        /\ table' = [t \in Table |->
                       IF \E i \in names : at[i] = t
                       THEN CHOOSE i \in names : at[i] = t ELSE Foreign]
  BY <1>2
<1>4. CASE names = {} /\ ~broken
  <2>1. \A t \in Table : table'[t] = Foreign
    BY <1>3, <1>4
  <2>2. Foreign \notin Live(pad)
    BY NoneIsNoPad DEF IInv, Live, Fits, Ids, Foreign
  <2>3. NoneAttached'
    BY <1>1, <2>1, <2>2 DEF NoneAttached
  <2> QED
    BY <1>1, <1>4, <2>3 DEF AInv
<1>5. CASE names = Live(pad)
  <2>1. ASSUME NEW i \in Live(pad) PROVE at[i] \in Table /\ table'[at[i]] = i
    <3>1. (CHOOSE j \in names : at[j] = at[i]) = i
      BY <1>3, <1>5
    <3> QED
      BY <1>3, <1>5, <3>1
  <2>2. AllAttached'
    BY <1>1, <2>1 DEF AllAttached
  <2> QED
    BY <2>2 DEF AInv
<1> QED
  BY <1>2, <1>4, <1>5

(* So does the title's own enumeration.                                    *)
LEMMA GameAttaches ==
  ASSUME IInv, GameEnumerates
  PROVE  AInv'
<1>1. PICK dead : pad' = Refreshed(pad, dead)
  BY DEF GameEnumerates
<1>2. Fits(pad') /\ Enumerates(pad')
  BY <1>1, RefreshFits DEF IInv, UnitInv, GameEnumerates
<1>3. \A i \in Live(pad') : \E t \in attached' : table'[t] = i
  BY <1>2, EnumerationAttaches DEF IInv
<1> QED
  BY <1>3 DEF AInv, AllAttached, Live

(* Nothing but a save comes between the title and the pads it polls.       *)
LEMMA AdmissionInv == IInv /\ AInv /\ [Next]_vars => AInv'
<1> SUFFICES ASSUME IInv, AInv, [Next]_vars PROVE AInv'
  OBVIOUS
<1>1. CASE Pump
  <2>1. CASE known
    BY <1>1, <2>1, PumpAttaches DEF AInv
  <2>2. CASE ~known
    BY <1>1, <2>2 DEF AInv, Pump, PumpWith
  <2> QED
    BY <2>1, <2>2
<1>2. CASE GameEnumerates
  BY <1>2, GameAttaches
<1>3. CASE LooksForPads
  BY <1>3 DEF LooksForPads, AInv
<1>4. CASE LoadsSave
  <2>1. CASE spoilt'
    BY <2>1 DEF AInv
  <2> QED
    BY <1>4, <2>1, LoadsAttachAllOrNone
<1>5. CASE UNCHANGED <<host, title>>
  BY <1>5 DEF AInv, AllAttached, NoneAttached, Live, host, title
<1>6. ASSUME Assigns \/ (\E u \in Units : Plug(u)) \/ (\E i \in Ids : Unplug(i))
             \/ UNCHANGED vars
      PROVE  UNCHANGED <<host, title>>
  BY <1>6 DEF Assigns, AssignKeyboard, AssignLasting, AssignSession, ClearSession,
              Plug, Unplug, vars
<1> QED
  BY <1>1, <1>2, <1>3, <1>4, <1>5, <1>6 DEF Next

(* dinput8_hotplug_pump: for any number of pads, slots and players, the    *)
(* title polls every open pad after each pump, whatever tables are loaded, *)
(* until one names some pads and not others, or none while was_broken is   *)
(* set; and again from the first arrival or departure after that.          *)
THEOREM PadsArePolled == Spec => PumpAttachesAll
<1>1. Init => AInv
  BY DEF Init, AInv
<1>2. IInv /\ AInv /\ [Next]_vars => AInv'
  BY AdmissionInv
<1>3. ASSUME IInv, AInv, [Next]_vars
      PROVE  [Pumped /\ known /\ ~spoilt' =>
                \A i \in Live(pad') : \E t \in attached' : table'[t] = i]_vars
  <2>1. Pump /\ known /\ ~spoilt' => AllAttached'
    BY <1>3, PumpAttaches
  <2> QED
    BY <1>3, <2>1, OnlyThePump DEF AllAttached, Live
<1> QED
  BY <1>1, <1>2, <1>3, Invariant, PTL DEF Spec, PumpAttachesAll

-----------------------------------------------------------------------------
(* What MovesUnseatNobody asks of new assignments.                         *)
Harmless(new) ==
  \A id \in Seated(ses) :
    SeatOf(new, id) \notin {{}, SeatOf(ses, id)} => Seated(ses) \subseteq Seated(new)

(* Only one seat is given anew: no pad that had one changes seats.         *)
LEMMA OneSeatChanges ==
  ASSUME SeatInv, NEW new, NEW seat \in Seats, new[seat] \notin Seated(ses),
         \A s \in Seats \ {seat} : new[s] = ses[s]
  PROVE  Harmless(new)
<1> SUFFICES ASSUME NEW id \in Seated(ses) PROVE SeatOf(new, id) \in {{}, SeatOf(ses, id)}
  BY DEF Harmless
<1>1. PICK r \in Seats : ses[r] = id /\ id # None
  BY DEF Seated
<1>2. \A s \in Seats : ses[s] = id => s = r
  BY <1>1 DEF SeatInv
<1>3. SeatOf(ses, id) = {r}
  BY <1>1, <1>2 DEF SeatOf
<1>4. new[seat] # id
  OBVIOUS
<1>5. CASE r = seat
  <2>1. \A s \in Seats : new[s] # id
    BY <1>2, <1>4, <1>5
  <2> QED
    BY <2>1 DEF SeatOf
<1>6. CASE r # seat
  <2>1. \A s \in Seats : new[s] = id <=> s = r
    BY <1>1, <1>2, <1>4, <1>6
  <2>2. SeatOf(new, id) = {r}
    BY <2>1 DEF SeatOf
  <2> QED
    BY <1>3, <2>2
<1> QED
  BY <1>5, <1>6

(* Whoever had a seat has one.                                             *)
LEMMA AllStaySeated ==
  ASSUME NEW new, \A s \in Seats : ses[s] # None => \E q \in Seats : new[q] = ses[s]
  PROVE  Harmless(new)
  BY DEF Harmless, Seated

(* transient_controller_assign exchanges two seats, or gives one.          *)
LEMMA GivenIsHarmless ==
  ASSUME SeatInv, NEW id \in Ids, NEW seat \in Seats
  PROVE  Harmless(Given(ses, id, seat))
<1> DEFINE new == Given(ses, id, seat)
<1>1. new[seat] = id /\ id # None
  BY NoneIsNoPad, BoundsAreNat DEF Given, Ids
<1>2. \A s \in Seats \ {seat} : new[s] = IF ses[s] = id THEN ses[seat] ELSE ses[s]
  BY DEF Given
<1> HIDE DEF new
<1>3. CASE id \in Seated(ses)
  <2>1. PICK r \in Seats : ses[r] = id
    BY <1>3 DEF Seated
  <2>2. ASSUME NEW s \in Seats, ses[s] # None PROVE \E q \in Seats : new[q] = ses[s]
    <3>1. CASE s = r
      BY <1>1, <2>1, <3>1
    <3>2. CASE s # r /\ s = seat
      BY <1>2, <2>1, <3>2
    <3>3. CASE s # r /\ s # seat
      <4>1. ses[s] # id
        BY <1>1, <2>1, <3>3 DEF SeatInv
      <4> QED
        BY <1>2, <3>3, <4>1
    <3> QED
      BY <3>1, <3>2, <3>3
  <2>3. Harmless(new)
    BY <2>2, AllStaySeated
  <2> QED
    BY <2>3 DEF new
<1>4. CASE id \notin Seated(ses)
  <2>1. \A s \in Seats : ses[s] # id
    BY <1>1, <1>4 DEF Seated
  <2>2. Harmless(new)
    BY <1>1, <1>2, <1>4, <2>1, OneSeatChanges
  <2> QED
    BY <2>2 DEF new
<1> QED
  BY <1>3, <1>4

(* relocate_session_pad moves the pad of a seat, or takes it away.         *)
LEMMA RoomIsHarmless ==
  ASSUME SeatInv, NEW seat \in Seats, NEW left \in Seats \cup {NoSeat}
  PROVE  Harmless(MadeRoom(ses, seat, left))
<1> DEFINE new == MadeRoom(ses, seat, left)
<1>0. None \notin Seated(ses) /\ ses \in [Seats -> Ids \cup {None}]
  BY DEF Seated, SeatInv
<1>1. CASE left \notin {NoSeat, seat} /\ ses[left] = None
  <2>1. /\ left \in Seats /\ new[left] = ses[seat]
        /\ \A s \in Seats \ {seat, left} : new[s] = ses[s]
    BY <1>0, <1>1 DEF MadeRoom
  <2> HIDE DEF new
  <2>2. \A s \in Seats : ses[s] # None => \E q \in Seats : new[q] = ses[s]
    BY <1>1, <2>1
  <2>3. Harmless(new)
    BY <2>2, AllStaySeated
  <2> QED
    BY <2>3 DEF new
<1>2. CASE ~(left \notin {NoSeat, seat} /\ ses[left] = None)
  <2>1. new[seat] = None /\ \A s \in Seats \ {seat} : new[s] = ses[s]
    BY <1>0, <1>2 DEF MadeRoom
  <2> HIDE DEF new
  <2>2. Harmless(new)
    BY <1>0, <2>1, OneSeatChanges
  <2> QED
    BY <2>2 DEF new
<1> QED
  BY <1>1, <1>2

(* A pad that moves to another seat, by a row, a command or because it has *)
(* to make room, costs no other pad its seat.                              *)
THEOREM MovesAreHarmless == Spec => MovesUnseatNobody
<1>1. IInv /\ [Next]_vars => Harmless(ses')
  <2> SUFFICES ASSUME IInv, [Next]_vars PROVE Harmless(ses')
    OBVIOUS
  <2>0. SeatInv /\ own \in Owns
    BY DEF IInv, SeatInv
  <2>1. CASE UNCHANGED ses
    BY <2>1 DEF Harmless
  <2>2. ASSUME NEW seat \in Seats, NEW id \in Ids, AssignSession(id, seat)
        PROVE  Harmless(ses')
    BY <2>0, <2>2, GivenIsHarmless DEF AssignSession
  <2>3. ASSUME NEW seat \in Seats, ClearSession(seat) PROVE Harmless(ses')
    <3>1. None \notin Seated(ses) /\ ses \in [Seats -> Ids \cup {None}]
      BY <2>0 DEF Seated, SeatInv
    <3>2. ses'[seat] = None /\ \A s \in Seats \ {seat} : ses'[s] = ses[s]
      BY <2>3, <3>1 DEF ClearSession
    <3> QED
      BY <2>0, <3>1, <3>2, OneSeatChanges
  <2>4. ASSUME NEW seat \in Seats \cup {NoSeat}, NEW k \in Keyboards, AssignKeyboard(k, seat)
        PROVE  Harmless(ses')
    <3>1. own[k] \in Seats \cup {NoSeat}
      BY <2>0 DEF Owns, Devices
    <3>2. CASE seat \in Seats \ {0}
      BY <2>0, <2>4, <3>1, <3>2, RoomIsHarmless DEF AssignKeyboard
    <3> QED
      BY <2>1, <2>4, <3>2 DEF AssignKeyboard
  <2>5. ASSUME NEW seat \in Seats \cup {NoSeat}, NEW u \in Lasting, AssignLasting(u, seat)
        PROVE  Harmless(ses')
    <3>1. RowOwner(u) \in Seats \cup {NoSeat}
      BY <2>0 DEF RowOwner, Owns, Devices
    <3>2. CASE seat \in Seats
      BY <2>0, <2>5, <3>1, <3>2, RoomIsHarmless DEF AssignLasting
    <3> QED
      BY <2>1, <2>5, <3>2 DEF AssignLasting
  <2>6. CASE Pump \/ GameEnumerates \/ LooksForPads \/ LoadsSave \/ UNCHANGED vars
    BY <2>1, <2>6 DEF Pump, PumpWith, GameEnumerates, LooksForPads, LoadsSave, vars, seating
  <2>7. CASE (\E u \in Units : Plug(u)) \/ (\E i \in Ids : Unplug(i))
    BY <2>1, <2>7 DEF Plug, Unplug, seating
  <2>8. CASE Assigns
    BY <2>2, <2>3, <2>4, <2>5, <2>8 DEF Assigns
  <2> QED
    BY <2>6, <2>7, <2>8 DEF Next
<1>2. IInv /\ [Next]_vars =>
        [\A id \in Seated(ses) :
           SeatOf(ses', id) \notin {{}, SeatOf(ses, id)} => Seated(ses) \subseteq Seated(ses')]_vars
  BY <1>1 DEF Harmless
<1> QED
  BY <1>2, Invariant, PTL DEF Spec, MovesUnseatNobody
=============================================================================
