----------------------------- MODULE LanProofs ------------------------------
(***************************************************************************)
(* Proofs about LanRendezvous and, at the end, LanSessions, for any        *)
(* machines, pairs, cookies, seats and bounds.                             *)
(*                                                                         *)
(* SideInv follows one side of a pair from its beginning to its answer.    *)
(* HeardInv: who is heard to have found its partner has passed that on, or *)
(* is about to.  PairInv bounds the time that a side can wait: each tick   *)
(* is one between the two beginnings, or one that a message needs, or is   *)
(* paid for by a miss, which costs two ticks at most.                      *)
(*                                                                         *)
(* SessionsInv keeps the choice to leave with what the coordinator makes   *)
(* of it until the session has emptied.                                    *)
(***************************************************************************)
EXTENDS LanRendezvous, LanSessions, FiniteSetTheorems, SequenceTheorems, TLAPS

Pairing == [left : 0 .. PartnerTicks, wait : 0 .. ResendTicks, found : BOOLEAN,
            reported : BOOLEAN, heardUs : BOOLEAN, told : BOOLEAN]
Message == [cookie : Cookies, heard : BOOLEAN]
Results == {"paired", "deadbeat"}
Outcome == [cookie : Cookies, result : Results]

LanType ==
  /\ begun \in [Machines -> SUBSET Cookies] /\ game \in [Machines -> SUBSET Cookies]
  /\ table \in [Machines -> [Cookies -> Pairing]]
  /\ ended \in [Machines -> Seq(Outcome)]
  /\ air \in [Machines -> SUBSET Message] /\ polled \subseteq Machines
  /\ tries \in [Machines -> [Cookies -> Nat]]
  /\ answer \in [Machines -> [Cookies -> Results \cup {"none", "cancelled"}]]
  /\ gap \in [Cookies -> Nat] /\ misses \in Nat

Live(m, c) == table[m][c] # NoPairing
Waits(m, c) == c \in begun[m] \/ (Live(m, c) /\ ~table[m][c].found)
InAir(m, c) == \E x \in air[m] : x.cookie = c
Saying(m, c) == [cookie |-> c, heard |-> TRUE] \in air[m]
GaveUp(m, c) == <<m, c>> \in gaveUp

(* An outcome that waits to be taken up for the game of m.                 *)
Has(m, c, r) == \E i \in DOMAIN ended[m] : ended[m][i] = [cookie |-> c, result |-> r]

(* The outcome of c for m is r, taken up for its game or about to be.      *)
Told(m, c, r) ==
  /\ \A q \in Results : Has(m, c, q) => q = r
  /\ answer[m][c] = r \/ (answer[m][c] = "none" /\ Has(m, c, r))

(* A pairing left in the table by a poll has reported a partner it found,  *)
(* and has told or heard of no partner that it has not found; a machine    *)
(* that has not polled in this tick is due to send; and only the two of a  *)
(* pair have to do with it.                                                *)
RowOk(m, c) ==
  /\ Live(m, c) =>
       /\ table[m][c].reported = table[m][c].found
       /\ table[m][c].heardUs \/ table[m][c].told => table[m][c].found
  /\ c \in begun[m] \/ Live(m, c) \/ InAir(m, c) => m \in Pair[c]
TableInv == \A m \in Machines, c \in Cookies : RowOk(m, c)

Sleeps(m, c) == m \notin polled => table[m][c].wait = 0
WaitInv == \A m \in Machines, c \in Cookies : Sleeps(m, c)

(* A side that has not begun, waits, has found its partner, or never will. *)
NotBegun(m, c) ==
  /\ c \notin begun[m] /\ ~Live(m, c) /\ answer[m][c] = "none"
  /\ \A r \in Results : ~Has(m, c, r)
  /\ ~GaveUp(m, c) /\ ~InAir(Partner(m, c), c)
StillWaits(m, c) ==
  /\ Waits(m, c) /\ c \in game[m] /\ answer[m][c] = "none"
  /\ \A r \in Results : ~Has(m, c, r)
  /\ c \in begun[m] => ~Live(m, c)
HasFound(m, c) == ~Waits(m, c) /\ Told(m, c, "paired")
HasLost(m, c) == ~Waits(m, c) /\ ~Live(m, c) /\ Told(m, c, "deadbeat")

SideOk(m, c) ==
  /\ tries[m][c] = 0 => NotBegun(m, c)
  /\ tries[m][c] = 1 /\ ~GaveUp(m, c) =>
       StillWaits(m, c) \/ HasFound(m, c) \/ HasLost(m, c)
SideInv == \A c \in Cookies : \A m \in Pair[c] : SideOk(m, c)

HeardOk(m, c) ==
  LET p == Partner(m, c) IN
  /\ tries[m][c] <= 1 /\ ~GaveUp(m, c)
  /\ Saying(p, c) \/ (Live(p, c) /\ table[p][c].heardUs)
  => tries[m][c] = 1 /\ HasFound(m, c)
HeardInv == \A c \in Cookies : \A m \in Pair[c] : HeardOk(m, c)

LanInv == LanType /\ TableInv /\ SideInv /\ HeardInv

(* Time is counted in resends, and there is enough of it for what the      *)
(* property allows a pair to lose.                                         *)
Timely == ResendTicks = 1 /\ PartnerTicks >= Slack + 2 * Losses + 2

(* The pairs that PairsDespiteLosses is about, from the first beginning.   *)
Spared(c) == Alone(c) /\ gap[c] <= Slack /\ misses <= Losses

(* How long m has waited, how long a message to it takes, counted from the *)
(* beginning of a tick, and so how long it can have waited.                *)
Age(m, c) == IF Live(m, c) THEN PartnerTicks - table[m][c].left ELSE 0
Lag(m, c) ==
  IF InAir(m, c) THEN (IF m \in polled THEN 1 ELSE 2)
  ELSE IF Partner(m, c) \in polled THEN 0 ELSE 1
Bound(m, c) == gap[c] + 2 * misses + Lag(m, c)

(* Neither side of a pair is late, or a message is there for the one that  *)
(* waits, who may miss nothing more.                                       *)
InTime(m, c) ==
  LET p == Partner(m, c) IN
  \/ /\ c \in begun[p] \/ Live(p, c)
     /\ Age(m, c) <= Bound(m, c) /\ Age(p, c) <= Bound(m, c)
  \/ InAir(m, c) /\ m \notin polled /\ misses = Losses

PairOk(m, c) ==
  Spared(c) /\ tries[m][c] = 1 =>
    /\ StillWaits(m, c) \/ HasFound(m, c)
    /\ tries[Partner(m, c)][c] = 0 => StillWaits(m, c) /\ Age(m, c) <= gap[c]
    /\ tries[Partner(m, c)][c] # 0 /\ StillWaits(m, c) => InTime(m, c)
PairInv == \A c \in Cookies : \A m \in Pair[c] : PairOk(m, c)

(* The row of c at a poll of m: what the poll starts from, after messages, *)
(* what it tells the game and what it leaves.                              *)
Start(m, c) == IF c \in begun[m] THEN Fresh ELSE table[m][c]
Gets(got, c) == \E x \in got : x.cookie = c
Hears(got, c) == [cookie |-> c, heard |-> TRUE] \in got
After(m, c, got) ==
  Heard(Start(m, c), {x.heard : x \in {y \in got : y.cookie = c}})
Ends(m, c, got) == Reports(Sent(After(m, c, got)))
Result(m, c, got) == IF Sent(After(m, c, got)).found THEN "paired" ELSE "deadbeat"
Kept(m, c, got) == Left(Sent(After(m, c, got)))

RowPolled(m, c, got) ==
  LET b == Start(m, c)  h == After(m, c, got)  k == Kept(m, c, got) IN
  /\ b = NoPairing => ~IsDue(h) /\ ~Ends(m, c, got) /\ k = NoPairing
  /\ b # NoPairing =>
       /\ h.found <=> b.found \/ Gets(got, c)
       /\ h.heardUs => b.heardUs \/ Hears(got, c)
       /\ b.wait = 0 /\ ~h.heardUs => IsDue(h)
       /\ Ends(m, c, got) <=> IF h.found THEN ~b.found ELSE b.left = 0
       /\ Result(m, c, got) = IF h.found THEN "paired" ELSE "deadbeat"
       /\ b.left = 0 => k = NoPairing
       /\ k = NoPairing => b.left = 0 \/ (h.found /\ h.heardUs)
       /\ k # NoPairing =>
            /\ k.left = b.left /\ k.found = h.found /\ k.reported = h.found
            /\ k.heardUs = h.heardUs /\ (k.heardUs \/ k.told => k.found)
  /\ k \in Pairing /\ h.found \in BOOLEAN

(* A poll of m that gets these messages, in those terms.                   *)
Told_By(m, got, q) ==
  \A x : (\E i \in DOMAIN q : q[i] = x) <=>
    \E c \in game[m] : Ends(m, c, got) /\ x = [cookie |-> c, result |-> Result(m, c, got)]
Sends(m, n, got) ==
  {[cookie |-> c, heard |-> After(m, c, got).found] :
     c \in {d \in Cookies : IsDue(After(m, d, got)) /\ Pair[d] = {m, n}}}
PollIs(m, got) ==
  /\ begun' = [begun EXCEPT ![m] = {}]
  /\ table' = [table EXCEPT ![m] = [c \in Cookies |-> Kept(m, c, got)]]
  /\ game' = [game EXCEPT ![m] = {c \in @ : ~Ends(m, c, got)}]
  /\ \E q \in Seq(Outcome) : Told_By(m, got, q) /\ ended' = [ended EXCEPT ![m] = q \o @]
  /\ \E kept \in SUBSET air[m] :
       air' = [n \in Machines |->
                 (IF n = m THEN kept ELSE air[n]) \cup Sends(m, n, got)]
  /\ misses' = UpTo(Losses, misses + Cardinality(air[m] \ got))
  /\ polled' = polled \cup {m}
  /\ outcomes' = [outcomes EXCEPT ![m] =
                    [c \in Cookies |->
                       IF Ends(m, c, got) THEN UpTo(1, @[c] + 1) ELSE @[c]]]
  /\ UNCHANGED <<tries, gaveUp, gap, answer>>

(* Nothing of m's side of c changes.                                       *)
SideSame(m, c) ==
  /\ c \in begun'[m] <=> c \in begun[m]
  /\ c \in game'[m] <=> c \in game[m]
  /\ table'[m][c] = table[m][c] /\ tries'[m][c] = tries[m][c]
  /\ answer'[m][c] = answer[m][c]
  /\ GaveUp(m, c)' <=> GaveUp(m, c)
  /\ \A r \in Results : Has(m, c, r)' <=> Has(m, c, r)

(* The other actions, on the side (m, c) that they are about.              *)
SideBegun(m, c) ==
  /\ c \in begun'[m] /\ c \in game'[m] /\ table'[m][c] = table[m][c]
  /\ tries'[m][c] = tries[m][c] + 1 /\ answer'[m][c] = "none" /\ ~GaveUp(m, c)'
  /\ \A r \in Results : Has(m, c, r)' <=> Has(m, c, r)
SideCancelled(m, c) ==
  /\ c \notin begun'[m] /\ table'[m][c] = NoPairing
  /\ tries'[m][c] = tries[m][c] /\ tries[m][c] > 0 /\ GaveUp(m, c)'
SideAnswered(m, c) ==
  /\ c \in begun'[m] <=> c \in begun[m]
  /\ c \in game'[m] <=> c \in game[m]
  /\ table'[m][c] = table[m][c] /\ tries'[m][c] = tries[m][c]
  /\ GaveUp(m, c)' <=> GaveUp(m, c)
  /\ \/ /\ answer'[m][c] = answer[m][c]
        /\ \A r \in Results : Has(m, c, r)' <=> Has(m, c, r)
     \/ /\ answer'[m][c] \in Results /\ Has(m, c, answer'[m][c])
        /\ \A r \in Results : Has(m, c, r)' => Has(m, c, r)
Aged(p) == [p EXCEPT !.left = Less(@), !.wait = Less(@)]
SideAged(m, c) ==
  /\ c \in begun'[m] <=> c \in begun[m]
  /\ c \in game'[m] <=> c \in game[m]
  /\ table'[m][c] = Aged(table[m][c])
  /\ tries'[m][c] = tries[m][c] /\ answer'[m][c] = answer[m][c]
  /\ GaveUp(m, c)' <=> GaveUp(m, c)
  /\ \A r \in Results : Has(m, c, r)' <=> Has(m, c, r)

(* What a poll of m does to m's side of c, to the messages to n about c,   *)
(* and to the count of what was missed.                                    *)
SidePolled(m, c, got) ==
  /\ RowPolled(m, c, got)
  /\ c \notin begun'[m] /\ table'[m][c] = Kept(m, c, got)
  /\ c \in game'[m] <=> c \in game[m] /\ ~Ends(m, c, got)
  /\ tries'[m][c] = tries[m][c] /\ answer'[m][c] = answer[m][c]
  /\ GaveUp(m, c)' <=> GaveUp(m, c)
  /\ \A r \in Results : Has(m, c, r)' <=>
       Has(m, c, r) \/ (c \in game[m] /\ Ends(m, c, got) /\ r = Result(m, c, got))
AirPolled(m, n, c, got) ==
  LET sent == Pair[c] = {m, n} /\ IsDue(After(m, c, got)) IN
  IF n = m
  THEN (InAir(m, c)' => InAir(m, c)) /\ (Saying(m, c)' => Saying(m, c))
  ELSE /\ InAir(n, c)' <=> InAir(n, c) \/ sent
       /\ Saying(n, c)' => Saying(n, c) \/ (sent /\ After(m, c, got).found)
MissesPolled(m, c, got) ==
  misses' <= Losses =>
    misses' >= misses + (IF InAir(m, c) /\ ~Gets(got, c) THEN 1 ELSE 0)

-----------------------------------------------------------------------------
(* The two sides of a pair are each other's partner.                       *)
LEMMA Partners ==
  ASSUME NEW c \in Cookies, NEW m \in Pair[c]
  PROVE  /\ Partner(m, c) \in Pair[c] /\ Partner(m, c) # m
         /\ Pair[c] = {m, Partner(m, c)} /\ Partner(Partner(m, c), c) = m
         /\ m \in Machines /\ Partner(m, c) \in Machines
<1>1. Pair[c] \in SUBSET Machines /\ Cardinality(Pair[c]) = 2
  BY PairsAreTwo
<1>2. IsFiniteSet(Pair[c])
  BY <1>1, FS_Subset, MachinesAreFinite
<1>3. IsFiniteSet(Pair[c] \ {m}) /\ Cardinality(Pair[c] \ {m}) = 1
  BY <1>1, <1>2, FS_RemoveElement
<1>4. PICK p : Pair[c] \ {m} = {p}
  BY <1>3, FS_Singleton
<1>5. Pair[c] = {m, p} /\ p # m
  BY <1>4
<1>6. Partner(m, c) = p /\ Partner(p, c) = m
  BY <1>5 DEF Partner
<1> QED
  BY <1>1, <1>5, <1>6

(* Not more than two machines have a cookie: a third has another's.        *)
LEMMA OnlyPartner ==
  ASSUME NEW c \in Cookies, NEW m \in Machines, NEW n, Pair[c] = {m, n}
  PROVE  n # m /\ n = Partner(m, c)
<1>1. m \in Pair[c]
  OBVIOUS
<1> QED
  BY <1>1, Partners

(* What a message and a send do to a pairing (RendezvousTable::heard, due, *)
(* take_outcomes).                                                         *)
LEMMA Received ==
  ASSUME NEW p \in Pairing, p # NoPairing, p.reported = p.found,
         NEW flags \in SUBSET BOOLEAN
  PROVE  LET h == Heard(p, flags) IN
         /\ h \in Pairing /\ h # NoPairing /\ h.left = p.left
         /\ h.reported = p.found /\ h.told = p.told
         /\ h.found <=> p.found \/ flags # {}
         /\ h.heardUs <=> p.heardUs \/ TRUE \in flags
         /\ h.wait \in {0, p.wait}
<1> DEFINE h == Heard(p, flags)
<1>1. CASE flags = {}
  BY <1>1 DEF Heard
<1>2. CASE flags # {}
  <2>1. h = [p EXCEPT !.found = TRUE, !.wait = IF p.found THEN @ ELSE 0,
                      !.heardUs = @ \/ TRUE \in flags]
    BY <1>2 DEF Heard
  <2>2. 0 \in 0 .. ResendTicks
    BY TimesAreTicks
  <2>3. /\ h.found = TRUE /\ h.wait \in {0, p.wait} /\ h.left = p.left
        /\ h.heardUs = (p.heardUs \/ TRUE \in flags) /\ h.told = p.told
        /\ h.reported = p.found
    BY <2>1 DEF Pairing
  <2>4. h \in Pairing
    BY <2>1, <2>2 DEF Pairing
  <2>5. h # NoPairing
    BY <2>3 DEF NoPairing
  <2> QED
    BY <1>2, <2>3, <2>4, <2>5
<1> QED
  BY <1>1, <1>2

LEMMA Left_Of ==
  ASSUME NEW h \in Pairing, h # NoPairing, NEW found \in BOOLEAN, h.reported = found,
         found => h.found
  PROVE  LET s == Sent(h) IN
         /\ IsDue(h) <=> ~(h.heardUs /\ h.told) /\ h.wait = 0
         /\ Reports(s) <=> IF h.found THEN ~found ELSE h.left = 0
         /\ s.found = h.found
         /\ Stops(s) => h.found /\ h.heardUs
         /\ Left(s) \in Pairing
         /\ Left(s) = NoPairing <=> h.left = 0 \/ Stops(s)
         /\ Left(s) # NoPairing => /\ Left(s).left = h.left /\ Left(s).found = h.found
                                   /\ Left(s).reported = h.found
                                   /\ Left(s).heardUs = h.heardUs
                                   /\ Left(s).told => h.told \/ h.found
<1> DEFINE s == Sent(h)
<1>1. /\ s \in Pairing /\ s.left = h.left /\ s.found = h.found
      /\ s.reported = h.reported /\ s.heardUs = h.heardUs
      /\ s.told => h.told \/ h.found
  <2>1. CASE IsDue(h)
    <3>1. s = [h EXCEPT !.wait = ResendTicks, !.told = @ \/ h.found]
      BY <2>1 DEF Sent
    <3>2. ResendTicks \in 0 .. ResendTicks
      BY TimesAreTicks
    <3> HIDE DEF s
    <3> QED
      BY <3>1, <3>2 DEF Pairing
  <2>2. CASE ~IsDue(h)
    BY <2>2 DEF Sent
  <2> QED
    BY <2>1, <2>2
<1>2. s # NoPairing
  BY <1>1 DEF NoPairing, Pairing
<1>3. IsDue(h) <=> ~(h.heardUs /\ h.told) /\ h.wait = 0
  BY DEF IsDue
<1>4. Reports(s) <=> IF h.found THEN ~found ELSE h.left = 0
  BY <1>1, <1>2 DEF Reports, Expired
<1>5. Stops(s) => h.found /\ h.heardUs
  BY <1>1 DEF Stops
<1> DEFINE q == [s EXCEPT !.reported = s.found]
<1>6. /\ q \in Pairing /\ q.left = h.left /\ q.found = h.found /\ q.reported = h.found
      /\ q.heardUs = h.heardUs /\ q.told = s.told
  BY <1>1 DEF Pairing
<1>7. q # NoPairing
  BY <1>6 DEF NoPairing
<1>8. NoPairing \in Pairing
  BY TimesAreTicks DEF NoPairing, Pairing
<1>9. Left(s) = IF h.left = 0 \/ Stops(s) THEN NoPairing ELSE q
  BY <1>1 DEF Left, Expired
<1> HIDE DEF q, s
<1> QED
  BY <1>1, <1>3, <1>4, <1>5, <1>6, <1>7, <1>8, <1>9 DEF s

(* The outcomes of a poll, in the order that SetToSeq gives them.          *)
LEMMA AllInSequence ==
  ASSUME NEW S, IsFiniteSet(S)
  PROVE  /\ SetToSeq(S) \in Seq(S)
         /\ \A x : x \in S <=> \E i \in DOMAIN SetToSeq(S) : SetToSeq(S)[i] = x
<1> DEFINE n == Cardinality(S)
           I == {f \in [1 .. n -> S] : IsInjective(f)}
<1>1. n \in Nat /\ ExistsBijection(1 .. n, S)
  BY FS_CardinalityType
<1>2. \E f \in [1 .. n -> S] : IsInjective(f)
  BY <1>1 DEF ExistsBijection, Bijection, Injection, IsInjective
<1> DEFINE f == SetToSeq(S)
<1>3. f \in [1 .. n -> S] /\ IsInjective(f)
  BY <1>2 DEF SetToSeq
<1> HIDE DEF f
<1>4. f \in Injection(1 .. n, S)
  BY <1>3 DEF Injection, IsInjective
<1>5. IsFiniteSet(1 .. n) /\ Cardinality(1 .. n) = n
  BY <1>1, FS_Interval
<1>6. f \in Surjection(1 .. n, S)
  BY <1>4, <1>5, FS_Injection
<1>7. \A x \in S : \E i \in 1 .. n : f[i] = x
  BY <1>6 DEF Surjection
<1>8. f \in Seq(S) /\ DOMAIN f = 1 .. n
  BY <1>1, <1>3
<1> QED
  BY <1>3, <1>7, <1>8 DEF f

LEMMA MessagesAreFinite ==
  ASSUME NEW S \in SUBSET Message
  PROVE  IsFiniteSet(S) /\ Cardinality(S) \in Nat /\ (S # {} => Cardinality(S) >= 1)
<1> DEFINE T(b) == {x \in S : x.heard = b}
<1>1. ASSUME NEW b \in BOOLEAN
      PROVE  IsFiniteSet(T(b))
  <2> DEFINE f == [x \in T(b) |-> x.cookie]
  <2>1. f \in [T(b) -> Cookies]
    BY DEF Message
  <2>2. ASSUME NEW x \in T(b), NEW y \in T(b), f[x] = f[y]
        PROVE  x = y
    BY <2>2 DEF Message
  <2>3. f \in Injection(T(b), Cookies)
    BY <2>1, <2>2 DEF Injection, IsInjective
  <2> QED
    BY <2>3, FS_Injection, CookiesAreFinite
<1>2. S = T(TRUE) \cup T(FALSE)
  BY DEF Message
<1>3. IsFiniteSet(T(TRUE)) /\ IsFiniteSet(T(FALSE))
  BY <1>1
<1>4. IsFiniteSet(S)
  BY <1>2, <1>3, FS_Union
<1> QED
  BY <1>4, FS_CardinalityType, FS_EmptySet

LEMMA FreshIsNew ==
  /\ Fresh \in Pairing /\ Fresh # NoPairing /\ NoPairing \in Pairing
  /\ Fresh.left = PartnerTicks /\ Fresh.left # 0 /\ Fresh.wait = 0
  /\ ~Fresh.found /\ ~Fresh.reported /\ ~Fresh.heardUs /\ ~Fresh.told
BY TimesAreTicks DEF Fresh, NoPairing, Pairing

LEMMA PollOfRow ==
  ASSUME LanType, TableInv, NEW m \in Machines, NEW c \in Cookies,
         NEW got \in SUBSET air[m]
  PROVE  RowPolled(m, c, got)
<1> DEFINE b == Start(m, c)
           flags == {x.heard : x \in {y \in got : y.cookie = c}}
           h == After(m, c, got)
           k == Kept(m, c, got)
<1>1. got \in SUBSET Message
  BY DEF LanType
<1>2. /\ flags \in SUBSET BOOLEAN /\ (flags # {} <=> Gets(got, c))
      /\ TRUE \in flags => Hears(got, c)
  <2>1. flags \in SUBSET BOOLEAN
    BY <1>1 DEF Message
  <2>2. flags # {} <=> Gets(got, c)
    BY DEF Gets
  <2>3. ASSUME TRUE \in flags
        PROVE  Hears(got, c)
    <3>1. PICK x \in got : x.cookie = c /\ x.heard = TRUE
      BY <2>3
    <3>2. x \in Message
      BY <1>1
    <3>3. x = [cookie |-> c, heard |-> TRUE]
      BY <3>1, <3>2 DEF Message
    <3> QED
      BY <3>3 DEF Hears
  <2> QED
    BY <2>1, <2>2, <2>3
<1>3. /\ b \in Pairing
      /\ b # NoPairing => /\ b.reported = b.found
                          /\ b.heardUs \/ b.told => b.found
  <2>1. RowOk(m, c) /\ table[m][c] \in Pairing
    BY DEF TableInv, LanType
  <2>2. CASE c \in begun[m]
    <3>1. b = Fresh
      BY <2>2 DEF Start
    <3>2. b.reported = FALSE /\ b.found = FALSE
      BY <3>1 DEF Fresh
    <3> QED
      BY <3>1, <3>2, FreshIsNew
  <2>3. CASE c \notin begun[m]
    <3>1. b = table[m][c]
      BY <2>3 DEF Start
    <3> HIDE DEF b
    <3> QED
      BY <2>1, <3>1 DEF RowOk, Live
  <2> QED
    BY <2>2, <2>3
<1>4. h = Heard(b, flags)
  BY DEF After
<1> HIDE DEF flags, b, h, k
<1>5. CASE b = NoPairing
  <2>1. h = NoPairing
    BY <1>4, <1>5 DEF Heard
  <2>2. ~IsDue(h) /\ Sent(h) = NoPairing
    BY <2>1 DEF IsDue, Sent
  <2>3. ~Ends(m, c, got) /\ k = NoPairing
    BY <2>2 DEF Ends, Reports, k, h, Kept, Left, Expired, NoPairing
  <2>4. h.found \in BOOLEAN
    BY <2>1 DEF NoPairing
  <2> QED
    BY <1>5, <2>2, <2>3, <2>4, FreshIsNew DEF RowPolled, b, h, k
<1>6. CASE b # NoPairing
  <2>1. /\ h \in Pairing /\ h # NoPairing /\ h.left = b.left
        /\ h.reported = b.found /\ h.told = b.told
        /\ h.found <=> b.found \/ flags # {}
        /\ h.heardUs <=> b.heardUs \/ TRUE \in flags
        /\ h.wait \in {0, b.wait}
    BY <1>2, <1>3, <1>4, <1>6, Received
  <2>2. b.found \in BOOLEAN /\ h.found \in BOOLEAN
    BY <1>3, <2>1 DEF Pairing
  <2> DEFINE s == Sent(h)
  <2>3. /\ IsDue(h) <=> ~(h.heardUs /\ h.told) /\ h.wait = 0
        /\ Reports(s) <=> IF h.found THEN ~b.found ELSE h.left = 0
        /\ s.found = h.found
        /\ Stops(s) => h.found /\ h.heardUs
        /\ Left(s) \in Pairing
        /\ Left(s) = NoPairing <=> h.left = 0 \/ Stops(s)
        /\ Left(s) # NoPairing => /\ Left(s).left = h.left /\ Left(s).found = h.found
                                  /\ Left(s).reported = h.found
                                  /\ Left(s).heardUs = h.heardUs
                                  /\ Left(s).told => h.told \/ h.found
    BY <2>1, <2>2, Left_Of
  <2>4. k = Left(s) /\ (Ends(m, c, got) <=> Reports(s))
        /\ Result(m, c, got) = IF s.found THEN "paired" ELSE "deadbeat"
    BY DEF k, h, Kept, Ends, Result
  <2> HIDE DEF s
  <2>5. h.heardUs \/ h.told => h.found
    BY <1>2, <1>3, <1>6, <2>1
  <2>6. s.found = h.found
    BY <2>3
  <2> QED
    BY <1>2, <1>6, <2>1, <2>2, <2>3, <2>4, <2>5, <2>6 DEF RowPolled, b, h, k
<1> QED
  BY <1>5, <1>6

LEMMA PollInRows ==
  ASSUME LanType, TableInv, NEW m \in Machines, Poll(m)
  PROVE  \E got \in SUBSET air[m] : PollIs(m, got)
<1>1. PICK got \in SUBSET air[m], kept \in SUBSET air[m] :
        LET after == [c \in Cookies |-> After(m, c, got)]
            ready == {c \in Cookies : IsDue(after[c])}
            sent == [c \in Cookies |-> Sent(after[c])]
            out == {c \in Cookies : Reports(sent[c])}
            result(c) == IF sent[c].found THEN "paired" ELSE "deadbeat"
        IN
        /\ begun' = [begun EXCEPT ![m] = {}]
        /\ table' = [table EXCEPT ![m] = [c \in Cookies |-> Left(sent[c])]]
        /\ game' = [game EXCEPT ![m] = @ \ out]
        /\ ended' = [ended EXCEPT ![m] =
                       SetToSeq({[cookie |-> c, result |-> result(c)] :
                                   c \in out \cap game[m]}) \o @]
        /\ air' = [n \in Machines |->
                     (IF n = m THEN kept ELSE air[n]) \cup
                     {[cookie |-> c, heard |-> after[c].found] :
                        c \in {d \in ready : Pair[d] = {m, n}}}]
        /\ misses' = UpTo(Losses, misses + Cardinality(air[m] \ got))
        /\ polled' = polled \cup {m}
        /\ outcomes' = [outcomes EXCEPT ![m] =
                          [c \in Cookies |->
                             IF c \in out THEN UpTo(1, @[c] + 1) ELSE @[c]]]
        /\ UNCHANGED <<tries, gaveUp, gap, answer>>
  BY DEF Poll, After, Start
<1> DEFINE out == {c \in Cookies : Ends(m, c, got)}
           told == {[cookie |-> c, result |-> Result(m, c, got)] : c \in out \cap game[m]}
<1>2. /\ begun' = [begun EXCEPT ![m] = {}]
      /\ table' = [table EXCEPT ![m] = [c \in Cookies |-> Kept(m, c, got)]]
      /\ game' = [game EXCEPT ![m] = @ \ out]
      /\ ended' = [ended EXCEPT ![m] = SetToSeq(told) \o @]
      /\ air' = [n \in Machines |->
                   (IF n = m THEN kept ELSE air[n]) \cup Sends(m, n, got)]
      /\ misses' = UpTo(Losses, misses + Cardinality(air[m] \ got))
      /\ polled' = polled \cup {m}
      /\ outcomes' = [outcomes EXCEPT ![m] =
                        [c \in Cookies |->
                           IF Ends(m, c, got) THEN UpTo(1, @[c] + 1) ELSE @[c]]]
      /\ UNCHANGED <<tries, gaveUp, gap, answer>>
  BY <1>1 DEF Ends, Result, Kept, Sends
<1>3. told \subseteq Outcome
  BY DEF Outcome, Results, Result
<1>4. IsFiniteSet(told)
  <2> DEFINE f == [x \in told |-> x.cookie]
  <2>1. f \in [told -> Cookies]
    BY <1>3 DEF Outcome
  <2>2. f \in Injection(told, Cookies)
    BY <2>1 DEF Injection, IsInjective
  <2> QED
    BY <2>2, FS_Injection, CookiesAreFinite
<1> DEFINE q == SetToSeq(told)
<1>5. q \in Seq(told) /\ \A x : x \in told <=> \E i \in DOMAIN q : q[i] = x
  BY <1>4, AllInSequence
<1>6. q \in Seq(Outcome)
  BY <1>3, <1>5, SeqMonotonic
<1>7. game[m] \subseteq Cookies
  BY DEF LanType
<1>8. Told_By(m, got, q)
  BY <1>5, <1>7 DEF Told_By
<1>9. game' = [game EXCEPT ![m] = {c \in @ : ~Ends(m, c, got)}]
  BY <1>2, <1>7
<1> HIDE DEF q, told, out
<1>10. ended' = [ended EXCEPT ![m] = q \o @]
  BY <1>2 DEF q
<1> QED
  BY <1>2, <1>6, <1>8, <1>9, <1>10 DEF PollIs

LEMMA PollOfSide ==
  ASSUME LanType, TableInv, NEW m \in Machines, NEW got \in SUBSET air[m],
         PollIs(m, got), NEW c \in Cookies
  PROVE  SidePolled(m, c, got)
<1>1. RowPolled(m, c, got)
  BY PollOfRow
<1>2. c \notin begun'[m] /\ table'[m][c] = Kept(m, c, got)
  BY DEF PollIs, LanType
<1>3. c \in game'[m] <=> c \in game[m] /\ ~Ends(m, c, got)
  BY DEF PollIs, LanType
<1>4. /\ tries'[m][c] = tries[m][c] /\ answer'[m][c] = answer[m][c]
      /\ GaveUp(m, c)' <=> GaveUp(m, c)
  BY DEF PollIs, GaveUp
<1>5. ASSUME NEW r \in Results
      PROVE  Has(m, c, r)' <=>
               Has(m, c, r) \/ (c \in game[m] /\ Ends(m, c, got) /\ r = Result(m, c, got))
  <2>1. PICK q \in Seq(Outcome) :
          Told_By(m, got, q) /\ ended' = [ended EXCEPT ![m] = q \o @]
    BY DEF PollIs
  <2> DEFINE e == ended[m]  x == [cookie |-> c, result |-> r]
  <2>2. e \in Seq(Outcome) /\ ended'[m] = q \o e
    BY <2>1 DEF LanType
  <2> HIDE DEF e, x
  <2>3. (\E i \in DOMAIN (q \o e) : (q \o e)[i] = x) <=>
          (\E i \in DOMAIN q : q[i] = x) \/ (\E i \in DOMAIN e : e[i] = x)
    <3>1. /\ DOMAIN q = 1 .. Len(q) /\ DOMAIN e = 1 .. Len(e)
          /\ Len(q) \in Nat /\ Len(e) \in Nat /\ q \o e \in Seq(Outcome)
          /\ DOMAIN (q \o e) = 1 .. Len(q) + Len(e)
      BY <2>2, LenProperties, ConcatProperties
    <3>2. \A i \in 1 .. Len(q) + Len(e) :
            (q \o e)[i] = IF i <= Len(q) THEN q[i] ELSE e[i - Len(q)]
      BY <2>2, ConcatProperties
    <3>3. ASSUME NEW i \in DOMAIN q
          PROVE  i \in DOMAIN (q \o e) /\ (q \o e)[i] = q[i]
      BY <3>1, <3>2
    <3>4. ASSUME NEW i \in DOMAIN e
          PROVE  i + Len(q) \in DOMAIN (q \o e) /\ (q \o e)[i + Len(q)] = e[i]
      BY <3>1, <3>2
    <3>5. ASSUME NEW i \in DOMAIN (q \o e)
          PROVE  \/ i \in DOMAIN q /\ (q \o e)[i] = q[i]
                 \/ i - Len(q) \in DOMAIN e /\ (q \o e)[i] = e[i - Len(q)]
      BY <3>1, <3>2
    <3> QED
      BY <3>3, <3>4, <3>5
  <2>4. (\E i \in DOMAIN q : q[i] = x) <=>
          c \in game[m] /\ Ends(m, c, got) /\ r = Result(m, c, got)
    <3>1. (\E i \in DOMAIN q : q[i] = x) <=>
            \E d \in game[m] :
              Ends(m, d, got) /\ x = [cookie |-> d, result |-> Result(m, d, got)]
      BY <2>1 DEF Told_By
    <3>2. \A d : x = [cookie |-> d, result |-> Result(m, d, got)] <=>
            d = c /\ r = Result(m, d, got)
      BY DEF x
    <3> QED
      BY <3>1, <3>2
  <2> QED
    BY <2>2, <2>3, <2>4 DEF Has, e, x
<1> QED
  BY <1>1, <1>2, <1>3, <1>4, <1>5 DEF SidePolled

LEMMA PollOfOthers ==
  ASSUME LanType, NEW m \in Machines, NEW got \in SUBSET air[m],
         PollIs(m, got), NEW c \in Cookies, NEW n \in Machines, n # m
  PROVE  SideSame(n, c)
<1>1. ended'[n] = ended[n]
  BY DEF PollIs, LanType
<1>2. begun'[n] = begun[n] /\ game'[n] = game[n] /\ table'[n] = table[n]
  BY DEF PollIs, LanType
<1>3. tries' = tries /\ answer' = answer /\ gaveUp' = gaveUp
  BY DEF PollIs
<1>4. \A r \in Results : Has(n, c, r)' <=> Has(n, c, r)
  BY <1>1 DEF Has
<1> QED
  BY <1>2, <1>3, <1>4 DEF SideSame, GaveUp

LEMMA PollOfAir ==
  ASSUME LanType, NEW m \in Machines, NEW got \in SUBSET air[m],
         PollIs(m, got), NEW c \in Cookies, NEW n \in Machines
  PROVE  AirPolled(m, n, c, got)
<1>1. PICK kept \in SUBSET air[m] :
        air'[n] = (IF n = m THEN kept ELSE air[n]) \cup Sends(m, n, got)
  BY DEF PollIs
<1>2. CASE n = m
  <2>1. \A d \in Cookies : Pair[d] # {m, n}
    BY <1>2, OnlyPartner
  <2>2. Sends(m, n, got) = {}
    BY <2>1 DEF Sends
  <2>3. air'[m] \subseteq air[m]
    BY <1>1, <1>2, <2>2
  <2> QED
    BY <1>2, <2>3 DEF AirPolled, InAir, Saying
<1>3. CASE n # m
  <2> DEFINE sent == Pair[c] = {m, n} /\ IsDue(After(m, c, got))
             x == [cookie |-> c, heard |-> After(m, c, got).found]
  <2>1. air'[n] = air[n] \cup Sends(m, n, got)
    BY <1>1, <1>3
  <2>2. sent => x \in Sends(m, n, got)
    BY DEF Sends
  <2>3. \A y \in Sends(m, n, got) : y.cookie = c => sent /\ y = x
    BY DEF Sends
  <2>4. x.cookie = c /\ x.heard = After(m, c, got).found
    OBVIOUS
  <2>5. InAir(n, c)' <=> InAir(n, c) \/ sent
    BY <2>1, <2>2, <2>3, <2>4 DEF InAir
  <2>6. Saying(n, c)' => Saying(n, c) \/ (sent /\ After(m, c, got).found)
    BY <2>1, <2>3, <2>4 DEF Saying
  <2> QED
    BY <1>3, <2>5, <2>6 DEF AirPolled
<1> QED
  BY <1>2, <1>3

LEMMA Limited ==
  ASSUME NEW limit \in Nat, NEW n \in Nat
  PROVE  /\ UpTo(limit, n) \in Nat
         /\ UpTo(limit, n) <= limit => UpTo(limit, n) = n
BY DEF UpTo

LEMMA PollOfMisses ==
  ASSUME LanType, NEW m \in Machines, NEW got \in SUBSET air[m],
         PollIs(m, got), NEW c \in Cookies
  PROVE  MissesPolled(m, c, got) /\ misses' \in Nat
<1> DEFINE k == Cardinality(air[m] \ got)
<1>1. air[m] \ got \in SUBSET Message
  BY DEF LanType
<1>2. k \in Nat /\ (air[m] \ got # {} => k >= 1)
  BY <1>1, MessagesAreFinite
<1>3. InAir(m, c) /\ ~Gets(got, c) => air[m] \ got # {}
  BY DEF InAir, Gets
<1> HIDE DEF k
<1>4. misses' = UpTo(Losses, misses + k) /\ misses \in Nat
  BY DEF PollIs, LanType, k
<1>5. Losses \in Nat /\ misses + k \in Nat
  BY <1>2, <1>4, RendezvousBounds
<1>6. misses' \in Nat /\ (misses' <= Losses => misses' = misses + k)
  BY <1>4, <1>5, Limited
<1> QED
  BY <1>2, <1>3, <1>4, <1>6 DEF MissesPolled, k

LEMMA BeginOfSides ==
  ASSUME LanType, NEW n \in Machines, NEW d \in Cookies, Begin(n, d),
         NEW m \in Machines, NEW c \in Cookies
  PROVE  IF m = n /\ c = d THEN SideBegun(m, c) ELSE SideSame(m, c)
<1>1. \A r \in Results : Has(m, c, r)' <=> Has(m, c, r)
  BY DEF Begin, Has
<1>2. /\ begun \in [Machines -> SUBSET Cookies] /\ game \in [Machines -> SUBSET Cookies]
      /\ tries \in [Machines -> [Cookies -> Nat]]
      /\ answer \in [Machines -> [Cookies -> Results \cup {"none", "cancelled"}]]
  BY DEF LanType
<1>3. table'[m][c] = table[m][c]
  BY DEF Begin
<1>4. CASE m = n /\ c = d
  <2>1. c \in begun'[m] /\ c \in game'[m]
    BY <1>2, <1>4 DEF Begin
  <2>2. tries'[m][c] = tries[m][c] + 1 /\ answer'[m][c] = "none"
    BY <1>2, <1>4 DEF Begin
  <2>3. ~GaveUp(m, c)'
    BY <1>4 DEF Begin, GaveUp
  <2> QED
    BY <1>1, <1>3, <1>4, <2>1, <2>2, <2>3 DEF SideBegun
<1>5. CASE ~(m = n /\ c = d)
  <2>1. (c \in begun'[m] <=> c \in begun[m]) /\ (c \in game'[m] <=> c \in game[m])
    BY <1>2, <1>5 DEF Begin
  <2>2. tries'[m][c] = tries[m][c] /\ answer'[m][c] = answer[m][c]
    BY <1>2, <1>5 DEF Begin
  <2>3. GaveUp(m, c)' <=> GaveUp(m, c)
    <3>1. gaveUp' = gaveUp \ {<<n, d>>} /\ <<m, c>> # <<n, d>>
      BY <1>5 DEF Begin
    <3> QED
      BY <3>1 DEF GaveUp
  <2> QED
    BY <1>1, <1>3, <1>5, <2>1, <2>2, <2>3 DEF SideSame
<1> QED
  BY <1>4, <1>5

LEMMA CancelOfSides ==
  ASSUME LanType, NEW n \in Machines, NEW d \in Cookies, Cancel(n, d),
         NEW m \in Machines, NEW c \in Cookies
  PROVE  IF m = n /\ c = d THEN SideCancelled(m, c) ELSE SideSame(m, c)
<1>1. \A r \in Results : Has(m, c, r)' <=> Has(m, c, r)
  BY DEF Cancel, Has
<1>2. /\ begun \in [Machines -> SUBSET Cookies] /\ game \in [Machines -> SUBSET Cookies]
      /\ table \in [Machines -> [Cookies -> Pairing]]
      /\ answer \in [Machines -> [Cookies -> Results \cup {"none", "cancelled"}]]
  BY DEF LanType
<1>3. tries'[m][c] = tries[m][c]
  BY DEF Cancel, history
<1>4. CASE m = n /\ c = d
  <2>1. c \notin begun'[m] /\ table'[m][c] = NoPairing
    BY <1>2, <1>4 DEF Cancel
  <2>2. tries[m][c] > 0 /\ GaveUp(m, c)'
    BY <1>4 DEF Cancel, GaveUp
  <2> QED
    BY <1>3, <1>4, <2>1, <2>2 DEF SideCancelled
<1>5. CASE ~(m = n /\ c = d)
  <2>1. (c \in begun'[m] <=> c \in begun[m]) /\ (c \in game'[m] <=> c \in game[m])
    BY <1>2, <1>5 DEF Cancel
  <2>2. table'[m][c] = table[m][c] /\ answer'[m][c] = answer[m][c]
    BY <1>2, <1>5 DEF Cancel
  <2>3. GaveUp(m, c)' <=> GaveUp(m, c)
    <3>1. gaveUp' = gaveUp \cup {<<n, d>>} /\ <<m, c>> # <<n, d>>
      BY <1>5 DEF Cancel
    <3> QED
      BY <3>1 DEF GaveUp
  <2> QED
    BY <1>1, <1>3, <1>5, <2>1, <2>2, <2>3 DEF SideSame
<1> QED
  BY <1>4, <1>5

LEMMA AnswerOfSides ==
  ASSUME LanType, NEW n \in Machines, Answer(n),
         NEW m \in Machines, NEW c \in Cookies
  PROVE  SideAnswered(m, c) /\ (m # n => SideSame(m, c))
<1>1. /\ begun' = begun /\ game' = game /\ table' = table /\ tries' = tries
      /\ gaveUp' = gaveUp
  BY DEF Answer, history
<1>2. GaveUp(m, c)' <=> GaveUp(m, c)
  BY <1>1 DEF GaveUp
<1> DEFINE e == ended[n]  h == Head(ended[n])
<1>3. e \in Seq(Outcome) /\ e # <<>>
  BY DEF Answer, LanType
<1>4. ended' = [ended EXCEPT ![n] = Tail(e)]
      /\ answer' = [answer EXCEPT ![n][h.cookie] = h.result]
  BY DEF Answer
<1> HIDE DEF e
<1>5. h \in Outcome /\ h = e[1] /\ 1 \in DOMAIN e
  BY <1>3, HeadTailProperties, LenProperties, EmptySeq DEF e
<1>6. /\ Len(e) \in Nat /\ DOMAIN e = 1 .. Len(e)
      /\ Len(Tail(e)) = Len(e) - 1 /\ DOMAIN Tail(e) = 1 .. Len(e) - 1
      /\ \A i \in 1 .. Len(e) - 1 : Tail(e)[i] = e[i + 1]
  BY <1>3, HeadTailProperties, LenProperties
<1> HIDE DEF h
<1>7. CASE m # n
  <2>1. ended'[m] = ended[m] /\ answer'[m] = answer[m]
    BY <1>4, <1>7 DEF LanType
  <2>2. \A r \in Results : Has(m, c, r)' <=> Has(m, c, r)
    BY <2>1 DEF Has
  <2> QED
    BY <1>1, <1>2, <2>1, <2>2 DEF SideAnswered, SideSame
<1>8. CASE m = n
  <2>1. ended'[m] = Tail(e) /\ ended[m] = e
    BY <1>4, <1>8 DEF LanType, e
  <2>2. ASSUME NEW r \in Results, Has(m, c, r)'
        PROVE  Has(m, c, r)
    <3>1. PICK i \in 1 .. Len(e) - 1 : Tail(e)[i] = [cookie |-> c, result |-> r]
      BY <1>6, <2>1, <2>2 DEF Has
    <3>2. i + 1 \in DOMAIN e /\ e[i + 1] = [cookie |-> c, result |-> r]
      BY <1>6, <3>1
    <3> QED
      BY <2>1, <3>2 DEF Has
  <2>3. CASE h.cookie = c
    <3>1. answer'[m][c] = h.result /\ h.result \in Results
      BY <1>4, <1>5, <1>8, <2>3 DEF LanType, Outcome
    <3>2. h = [cookie |-> c, result |-> h.result]
      BY <1>5, <2>3 DEF Outcome
    <3>3. Has(m, c, h.result)
      BY <1>5, <2>1, <3>2 DEF Has
    <3> QED
      BY <1>1, <1>2, <1>8, <2>2, <3>1, <3>3 DEF SideAnswered
  <2>4. CASE h.cookie # c
    <3>1. answer'[m][c] = answer[m][c]
      BY <1>4, <1>5, <1>8, <2>4 DEF LanType
    <3>2. ASSUME NEW r \in Results, Has(m, c, r)
          PROVE  Has(m, c, r)'
      <4>1. PICK i \in DOMAIN e : e[i] = [cookie |-> c, result |-> r]
        BY <2>1, <3>2 DEF Has
      <4>2. i # 1
        BY <1>5, <2>4, <4>1
      <4>3. i - 1 \in 1 .. Len(e) - 1 /\ Tail(e)[i - 1] = e[i]
        BY <1>6, <4>1, <4>2
      <4> QED
        BY <1>6, <2>1, <4>1, <4>3 DEF Has
    <3> QED
      BY <1>1, <1>2, <1>8, <2>2, <3>1, <3>2 DEF SideAnswered
  <2> QED
    BY <2>3, <2>4
<1> QED
  BY <1>7, <1>8

LEMMA TickOfSides ==
  ASSUME LanType, Tick, NEW m \in Machines, NEW c \in Cookies
  PROVE  SideAged(m, c)
<1>1. \A r \in Results : Has(m, c, r)' <=> Has(m, c, r)
  BY DEF Tick, Has
<1>2. table'[m][c] = Aged(table[m][c])
  BY DEF Tick, Aged
<1>3. begun' = begun /\ game' = game /\ tries' = tries /\ answer' = answer
  BY DEF Tick
<1>4. GaveUp(m, c)' <=> GaveUp(m, c)
  BY DEF Tick, GaveUp
<1> QED
  BY <1>1, <1>2, <1>3, <1>4 DEF SideAged

LEMMA AgeOfRow ==
  ASSUME NEW p \in Pairing, p # NoPairing => (p.heardUs => p.found)
  PROVE  LET q == Aged(p) IN
         /\ q \in Pairing
         /\ q = NoPairing <=> p = NoPairing
         /\ q.left = Less(p.left) /\ q.wait = Less(p.wait) /\ q.found = p.found
         /\ q.reported = p.reported /\ q.heardUs = p.heardUs /\ q.told = p.told
<1> DEFINE q == Aged(p)
<1>1. /\ q.left = Less(p.left) /\ q.wait = Less(p.wait) /\ q.found = p.found
      /\ q.reported = p.reported /\ q.heardUs = p.heardUs /\ q.told = p.told
  BY DEF Pairing, Aged
<1>2. Less(p.left) \in 0 .. PartnerTicks /\ Less(p.wait) \in 0 .. ResendTicks
  BY TimesAreTicks DEF Pairing, Less
<1>3. q \in Pairing
  BY <1>2 DEF Pairing, Aged
<1> HIDE DEF q
<1>4. ASSUME p = NoPairing
      PROVE  q = NoPairing
  <2>1. p.left = 0 /\ p.wait = 0
    BY <1>4 DEF NoPairing
  <2>2. q.left = p.left /\ q.wait = p.wait
    BY <1>1, <2>1 DEF Less
  <2>3. \A x, y \in Pairing :
          /\ x.left = y.left /\ x.wait = y.wait /\ x.found = y.found
          /\ x.reported = y.reported /\ x.heardUs = y.heardUs /\ x.told = y.told
          => x = y
    BY DEF Pairing
  <2>4. q = p
    BY <1>1, <1>3, <2>2, <2>3
  <2> QED
    BY <1>4, <2>4
<1>5. ASSUME p # NoPairing
      PROVE  q # NoPairing
  <2>1. ~(p.heardUs /\ ~p.found)
    BY <1>5
  <2> QED
    BY <1>1, <2>1 DEF NoPairing
<1> QED
  BY <1>1, <1>3, <1>4, <1>5 DEF q

LEMMA TypeInit == Init => LanType
<1> SUFFICES ASSUME Init
             PROVE  LanType
  OBVIOUS
<1>1. table \in [Machines -> [Cookies -> Pairing]]
  BY FreshIsNew DEF Init
<1>2. ended \in [Machines -> Seq(Outcome)]
  BY DEF Init
<1> QED
  BY <1>1, <1>2 DEF Init, LanType

(* The type invariant, one step per action.                                *)
LEMMA TypeStep == LanType /\ TableInv /\ [Next]_vars => LanType'
<1> SUFFICES ASSUME LanType, TableInv, [Next]_vars
             PROVE  LanType'
  OBVIOUS
<1>1. ASSUME NEW m \in Machines, Poll(m)
      PROVE  LanType'
  <2>1. PICK got \in SUBSET air[m] : PollIs(m, got)
    BY <1>1, PollInRows
  <2>2. begun' \in [Machines -> SUBSET Cookies] /\ game' \in [Machines -> SUBSET Cookies]
    BY <2>1 DEF PollIs, LanType
  <2>3. table' \in [Machines -> [Cookies -> Pairing]]
    <3>1. \A c \in Cookies : Kept(m, c, got) \in Pairing
      BY PollOfRow DEF RowPolled
    <3>2. [c \in Cookies |-> Kept(m, c, got)] \in [Cookies -> Pairing]
      BY <3>1
    <3> QED
      BY <2>1, <3>2 DEF PollIs, LanType
  <2>4. ended' \in [Machines -> Seq(Outcome)]
    <3>1. PICK q \in Seq(Outcome) : ended' = [ended EXCEPT ![m] = q \o @]
      BY <2>1 DEF PollIs
    <3>2. ended \in [Machines -> Seq(Outcome)] /\ q \o ended[m] \in Seq(Outcome)
      BY ConcatProperties DEF LanType
    <3> QED
      BY <3>1, <3>2
  <2>5. air' \in [Machines -> SUBSET Message]
    <3>1. PICK kept \in SUBSET air[m] :
            air' = [n \in Machines |->
                      (IF n = m THEN kept ELSE air[n]) \cup Sends(m, n, got)]
      BY <2>1 DEF PollIs
    <3>2. ASSUME NEW n \in Machines
          PROVE  Sends(m, n, got) \subseteq Message
      <4>1. \A c \in Cookies : After(m, c, got).found \in BOOLEAN
        BY PollOfRow DEF RowPolled
      <4> QED
        BY <4>1 DEF Sends, Message
    <3> QED
      BY <3>1, <3>2 DEF LanType
  <2>6. misses' \in Nat
    <3>1. air[m] \ got \in SUBSET Message /\ misses \in Nat /\ Losses \in Nat
      BY RendezvousBounds DEF LanType
    <3>2. Cardinality(air[m] \ got) \in Nat
      BY <3>1, MessagesAreFinite
    <3>3. misses + Cardinality(air[m] \ got) \in Nat
      BY <3>1, <3>2
    <3> QED
      BY <2>1, <3>1, <3>3, Limited DEF PollIs
  <2>7. /\ polled' \subseteq Machines /\ gap' \in [Cookies -> Nat]
        /\ tries' \in [Machines -> [Cookies -> Nat]]
        /\ answer' \in [Machines -> [Cookies -> Results \cup {"none", "cancelled"}]]
    BY <2>1 DEF PollIs, LanType
  <2> QED
    BY <2>2, <2>3, <2>4, <2>5, <2>6, <2>7 DEF LanType
<1>2. ASSUME NEW m \in Machines, Answer(m)
      PROVE  LanType'
  <2>1. ended[m] \in Seq(Outcome) /\ ended[m] # <<>>
    BY <1>2 DEF Answer, LanType
  <2>2. Head(ended[m]) \in Outcome /\ Tail(ended[m]) \in Seq(Outcome)
    BY <2>1, HeadTailProperties
  <2>3. ended' \in [Machines -> Seq(Outcome)]
    BY <1>2, <2>2 DEF Answer, LanType
  <2>4. answer' \in [Machines -> [Cookies -> Results \cup {"none", "cancelled"}]]
    BY <1>2, <2>2 DEF Answer, LanType, Outcome
  <2> QED
    BY <1>2, <2>3, <2>4 DEF Answer, LanType, history
<1>3. ASSUME NEW m \in Machines, NEW c \in Cookies, Begin(m, c)
      PROVE  LanType'
  <2>1. /\ begun' \in [Machines -> SUBSET Cookies] /\ game' \in [Machines -> SUBSET Cookies]
        /\ tries' \in [Machines -> [Cookies -> Nat]]
    BY <1>3 DEF Begin, LanType
  <2>2. answer' \in [Machines -> [Cookies -> Results \cup {"none", "cancelled"}]]
    BY <1>3 DEF Begin, LanType
  <2> QED
    BY <1>3, <2>1, <2>2 DEF Begin, LanType
<1>4. ASSUME NEW m \in Machines, NEW c \in Cookies, Cancel(m, c)
      PROVE  LanType'
  <2>1. /\ begun' \in [Machines -> SUBSET Cookies] /\ game' \in [Machines -> SUBSET Cookies]
        /\ table' \in [Machines -> [Cookies -> Pairing]]
    BY <1>4, FreshIsNew DEF Cancel, LanType
  <2>2. answer' \in [Machines -> [Cookies -> Results \cup {"none", "cancelled"}]]
    BY <1>4 DEF Cancel, LanType
  <2> QED
    BY <1>4, <2>1, <2>2 DEF Cancel, LanType, history
<1>5. CASE Tick
  <2>1. ASSUME NEW m \in Machines, NEW c \in Cookies
        PROVE  Aged(table[m][c]) \in Pairing
    <3>1. /\ table[m][c] \in Pairing
          /\ table[m][c] # NoPairing => (table[m][c].heardUs => table[m][c].found)
      BY DEF LanType, TableInv, RowOk, Live
    <3> QED
      BY <3>1, AgeOfRow
  <2>2. table' \in [Machines -> [Cookies -> Pairing]]
    <3>1. table' = [m \in Machines |-> [c \in Cookies |-> Aged(table[m][c])]]
      BY <1>5 DEF Tick, Aged
    <3> QED
      BY <2>1, <3>1
  <2>3. gap' \in [Cookies -> Nat]
    <3>1. ASSUME NEW c \in Cookies
          PROVE  gap[c] \in Nat /\ UpTo(Slack, gap[c] + 1) \in Nat
      <4>1. gap[c] \in Nat /\ Slack \in Nat
        BY RendezvousBounds DEF LanType
      <4>2. gap[c] + 1 \in Nat
        BY <4>1
      <4> QED
        BY <4>1, <4>2, Limited
    <3> QED
      BY <1>5, <3>1 DEF Tick
  <2>4. misses' \in Nat
    <3>1. IsFiniteSet(Machines \ polled)
      BY MachinesAreFinite, FS_Subset
    <3>2. Cardinality(Machines \ polled) \in Nat /\ misses \in Nat /\ Losses \in Nat
      BY <3>1, FS_CardinalityType, RendezvousBounds DEF LanType
    <3>3. misses + Cardinality(Machines \ polled) \in Nat
      BY <3>2
    <3> QED
      BY <1>5, <3>2, <3>3, Limited DEF Tick
  <2> QED
    BY <1>5, <2>2, <2>3, <2>4 DEF Tick, LanType
<1>6. CASE UNCHANGED vars
  BY <1>6 DEF LanType, vars, side, history
<1> QED
  BY <1>1, <1>2, <1>3, <1>4, <1>5, <1>6 DEF Next

-----------------------------------------------------------------------------
LEMMA TableStep == LanType /\ TableInv /\ [Next]_vars => TableInv'
<1> SUFFICES ASSUME LanType, TableInv, [Next]_vars,
                    NEW m \in Machines, NEW c \in Cookies
             PROVE  RowOk(m, c)'
  BY DEF TableInv
<1>1. RowOk(m, c)
  BY DEF TableInv
<1>2. ASSUME NEW n \in Machines, Poll(n)
      PROVE  RowOk(m, c)'
  <2>1. PICK got \in SUBSET air[n] : PollIs(n, got)
    BY <1>2, PollInRows
  <2>2. AirPolled(n, m, c, got)
    BY <2>1, PollOfAir
  <2>3. CASE m = n
    <3>1. SidePolled(m, c, got)
      BY <2>1, <2>3, PollOfSide
    <3>2. Live(m, c)' => Start(m, c) # NoPairing /\ RowOk(m, c)
      BY <1>1, <3>1 DEF SidePolled, RowPolled, Live
    <3>3. Live(m, c)' =>
            /\ table'[m][c].reported = table'[m][c].found
            /\ table'[m][c].heardUs \/ table'[m][c].told => table'[m][c].found
      BY <3>1, <3>2 DEF SidePolled, RowPolled, Live
    <3>4. Live(m, c)' => c \in begun[m] \/ Live(m, c)
      BY <3>2 DEF Start, Live
    <3>5. c \notin begun'[m] /\ (InAir(m, c)' => InAir(m, c))
      BY <2>2, <2>3, <3>1 DEF SidePolled, AirPolled
    <3> QED
      BY <1>1, <3>3, <3>4, <3>5 DEF RowOk
  <2>4. CASE m # n
    <3>1. SideSame(m, c)
      BY <2>1, <2>4, PollOfOthers
    <3>2. InAir(m, c)' => InAir(m, c) \/ m \in Pair[c]
      BY <2>2, <2>4 DEF AirPolled
    <3> QED
      BY <1>1, <3>1, <3>2 DEF RowOk, SideSame, Live
  <2> QED
    BY <2>3, <2>4
<1>3. ASSUME NEW n \in Machines, Answer(n)
      PROVE  RowOk(m, c)'
  <2>1. SideAnswered(m, c) /\ air' = air
    BY <1>3, AnswerOfSides DEF Answer
  <2> QED
    BY <1>1, <2>1 DEF RowOk, SideAnswered, Live, InAir
<1>4. ASSUME NEW n \in Machines, NEW d \in Cookies, Begin(n, d)
      PROVE  RowOk(m, c)'
  <2>1. /\ IF m = n /\ c = d THEN SideBegun(m, c) ELSE SideSame(m, c)
        /\ air' = air /\ n \in Pair[d]
    BY <1>4, BeginOfSides DEF Begin
  <2> QED
    BY <1>1, <2>1 DEF RowOk, SideBegun, SideSame, Live, InAir
<1>5. ASSUME NEW n \in Machines, NEW d \in Cookies, Cancel(n, d)
      PROVE  RowOk(m, c)'
  <2>1. /\ IF m = n /\ c = d THEN SideCancelled(m, c) ELSE SideSame(m, c)
        /\ air' = air
    BY <1>5, CancelOfSides DEF Cancel
  <2> QED
    BY <1>1, <2>1 DEF RowOk, SideCancelled, SideSame, Live, InAir
<1>6. CASE Tick
  <2>1. SideAged(m, c) /\ air' = air
    BY <1>6, TickOfSides DEF Tick
  <2>2. /\ table[m][c] \in Pairing
        /\ table[m][c] # NoPairing => (table[m][c].heardUs => table[m][c].found)
    BY <1>1 DEF LanType, RowOk, Live
  <2> DEFINE q == table'[m][c]  p == table[m][c]
  <2>3. /\ q = NoPairing <=> p = NoPairing
        /\ q.found = p.found /\ q.reported = p.reported
        /\ q.heardUs = p.heardUs /\ q.told = p.told
    BY <2>1, <2>2, AgeOfRow DEF SideAged
  <2> QED
    BY <1>1, <2>1, <2>3 DEF RowOk, SideAged, Live, InAir
<1>7. CASE UNCHANGED vars
  BY <1>1, <1>7 DEF RowOk, Live, InAir, vars, side
<1> QED
  BY <1>2, <1>3, <1>4, <1>5, <1>6, <1>7 DEF Next

-----------------------------------------------------------------------------
(* What happens to a side that waits, has found its partner or has not.    *)
LEMMA SameKeeps ==
  ASSUME NEW m \in Machines, NEW c \in Cookies, SideSame(m, c)
  PROVE  /\ Live(m, c)' <=> Live(m, c)
         /\ StillWaits(m, c)' <=> StillWaits(m, c)
         /\ HasFound(m, c)' <=> HasFound(m, c)
         /\ HasLost(m, c)' <=> HasLost(m, c)
<1>1. (Live(m, c)' <=> Live(m, c)) /\ (Waits(m, c)' <=> Waits(m, c))
  BY DEF SideSame, Live, Waits
<1>2. \A r \in Results : Told(m, c, r)' <=> Told(m, c, r)
  BY DEF SideSame, Told
<1>3. StillWaits(m, c)' <=> StillWaits(m, c)
  BY <1>1 DEF SideSame, StillWaits
<1>4. "paired" \in Results /\ "deadbeat" \in Results
  BY DEF Results
<1> QED
  BY <1>1, <1>2, <1>3, <1>4 DEF HasFound, HasLost

LEMMA PollKeeps ==
  ASSUME NEW m \in Machines, NEW c \in Cookies, NEW got, SidePolled(m, c, got)
  PROVE  /\ HasFound(m, c) => HasFound(m, c)'
         /\ HasLost(m, c) => HasLost(m, c)'
<1> DEFINE b == Start(m, c)
<1>1. ASSUME ~Waits(m, c)
      PROVE  /\ ~Waits(m, c)' /\ (~Live(m, c) => ~Live(m, c)')
             /\ \A r \in Results : Told(m, c, r) => Told(m, c, r)'
  <2>1. b = table[m][c] /\ (b # NoPairing => b.found)
    BY <1>1 DEF Waits, Live, Start
  <2>2. ~Ends(m, c, got)
    BY <2>1 DEF SidePolled, RowPolled
  <2>3. ~Waits(m, c)' /\ (~Live(m, c) => ~Live(m, c)')
    BY <2>1 DEF SidePolled, RowPolled, Waits, Live
  <2>4. \A r \in Results : Has(m, c, r)' <=> Has(m, c, r)
    BY <2>2 DEF SidePolled
  <2>5. answer'[m][c] = answer[m][c]
    BY DEF SidePolled
  <2> QED
    BY <2>3, <2>4, <2>5 DEF Told
<1>2. "paired" \in Results /\ "deadbeat" \in Results
  BY DEF Results
<1> QED
  BY <1>1, <1>2 DEF HasFound, HasLost

LEMMA PollOfWaiting ==
  ASSUME NEW m \in Machines, NEW c \in Cookies, NEW got, SidePolled(m, c, got),
         StillWaits(m, c)
  PROVE  /\ Gets(got, c) => HasFound(m, c)'
         /\ ~Gets(got, c) /\ Start(m, c).left = 0 => HasLost(m, c)'
         /\ ~Gets(got, c) /\ Start(m, c).left # 0 =>
              StillWaits(m, c)' /\ Live(m, c)' /\ table'[m][c].left = Start(m, c).left
<1> DEFINE b == Start(m, c)  h == After(m, c, got)  k == Kept(m, c, got)
<1>1. b # NoPairing /\ ~b.found
  BY FreshIsNew DEF StillWaits, Waits, Live, Start
<1>2. /\ c \in game[m] /\ answer[m][c] = "none" /\ \A r \in Results : ~Has(m, c, r)
      /\ answer'[m][c] = answer[m][c]
  BY DEF StillWaits, SidePolled
<1>3. /\ h.found <=> Gets(got, c)
      /\ Ends(m, c, got) <=> h.found \/ b.left = 0
      /\ Result(m, c, got) = IF h.found THEN "paired" ELSE "deadbeat"
      /\ b.left = 0 => k = NoPairing
      /\ k = NoPairing => b.left = 0 \/ h.found
      /\ k # NoPairing => k.left = b.left /\ k.found = h.found
  BY <1>1 DEF SidePolled, RowPolled
<1> HIDE DEF b, h, k
<1>4. c \notin begun'[m] /\ table'[m][c] = k
  BY DEF SidePolled, k
<1>5. \A r \in Results : Has(m, c, r)' <=> Ends(m, c, got) /\ r = Result(m, c, got)
  BY <1>2 DEF SidePolled
<1>6. "paired" \in Results /\ "deadbeat" \in Results
  BY DEF Results
<1>7. CASE h.found
  <2>1. ~Waits(m, c)'
    BY <1>3, <1>4, <1>7 DEF Waits, Live
  <2>2. Told(m, c, "paired")'
    BY <1>2, <1>3, <1>5, <1>6, <1>7 DEF Told
  <2> QED
    BY <1>3, <1>7, <2>1, <2>2 DEF HasFound
<1>8. CASE ~h.found /\ b.left = 0
  <2>1. ~Waits(m, c)' /\ ~Live(m, c)'
    BY <1>3, <1>4, <1>8 DEF Waits, Live
  <2>2. Told(m, c, "deadbeat")'
    BY <1>2, <1>3, <1>5, <1>6, <1>8 DEF Told
  <2> QED
    BY <1>3, <1>8, <2>1, <2>2 DEF HasLost, b
<1>9. CASE ~h.found /\ b.left # 0
  <2>1. ~Ends(m, c, got) /\ k # NoPairing
    BY <1>3, <1>9
  <2>2. c \in game'[m]
    BY <1>2, <2>1 DEF SidePolled
  <2>3. StillWaits(m, c)'
    BY <1>2, <1>3, <1>4, <1>5, <1>9, <2>1, <2>2 DEF StillWaits, Waits, Live
  <2> QED
    BY <1>3, <1>4, <1>9, <2>1, <2>3 DEF b, Live
<1> QED
  BY <1>7, <1>8, <1>9

LEMMA AnswerKeeps ==
  ASSUME NEW m \in Machines, NEW c \in Cookies, SideAnswered(m, c)
  PROVE  /\ StillWaits(m, c) => StillWaits(m, c)'
         /\ HasFound(m, c) => HasFound(m, c)'
         /\ HasLost(m, c) => HasLost(m, c)'
<1>1. (Live(m, c)' <=> Live(m, c)) /\ (Waits(m, c)' <=> Waits(m, c))
  BY DEF SideAnswered, Live, Waits
<1>2. \A r \in Results : Told(m, c, r) => Told(m, c, r)'
  BY DEF SideAnswered, Told
<1>3. StillWaits(m, c) => StillWaits(m, c)'
  BY <1>1 DEF SideAnswered, StillWaits
<1>4. "paired" \in Results /\ "deadbeat" \in Results
  BY DEF Results
<1> QED
  BY <1>1, <1>2, <1>3, <1>4 DEF HasFound, HasLost

LEMMA TickKeeps ==
  ASSUME LanType, TableInv, NEW m \in Machines, NEW c \in Cookies, SideAged(m, c)
  PROVE  /\ Live(m, c)' <=> Live(m, c)
         /\ table'[m][c].left = Less(table[m][c].left)
         /\ table'[m][c].wait = Less(table[m][c].wait)
         /\ table'[m][c].heardUs = table[m][c].heardUs
         /\ StillWaits(m, c)' <=> StillWaits(m, c)
         /\ HasFound(m, c)' <=> HasFound(m, c)
         /\ HasLost(m, c)' <=> HasLost(m, c)
<1> DEFINE p == table[m][c]  q == table'[m][c]
<1>1. p \in Pairing /\ (p # NoPairing => (p.heardUs => p.found)) /\ q = Aged(p)
  BY DEF LanType, TableInv, RowOk, Live, SideAged
<1>2. /\ q = NoPairing <=> p = NoPairing
      /\ q.left = Less(p.left) /\ q.wait = Less(p.wait) /\ q.found = p.found
      /\ q.heardUs = p.heardUs
  BY <1>1, AgeOfRow
<1>3. (Live(m, c)' <=> Live(m, c)) /\ (Waits(m, c)' <=> Waits(m, c))
  BY <1>2 DEF SideAged, Live, Waits
<1>4. \A r \in Results : Told(m, c, r)' <=> Told(m, c, r)
  BY DEF SideAged, Told
<1>5. StillWaits(m, c)' <=> StillWaits(m, c)
  BY <1>3 DEF SideAged, StillWaits
<1>6. "paired" \in Results /\ "deadbeat" \in Results
  BY DEF Results
<1> QED
  BY <1>2, <1>3, <1>4, <1>5, <1>6 DEF HasFound, HasLost

LEMMA FoundStays ==
  ASSUME LanType, TableInv, [Next]_vars, NEW c \in Cookies, NEW m \in Machines,
         HasFound(m, c), tries'[m][c] = tries[m][c], ~GaveUp(m, c)'
  PROVE  HasFound(m, c)'
<1>1. ASSUME NEW n \in Machines, Poll(n)
      PROVE  HasFound(m, c)'
  <2>1. PICK got \in SUBSET air[n] : PollIs(n, got)
    BY <1>1, PollInRows
  <2>2. CASE m = n
    BY <2>1, <2>2, PollOfSide, PollKeeps
  <2>3. CASE m # n
    BY <2>1, <2>3, PollOfOthers, SameKeeps
  <2> QED
    BY <2>2, <2>3
<1>2. ASSUME NEW n \in Machines, Answer(n)
      PROVE  HasFound(m, c)'
  BY <1>2, AnswerOfSides, AnswerKeeps
<1>3. ASSUME NEW n \in Machines, NEW d \in Cookies, Begin(n, d)
      PROVE  HasFound(m, c)'
  <2>1. tries[m][c] \in Nat
    BY DEF LanType
  <2>2. ~SideBegun(m, c)
    BY <2>1 DEF SideBegun
  <2> QED
    BY <1>3, <2>2, BeginOfSides, SameKeeps
<1>4. ASSUME NEW n \in Machines, NEW d \in Cookies, Cancel(n, d)
      PROVE  HasFound(m, c)'
  <2>1. ~SideCancelled(m, c)
    BY DEF SideCancelled
  <2> QED
    BY <1>4, <2>1, CancelOfSides, SameKeeps
<1>5. CASE Tick
  BY <1>5, TickOfSides, TickKeeps
<1>6. CASE UNCHANGED vars
  BY <1>6 DEF HasFound, Waits, Live, Told, Has, vars, side
<1> QED
  BY <1>1, <1>2, <1>3, <1>4, <1>5, <1>6 DEF Next

(* Nobody hears of a side that has not begun.                              *)
LEMMA SilentBefore ==
  ASSUME LanType, TableInv, [Next]_vars, NEW c \in Cookies, NEW m \in Pair[c],
         NotBegun(m, c)
  PROVE  ~InAir(Partner(m, c), c)'
<1> DEFINE p == Partner(m, c)
<1>1. p \in Machines /\ m \in Machines /\ p # m /\ ~InAir(p, c)
  BY Partners DEF NotBegun
<1>2. ASSUME NEW n \in Machines, Poll(n)
      PROVE  ~InAir(p, c)'
  <2>1. PICK got \in SUBSET air[n] : PollIs(n, got)
    BY <1>2, PollInRows
  <2>2. AirPolled(n, p, c, got)
    BY <1>1, <2>1, PollOfAir
  <2>3. CASE p = n
    BY <1>1, <2>2, <2>3 DEF AirPolled
  <2>4. CASE p # n
    <3>1. SUFFICES ASSUME Pair[c] = {n, p} /\ IsDue(After(n, c, got))
                   PROVE  FALSE
      BY <1>1, <2>2, <2>4 DEF AirPolled
    <3>2. n = m
      BY <1>1, <3>1, Partners
    <3>3. Start(m, c) = NoPairing
      BY DEF NotBegun, Start, Live
    <3>4. SidePolled(m, c, got)
      BY <2>1, <3>2, PollOfSide
    <3> QED
      BY <3>1, <3>2, <3>3, <3>4 DEF SidePolled, RowPolled
  <2> QED
    BY <2>3, <2>4
<1>3. CASE air' = air
  BY <1>1, <1>3 DEF InAir
<1> QED
  BY <1>2, <1>3 DEF Next, Answer, Begin, Cancel, Tick, vars

LEMMA SideStep == LanType /\ TableInv /\ SideInv /\ [Next]_vars => SideInv'
<1> SUFFICES ASSUME LanType, TableInv, SideInv, [Next]_vars,
                    NEW c \in Cookies, NEW m \in Pair[c]
             PROVE  SideOk(m, c)'
  BY DEF SideInv
<1>1. SideOk(m, c) /\ m \in Machines /\ tries[m][c] \in Nat
  <2>1. m \in Machines
    BY Partners
  <2>2. SideOk(m, c)
    BY DEF SideInv
  <2> QED
    BY <2>1, <2>2 DEF LanType
<1>2. NotBegun(m, c) => ~InAir(Partner(m, c), c)'
  BY SilentBefore
<1>3. SideSame(m, c) => SideOk(m, c)'
  <2> SUFFICES ASSUME SideSame(m, c)
               PROVE  SideOk(m, c)'
    OBVIOUS
  <2>1. NotBegun(m, c) => NotBegun(m, c)'
    BY <1>2, SameKeeps, <1>1 DEF SideSame, NotBegun
  <2>2. tries'[m][c] = tries[m][c] /\ (GaveUp(m, c)' <=> GaveUp(m, c))
    BY DEF SideSame
  <2> QED
    BY <1>1, <2>1, <2>2, SameKeeps DEF SideOk
<1>4. ASSUME NEW n \in Machines, Poll(n)
      PROVE  SideOk(m, c)'
  <2>1. PICK got \in SUBSET air[n] : PollIs(n, got)
    BY <1>4, PollInRows
  <2>2. CASE m = n
    <3>1. SidePolled(m, c, got)
      BY <1>1, <2>1, <2>2, PollOfSide
    <3>2. NotBegun(m, c) => NotBegun(m, c)'
      <4> SUFFICES ASSUME NotBegun(m, c)
                   PROVE  NotBegun(m, c)'
        OBVIOUS
      <4>1. Start(m, c) = NoPairing
        BY DEF NotBegun, Start, Live
      <4>2. ~Live(m, c)' /\ ~Ends(m, c, got)
        BY <3>1, <4>1 DEF SidePolled, RowPolled, Live
      <4> QED
        BY <1>2, <3>1, <4>2 DEF NotBegun, SidePolled
    <3>3. tries'[m][c] = tries[m][c] /\ (GaveUp(m, c)' <=> GaveUp(m, c))
      BY <3>1 DEF SidePolled
    <3>4. StillWaits(m, c) => StillWaits(m, c)' \/ HasFound(m, c)' \/ HasLost(m, c)'
      BY <1>1, <3>1, PollOfWaiting
    <3>5. /\ HasFound(m, c) => HasFound(m, c)'
          /\ HasLost(m, c) => HasLost(m, c)'
      BY <1>1, <3>1, PollKeeps
    <3> QED
      BY <1>1, <3>2, <3>3, <3>4, <3>5 DEF SideOk
  <2>3. CASE m # n
    BY <1>1, <1>3, <2>1, <2>3, PollOfOthers
  <2> QED
    BY <2>2, <2>3
<1>5. ASSUME NEW n \in Machines, Answer(n)
      PROVE  SideOk(m, c)'
  <2>1. SideAnswered(m, c)
    BY <1>1, <1>5, AnswerOfSides
  <2>2. NotBegun(m, c) => NotBegun(m, c)'
    BY <1>2, <2>1 DEF SideAnswered, NotBegun, Live
  <2>3. tries'[m][c] = tries[m][c] /\ (GaveUp(m, c)' <=> GaveUp(m, c))
    BY <2>1 DEF SideAnswered
  <2> QED
    BY <1>1, <2>1, <2>2, <2>3, AnswerKeeps DEF SideOk
<1>6. ASSUME NEW n \in Machines, NEW d \in Cookies, Begin(n, d)
      PROVE  SideOk(m, c)'
  <2>1. CASE m = n /\ c = d
    <3>1. SideBegun(m, c)
      BY <1>1, <1>6, <2>1, BeginOfSides
    <3>2. tries'[m][c] = tries[m][c] + 1
      BY <3>1 DEF SideBegun
    <3>3. ASSUME NotBegun(m, c)
          PROVE  StillWaits(m, c)'
      BY <3>1, <3>3 DEF SideBegun, NotBegun, StillWaits, Waits, Live
    <3> QED
      BY <1>1, <3>2, <3>3 DEF SideOk
  <2>2. CASE ~(m = n /\ c = d)
    BY <1>1, <1>3, <1>6, <2>2, BeginOfSides
  <2> QED
    BY <2>1, <2>2
<1>7. ASSUME NEW n \in Machines, NEW d \in Cookies, Cancel(n, d)
      PROVE  SideOk(m, c)'
  <2>1. CASE m = n /\ c = d
    <3>1. SideCancelled(m, c)
      BY <1>1, <1>7, <2>1, CancelOfSides
    <3> QED
      BY <1>1, <3>1 DEF SideCancelled, SideOk
  <2>2. CASE ~(m = n /\ c = d)
    BY <1>1, <1>3, <1>7, <2>2, CancelOfSides
  <2> QED
    BY <2>1, <2>2
<1>8. CASE Tick
  <2>1. SideAged(m, c)
    BY <1>1, <1>8, TickOfSides
  <2>2. NotBegun(m, c) => NotBegun(m, c)'
    BY <1>1, <1>2, <2>1, TickKeeps DEF SideAged, NotBegun
  <2>3. tries'[m][c] = tries[m][c] /\ (GaveUp(m, c)' <=> GaveUp(m, c))
    BY <2>1 DEF SideAged
  <2> QED
    BY <1>1, <2>1, <2>2, <2>3, TickKeeps DEF SideOk
<1>9. CASE UNCHANGED vars
  <2>1. SideSame(m, c)
    BY <1>9 DEF SideSame, GaveUp, Has, vars, side, history
  <2> QED
    BY <1>3, <2>1
<1> QED
  BY <1>4, <1>5, <1>6, <1>7, <1>8, <1>9 DEF Next

(* A side that has begun once and not given up was so before, or begins.   *)
LEMMA Earlier ==
  ASSUME LanType, SideInv, [Next]_vars, NEW c \in Cookies, NEW m \in Pair[c],
         tries'[m][c] <= 1, ~GaveUp(m, c)'
  PROVE  /\ tries[m][c] <= 1 /\ ~GaveUp(m, c)
         /\ tries'[m][c] = tries[m][c] \/ (tries[m][c] = 0 /\ SideBegun(m, c))
<1>1. m \in Machines
  BY Partners
<1>2. tries[m][c] \in Nat
  BY <1>1 DEF LanType
<1>3. SideOk(m, c)
  BY DEF SideInv
<1>4. CASE tries' = tries /\ gaveUp' = gaveUp
  BY <1>4 DEF GaveUp
<1>5. CASE SideSame(m, c)
  BY <1>5 DEF SideSame
<1>6. CASE SideBegun(m, c)
  <2>1. tries[m][c] = 0
    BY <1>2, <1>6 DEF SideBegun
  <2> QED
    BY <1>3, <1>6, <2>1 DEF SideOk, NotBegun
<1>7. ASSUME NEW n \in Machines, NEW d \in Cookies, Begin(n, d)
      PROVE  SideSame(m, c) \/ SideBegun(m, c)
  BY <1>1, <1>7, BeginOfSides
<1>8. ASSUME NEW n \in Machines, NEW d \in Cookies, Cancel(n, d)
      PROVE  SideSame(m, c)
  <2>1. ~SideCancelled(m, c)
    BY DEF SideCancelled
  <2> QED
    BY <1>1, <1>8, <2>1, CancelOfSides
<1>9. \/ tries' = tries /\ gaveUp' = gaveUp
      \/ \E n \in Machines, d \in Cookies : Begin(n, d) \/ Cancel(n, d)
  BY DEF Next, Poll, Answer, Tick, vars, history
<1> QED
  BY <1>4, <1>5, <1>6, <1>7, <1>8, <1>9

LEMMA HeardStep ==
  LanType /\ TableInv /\ SideInv /\ HeardInv /\ [Next]_vars => HeardInv'
<1> SUFFICES ASSUME LanType, TableInv, SideInv, HeardInv, [Next]_vars,
                    NEW c \in Cookies, NEW m \in Pair[c]
             PROVE  HeardOk(m, c)'
  BY DEF HeardInv
<1> DEFINE p == Partner(m, c)
           Is == Saying(p, c) \/ (Live(p, c) /\ table[p][c].heardUs)
<1>1. SUFFICES ASSUME tries'[m][c] <= 1, ~GaveUp(m, c)', Is'
               PROVE  tries'[m][c] = 1 /\ HasFound(m, c)'
  BY DEF HeardOk
<1>2. /\ p \in Pair[c] /\ p # m /\ Pair[c] = {m, p}
      /\ m \in Machines /\ p \in Machines
  BY Partners
<1>3. SideOk(m, c) /\ HeardOk(m, c) /\ tries[m][c] \in Nat
  <2>1. SideOk(m, c) /\ HeardOk(m, c)
    BY DEF SideInv, HeardInv
  <2> QED
    BY <1>2, <2>1 DEF LanType
<1>4. /\ tries[m][c] <= 1 /\ ~GaveUp(m, c)
      /\ tries'[m][c] = tries[m][c] \/ (tries[m][c] = 0 /\ SideBegun(m, c))
  BY <1>1, Earlier
<1>5. CASE Is
  <2>1. tries[m][c] = 1 /\ HasFound(m, c)
    BY <1>3, <1>4, <1>5 DEF HeardOk
  <2>2. tries'[m][c] = 1
    BY <1>4, <2>1
  <2> QED
    BY <1>1, <1>2, <2>1, <2>2, FoundStays
<1> HIDE DEF p
<1>6. ASSUME NEW n \in Machines, Poll(n), ~Is
      PROVE  tries'[m][c] = 1 /\ HasFound(m, c)'
  <2>1. PICK got \in SUBSET air[n] : PollIs(n, got)
    BY <1>6, PollInRows
  <2>2. AirPolled(n, p, c, got)
    BY <1>2, <2>1, PollOfAir
  <2>3. CASE n = p
    <3>1. SidePolled(p, c, got)
      BY <1>2, <2>1, <2>3, PollOfSide
    <3>2. ~Hears(got, c) /\ ~Saying(p, c)'
      BY <1>6, <2>1, <2>2, <2>3 DEF AirPolled, Hears, Saying
    <3>3. Live(p, c)' /\ table'[p][c].heardUs
      BY <1>1, <3>2
    <3>4. Start(p, c) # NoPairing /\ Start(p, c).heardUs
      BY <3>1, <3>2, <3>3 DEF SidePolled, RowPolled, Live
    <3> QED
      BY <1>6, <3>4, FreshIsNew DEF Start, Live
  <2>4. CASE n # p
    <3>1. SideSame(p, c)
      BY <1>2, <2>1, <2>4, PollOfOthers
    <3>2. Saying(p, c)'
      BY <1>1, <1>6, <3>1 DEF SideSame, Live
    <3>3. Pair[c] = {n, p} /\ IsDue(After(n, c, got)) /\ After(n, c, got).found
      BY <1>6, <2>2, <2>4, <3>2 DEF AirPolled
    <3>4. n = m
      BY <1>2, <2>4, <3>3
    <3>5. SidePolled(m, c, got)
      BY <1>2, <2>1, <3>4, PollOfSide
    <3>6. Start(m, c) # NoPairing /\ (Start(m, c).found \/ Gets(got, c))
      BY <3>3, <3>4, <3>5 DEF SidePolled, RowPolled
    <3>7. tries[m][c] # 0
      BY <1>3, <3>6 DEF SideOk, NotBegun, Start, Live
    <3>8. ~HasLost(m, c)
      BY <3>6 DEF HasLost, Waits, Start, Live
    <3>9. tries[m][c] = 1 /\ tries'[m][c] = 1 /\ (StillWaits(m, c) \/ HasFound(m, c))
      BY <1>3, <1>4, <3>7, <3>8 DEF SideOk
    <3>10. StillWaits(m, c) => Gets(got, c)
      BY <3>6, FreshIsNew DEF StillWaits, Waits, Start, Live
    <3> QED
      BY <1>2, <3>5, <3>9, <3>10, PollKeeps, PollOfWaiting
  <2> QED
    BY <2>3, <2>4
<1>7. CASE ~(\E n \in Machines : Poll(n))
  <2>1. air' = air
    BY <1>7 DEF Next, Answer, Begin, Cancel, Tick, vars
  <2>2. ASSUME Live(p, c)', table'[p][c].heardUs
        PROVE  Live(p, c) /\ table[p][c].heardUs
    <3>1. CASE SideSame(p, c) \/ SideBegun(p, c) \/ SideAnswered(p, c)
      BY <2>2, <3>1 DEF SideSame, SideBegun, SideAnswered, Live
    <3>2. CASE SideCancelled(p, c)
      BY <2>2, <3>2 DEF SideCancelled, Live
    <3>3. CASE SideAged(p, c)
      BY <1>2, <2>2, <3>3, TickKeeps
    <3>4. CASE table' = table
      BY <2>2, <3>4 DEF Live
    <3>5. \/ SideSame(p, c) \/ SideBegun(p, c) \/ SideAnswered(p, c)
          \/ SideCancelled(p, c) \/ SideAged(p, c) \/ table' = table
      <4>1. ASSUME NEW n \in Machines, NEW d \in Cookies, Begin(n, d)
            PROVE  SideSame(p, c) \/ SideBegun(p, c)
        BY <1>2, <4>1, BeginOfSides
      <4>2. ASSUME NEW n \in Machines, NEW d \in Cookies, Cancel(n, d)
            PROVE  SideSame(p, c) \/ SideCancelled(p, c)
        BY <1>2, <4>2, CancelOfSides
      <4>3. ASSUME NEW n \in Machines, Answer(n)
            PROVE  SideAnswered(p, c)
        BY <1>2, <4>3, AnswerOfSides
      <4>4. Tick => SideAged(p, c)
        BY <1>2, TickOfSides
      <4> QED
        BY <1>7, <4>1, <4>2, <4>3, <4>4 DEF Next, vars, side
    <3> QED
      BY <3>1, <3>2, <3>3, <3>4, <3>5
  <2>3. Is
    BY <1>1, <2>1, <2>2 DEF Saying
  <2> QED
    BY <1>5, <2>3
<1> QED
  BY <1>5, <1>6, <1>7

-----------------------------------------------------------------------------
LEMMA InvInit == Init => LanInv
<1> SUFFICES ASSUME Init
             PROVE  LanInv
  OBVIOUS
<1>1. /\ begun = [m \in Machines |-> {}] /\ air = [m \in Machines |-> {}]
      /\ table = [m \in Machines |-> [c \in Cookies |-> NoPairing]]
      /\ ended = [m \in Machines |-> <<>>]
      /\ tries = [m \in Machines |-> [c \in Cookies |-> 0]]
      /\ answer = [m \in Machines |-> [c \in Cookies |-> "none"]]
      /\ gaveUp = {}
  BY DEF Init
<1>2. ASSUME NEW m \in Machines, NEW c \in Cookies
      PROVE  /\ c \notin begun[m] /\ ~Live(m, c) /\ ~InAir(m, c) /\ ~Saying(m, c)
             /\ tries[m][c] = 0 /\ answer[m][c] = "none" /\ ~GaveUp(m, c)
             /\ \A r \in Results : ~Has(m, c, r)
  BY <1>1 DEF Live, InAir, Saying, GaveUp, Has
<1>3. TableInv
  BY <1>2 DEF TableInv, RowOk
<1>4. ASSUME NEW c \in Cookies, NEW m \in Pair[c]
      PROVE  SideOk(m, c) /\ HeardOk(m, c)
  <2>1. m \in Machines /\ Partner(m, c) \in Machines
    BY Partners
  <2>2. NotBegun(m, c)
    BY <1>2, <2>1 DEF NotBegun
  <2>3. ~Saying(Partner(m, c), c) /\ ~Live(Partner(m, c), c) /\ tries[m][c] = 0
    BY <1>2, <2>1
  <2> QED
    BY <2>2, <2>3 DEF SideOk, HeardOk
<1> QED
  BY <1>3, <1>4, TypeInit DEF LanInv, SideInv, HeardInv

LEMMA InvStep == LanInv /\ [Next]_vars => LanInv'
BY TypeStep, TableStep, SideStep, HeardStep DEF LanInv

(* A table holds pairings only for those that were given the cookie, and   *)
(* each side of a pair waits, has found its partner or has lost it.        *)
THEOREM LanInvariant == Spec => []LanInv
BY InvInit, InvStep, PTL DEF Spec

-----------------------------------------------------------------------------
(* A beginning whose end was reported is not about to begin, and what the  *)
(* table keeps of it has found its partner and said so (TableInv).         *)
OnceOk(m, c) ==
  /\ outcomes[m][c] \in {0, 1}
  /\ outcomes[m][c] = 1 =>
       c \notin begun[m] /\ (Live(m, c) => table[m][c].found)
OnceInv ==
  /\ outcomes \in [Machines -> [Cookies -> Nat]]
  /\ \A m \in Machines, c \in Cookies : OnceOk(m, c)

LEMMA OnceStep == LanInv /\ OnceInv /\ [Next]_vars => OnceInv'
<1> SUFFICES ASSUME LanInv, OnceInv, [Next]_vars PROVE OnceInv'
  OBVIOUS
<1> USE DEF LanInv, LanType, OnceInv
<1>1. ASSUME NEW m \in Machines, Poll(m) PROVE OnceInv'
  <2>1. PICK got \in SUBSET air[m] : PollIs(m, got)
    BY <1>1, PollInRows
  <2>2. \A c \in Cookies :
          outcomes'[m][c] = IF Ends(m, c, got) THEN UpTo(1, outcomes[m][c] + 1)
                            ELSE outcomes[m][c]
    BY <2>1 DEF PollIs
  <2>3. \A c \in Cookies : ~Ends(m, c, got) \/ outcomes[m][c] = 0
    <3> SUFFICES ASSUME NEW c \in Cookies, Ends(m, c, got), outcomes[m][c] = 1
                 PROVE  FALSE
      BY DEF OnceOk
    <3>1. RowPolled(m, c, got) /\ Start(m, c) = table[m][c]
      BY <2>1, PollOfRow DEF OnceOk, Start
    <3> QED
      BY <3>1 DEF RowPolled, OnceOk, Live
  <2>4. ASSUME NEW c \in Cookies PROVE OnceOk(m, c)'
    <3>1. RowPolled(m, c, got) /\ c \notin begun'[m]
          /\ table'[m][c] = Kept(m, c, got)
      BY <2>1, PollOfRow DEF PollIs
    <3>2. outcomes'[m][c] = IF Ends(m, c, got) THEN 1 ELSE outcomes[m][c]
      BY <2>2, <2>3 DEF UpTo
    <3>3. outcomes'[m][c] \in {0, 1}
      BY <3>2 DEF OnceOk
    <3>4. CASE Ends(m, c, got)
      BY <3>1, <3>3, <3>4 DEF OnceOk, Live, RowPolled
    <3>5. CASE ~Ends(m, c, got)
      <4>1. outcomes[m][c] = 1 => Start(m, c) = table[m][c]
        BY DEF OnceOk, Start
      <4> QED
        BY <3>1, <3>2, <3>3, <3>5, <4>1 DEF OnceOk, Live, RowPolled
    <3> QED
      BY <3>4, <3>5
  <2>5. ASSUME NEW n \in Machines \ {m}, NEW c \in Cookies PROVE OnceOk(n, c)'
    BY <2>1 DEF PollIs, OnceOk, Live
  <2>6. outcomes' \in [Machines -> [Cookies -> Nat]]
    BY <2>1 DEF PollIs, UpTo
  <2> QED
    BY <2>4, <2>5, <2>6
<1>2. ASSUME NEW m \in Machines, Answer(m) PROVE OnceInv'
  BY <1>2 DEF Answer, OnceOk, Live
<1>3. ASSUME NEW m \in Machines, NEW c \in Cookies, Begin(m, c) PROVE OnceInv'
  BY <1>3 DEF Begin, OnceOk, Live
<1>4. ASSUME NEW m \in Machines, NEW c \in Cookies, Cancel(m, c) PROVE OnceInv'
  BY <1>4 DEF Cancel, OnceOk, Live
<1>5. CASE Tick
  <2>1. outcomes' = outcomes /\ begun' = begun
    BY <1>5 DEF Tick
  <2>2. ASSUME NEW m \in Machines, NEW c \in Cookies
        PROVE  /\ Live(m, c)' => Live(m, c)
               /\ table'[m][c].found = table[m][c].found
    <3>1. table'[m][c] = Aged(table[m][c]) /\ table[m][c] \in Pairing
      BY <1>5, TickOfSides DEF SideAged
    <3>2. Live(m, c) => (table[m][c].heardUs => table[m][c].found)
      BY DEF TableInv, RowOk
    <3> QED
      BY <3>1, <3>2, AgeOfRow DEF Live
  <2> QED
    BY <2>1, <2>2 DEF OnceOk
<1>6. CASE UNCHANGED vars
  BY <1>6 DEF vars, side, history, OnceOk, Live
<1> QED
  BY <1>1, <1>2, <1>3, <1>4, <1>5, <1>6 DEF Next

(* "Each pairing's end, reported once" (lan_rendezvous.hpp): the table     *)
(* never tells two ends of one beginning, a partner and then a timeout     *)
(* among them.                                                             *)
THEOREM EndsAreReportedOnce == Spec => []ReportedOnce
<1>1. Init => OnceInv
  BY DEF Init, OnceInv, OnceOk
<1>2. OnceInv => ReportedOnce
  BY DEF OnceInv, OnceOk, ReportedOnce, Sides
<1> QED
  BY <1>1, <1>2, OnceStep, LanInvariant, PTL DEF Spec

(* A side whose pairing ends in time has heard that its partner found it.  *)
LEMMA StopsOnWord ==
  ASSUME LanInv, [Next]_vars, NEW c \in Cookies, NEW m \in Pair[c],
         Live(m, c), table[m][c].left > 0, ~Live(m, c)', ~GaveUp(m, c)'
  PROVE  Saying(m, c) \/ table[m][c].heardUs
<1>1. m \in Machines /\ LanType /\ TableInv
  BY Partners DEF LanInv
<1>2. ASSUME Poll(m)
      PROVE  Saying(m, c) \/ table[m][c].heardUs
  <2>1. PICK got \in SUBSET air[m] : PollIs(m, got)
    BY <1>1, <1>2, PollInRows
  <2>2. SidePolled(m, c, got)
    BY <1>1, <2>1, PollOfSide
  <2>3. Start(m, c) # NoPairing /\ Start(m, c).left # 0
    <3>1. table[m][c].left # 0
      OBVIOUS
    <3> QED
      BY <3>1, FreshIsNew DEF Start, Live
  <2>4. Start(m, c).heardUs \/ Hears(got, c)
    BY <2>2, <2>3 DEF SidePolled, RowPolled, Live
  <2>5. Hears(got, c) => Saying(m, c)
    BY <2>1 DEF Hears, Saying
  <2> QED
    BY <2>4, <2>5, FreshIsNew DEF Start
<1>3. ASSUME NEW n \in Machines, Poll(n), n # m
      PROVE  FALSE
  <2>1. PICK got \in SUBSET air[n] : PollIs(n, got)
    BY <1>1, <1>3, PollInRows
  <2> QED
    BY <1>1, <1>3, <2>1, PollOfOthers, SameKeeps
<1>4. ASSUME NEW n \in Machines, NEW d \in Cookies, Begin(n, d) \/ Cancel(n, d)
      PROVE  FALSE
  <2>1. ~SideBegun(m, c) /\ ~SideCancelled(m, c)
    BY DEF SideBegun, SideCancelled, Live
  <2>2. SideSame(m, c)
    BY <1>1, <1>4, <2>1, BeginOfSides, CancelOfSides
  <2> QED
    BY <1>1, <2>2, SameKeeps
<1>5. ~Tick
  BY <1>1, TickOfSides, TickKeeps
<1>6. table' # table
  BY DEF Live
<1> QED
  BY <1>2, <1>3, <1>4, <1>5, <1>6 DEF Next, Answer, vars, side

(* A side that stops before its time is up leaves no partner behind: its   *)
(* partner has found it too (RendezvousTable::take_outcomes,               *)
(* lan_rendezvous.cpp).                                                    *)
THEOREM StopsOnlyWhenKnown == Spec => StopsWhenKnown
<1> DEFINE Safe == \A mc \in Sides : LET m == mc[1] c == mc[2] IN
             /\ table[m][c] # NoPairing /\ table[m][c].left > 0
             /\ table'[m][c] = NoPairing
             /\ Alone(c)'
             => Knows(Partner(m, c), c)
<1>1. LanInv /\ [Next]_vars => [Safe]_vars
  <2> SUFFICES ASSUME LanInv, [Next]_vars, NEW mc \in Sides,
                      table[mc[1]][mc[2]] # NoPairing, table[mc[1]][mc[2]].left > 0,
                      table'[mc[1]][mc[2]] = NoPairing, Alone(mc[2])'
               PROVE  Knows(Partner(mc[1], mc[2]), mc[2])
    OBVIOUS
  <2> DEFINE m == mc[1]  c == mc[2]  p == Partner(m, c)
  <2>1. m \in Pair[c] /\ c \in Cookies
    BY DEF Sides
  <2> HIDE DEF m, c
  <2>2. p \in Pair[c] /\ Partner(p, c) = m
    BY <2>1, Partners
  <2>3. \A n \in Pair[c] : tries'[n][c] <= 1 /\ ~GaveUp(n, c)'
    BY DEF Alone, GaveUp, c
  <2>4. Saying(m, c) \/ (Live(m, c) /\ table[m][c].heardUs)
    BY <2>1, <2>3, StopsOnWord DEF Live, m, c
  <2>5. tries[p][c] <= 1 /\ ~GaveUp(p, c)
    BY <2>1, <2>2, <2>3, Earlier DEF LanInv
  <2>6. HeardOk(p, c)
    BY <2>1, <2>2 DEF LanInv, HeardInv
  <2>7. Told(p, c, "paired")
    BY <2>2, <2>4, <2>5, <2>6 DEF HeardOk, HasFound
  <2> QED
    BY <2>7 DEF Told, Has, Knows, m, c
<1>2. Spec => [][Safe]_vars
  BY LanInvariant, <1>1, PTL DEF Spec
<1> QED
  BY <1>2 DEF StopsWhenKnown

-----------------------------------------------------------------------------
(* A machine that has not polled in this tick is due to send.              *)
LEMMA WaitStep ==
  ASSUME Timely, LanType, TableInv, WaitInv, [Next]_vars
  PROVE  WaitInv'
<1> SUFFICES ASSUME NEW m \in Machines, NEW c \in Cookies, m \notin polled'
             PROVE  table'[m][c].wait = 0
  BY DEF WaitInv, Sleeps
<1>1. m \notin polled => table[m][c].wait = 0
  BY DEF WaitInv, Sleeps
<1>2. ASSUME NEW n \in Machines, Poll(n)
      PROVE  table'[m][c].wait = 0
  <2>1. PICK got \in SUBSET air[n] : PollIs(n, got)
    BY <1>2, PollInRows
  <2>2. m # n /\ m \notin polled
    BY <2>1 DEF PollIs
  <2>3. SideSame(m, c)
    BY <2>1, <2>2, PollOfOthers
  <2> QED
    BY <1>1, <2>2, <2>3 DEF SideSame
<1>3. CASE Tick
  <2>1. table'[m][c].wait = Less(table[m][c].wait)
    BY <1>3, TickOfSides, TickKeeps
  <2>2. table[m][c].wait \in 0 .. 1
    BY DEF LanType, Pairing, Timely
  <2> QED
    BY <2>1, <2>2 DEF Less
<1>4. CASE polled' = polled /\ table' = table
  BY <1>1, <1>4
<1>5. ASSUME NEW n \in Machines, NEW d \in Cookies, Cancel(n, d)
      PROVE  table'[m][c].wait = 0
  <2>1. polled' = polled
    BY <1>5 DEF Cancel
  <2>2. SideSame(m, c) \/ SideCancelled(m, c)
    BY <1>5, CancelOfSides
  <2> QED
    BY <1>1, <2>1, <2>2 DEF SideSame, SideCancelled, NoPairing
<1> QED
  BY <1>2, <1>3, <1>4, <1>5 DEF Next, Answer, Begin, vars, side

(* The numbers that a bound is made of.                                    *)
LEMMA Numbers ==
  ASSUME LanType, NEW c \in Cookies, NEW m \in Machines
  PROVE  /\ gap[c] \in Nat /\ misses \in Nat /\ Slack \in Nat /\ Losses \in Nat
         /\ PartnerTicks \in Nat /\ tries[m][c] \in Nat
         /\ table[m][c].left \in 0 .. PartnerTicks
         /\ Age(m, c) \in 0 .. PartnerTicks /\ Lag(m, c) \in 0 .. 2
<1>1. table[m][c] \in Pairing
  BY DEF LanType
<1>2. table[m][c].left \in 0 .. PartnerTicks /\ PartnerTicks \in Nat
  BY <1>1, TimesAreTicks DEF Pairing
<1>3. Age(m, c) \in 0 .. PartnerTicks
  BY <1>2 DEF Age
<1> QED
  BY <1>2, <1>3, RendezvousBounds DEF LanType, Lag

(* A pair that is spared still was so before, and no less was missed.      *)
Before(c, m) ==
  LET p == Partner(m, c) IN
  /\ Alone(c) /\ SideOk(m, c) /\ SideOk(p, c)
  /\ \A n \in {m, p} :
       /\ tries[n][c] \in {0, 1} /\ ~GaveUp(n, c)
       /\ tries'[n][c] = tries[n][c] \/ (tries[n][c] = 0 /\ SideBegun(n, c))

LEMMA SparedBefore ==
  ASSUME LanInv, [Next]_vars, NEW c \in Cookies, NEW m \in Pair[c], Alone(c)'
  PROVE  Before(c, m)
<1> DEFINE p == Partner(m, c)
<1>1. p \in Pair[c] /\ Pair[c] = {m, p} /\ m \in Machines /\ p \in Machines
  BY Partners
<1>2. ASSUME NEW n \in Pair[c]
      PROVE  /\ SideOk(n, c) /\ tries[n][c] \in {0, 1} /\ ~GaveUp(n, c)
             /\ tries'[n][c] = tries[n][c] \/ (tries[n][c] = 0 /\ SideBegun(n, c))
  <2>1. tries'[n][c] <= 1 /\ ~GaveUp(n, c)'
    BY DEF Alone, GaveUp
  <2>2. /\ tries[n][c] <= 1 /\ ~GaveUp(n, c)
        /\ tries'[n][c] = tries[n][c] \/ (tries[n][c] = 0 /\ SideBegun(n, c))
    BY <2>1, Earlier DEF LanInv
  <2>3. tries[n][c] \in Nat
    BY <1>1 DEF LanInv, LanType
  <2>4. SideOk(n, c)
    BY DEF LanInv, SideInv
  <2> QED
    BY <2>2, <2>3, <2>4
<1>3. Alone(c)
  <2>1. ASSUME NEW n \in Pair[c]
        PROVE  tries[n][c] <= 1 /\ <<n, c>> \notin gaveUp
    BY <1>2 DEF GaveUp
  <2> QED
    BY <2>1 DEF Alone
<1> QED
  BY <1>1, <1>2, <1>3 DEF Before

(* A step that neither changes a pair nor has it miss less.                *)
Quiet(m, c) ==
  LET p == Partner(m, c) IN
  /\ tries'[m][c] = tries[m][c] /\ tries'[p][c] = tries[p][c]
  /\ StillWaits(m, c) => StillWaits(m, c)'
  /\ HasFound(m, c) => HasFound(m, c)'
  /\ Age(m, c)' = Age(m, c) /\ Age(p, c)' = Age(p, c)
  /\ c \in begun[p] \/ Live(p, c) => c \in begun'[p] \/ Live(p, c)'
  /\ InAir(m, c)' <=> InAir(m, c)
  /\ m \in polled' <=> m \in polled
  /\ p \in polled' <=> p \in polled
  /\ gap'[c] = gap[c] /\ misses' >= misses

LEMMA PairQuiet ==
  ASSUME LanInv, LanInv', PairInv, NEW c \in Cookies, NEW m \in Pair[c],
         Spared(c)', Before(c, m), Quiet(m, c)
  PROVE  PairOk(m, c)'
<1> DEFINE p == Partner(m, c)
<1> SUFFICES ASSUME tries'[m][c] = 1
             PROVE  /\ StillWaits(m, c)' \/ HasFound(m, c)'
                    /\ tries'[p][c] = 0 => StillWaits(m, c)' /\ Age(m, c)' <= gap'[c]
                    /\ tries'[p][c] # 0 /\ StillWaits(m, c)' => InTime(m, c)'
  BY DEF PairOk
<1>1. m \in Machines /\ p \in Machines
  BY Partners
<1>2. /\ gap[c] \in Nat /\ misses \in Nat /\ Slack \in Nat /\ Losses \in Nat
      /\ misses' \in Nat
      /\ Age(m, c) \in 0 .. PartnerTicks /\ Age(p, c) \in 0 .. PartnerTicks
      /\ PartnerTicks \in Nat /\ Lag(m, c) \in 0 .. 2
  BY <1>1, Numbers DEF LanInv, LanType
<1>3. Spared(c)
  BY <1>2 DEF Spared, Before, Quiet
<1>4. /\ StillWaits(m, c) \/ HasFound(m, c)
      /\ tries[p][c] = 0 => StillWaits(m, c) /\ Age(m, c) <= gap[c]
      /\ tries[p][c] # 0 /\ StillWaits(m, c) => InTime(m, c)
  BY <1>3 DEF PairInv, PairOk, Quiet
<1>5. StillWaits(m, c)' => ~HasFound(m, c)'
  BY DEF StillWaits, HasFound
<1>6. InTime(m, c) => InTime(m, c)'
  <2>1. Lag(m, c)' = Lag(m, c)
    BY DEF Quiet, Lag
  <2>2. Bound(m, c)' >= Bound(m, c) /\ Bound(m, c) \in Nat /\ Bound(m, c)' \in Nat
    BY <1>2, <2>1 DEF Bound, Quiet
  <2>3. misses = Losses => misses' = Losses
    BY <1>2 DEF Quiet, Spared
  <2> QED
    BY <1>2, <2>2, <2>3 DEF InTime, Quiet
<1> QED
  BY <1>4, <1>5, <1>6 DEF Quiet

(* A poll of the side that waits.  Without a message it is not too late,   *)
(* and what it missed pays for the tick.                                   *)
LEMMA PairPolls ==
  ASSUME Timely, LanInv, LanInv', PairInv, NEW c \in Cookies, NEW m \in Pair[c],
         Spared(c)', Before(c, m), NEW got \in SUBSET air[m], PollIs(m, got)
  PROVE  PairOk(m, c)'
<1> DEFINE p == Partner(m, c)
<1>1. m \in Machines /\ p \in Machines /\ p # m /\ p \in Pair[c] /\ Partner(p, c) = m
  BY Partners
<1>2. /\ gap[c] \in Nat /\ misses \in Nat /\ Slack \in Nat /\ Losses \in Nat
      /\ misses' \in Nat
      /\ Age(m, c) \in 0 .. PartnerTicks /\ Age(p, c) \in 0 .. PartnerTicks
      /\ PartnerTicks \in Nat /\ Lag(m, c) \in 0 .. 2 /\ Lag(m, c)' \in 0 .. 2
  BY <1>1, Numbers DEF LanInv, LanType, Lag
<1>3. SidePolled(m, c, got) /\ SideSame(p, c)
  BY <1>1, PollOfSide, PollOfOthers DEF LanInv
<1>4. AirPolled(m, m, c, got) /\ MissesPolled(m, c, got)
  BY <1>1, PollOfAir, PollOfMisses DEF LanInv
<1>5. gap' = gap /\ polled' = polled \cup {m}
  BY DEF PollIs
<1>6. tries'[m][c] = tries[m][c] /\ tries'[p][c] = tries[p][c]
  BY <1>3 DEF SidePolled, SideSame
<1> SUFFICES ASSUME tries[m][c] = 1
             PROVE  /\ StillWaits(m, c)' \/ HasFound(m, c)'
                    /\ tries'[p][c] = 0 => StillWaits(m, c)' /\ Age(m, c)' <= gap'[c]
                    /\ tries'[p][c] # 0 /\ StillWaits(m, c)' => InTime(m, c)'
  BY <1>6 DEF PairOk
<1>7. /\ misses' <= Losses /\ gap[c] <= Slack
      /\ misses' >= misses + (IF InAir(m, c) /\ ~Gets(got, c) THEN 1 ELSE 0)
  BY <1>4, <1>5 DEF Spared, MissesPolled
<1>8. Spared(c)
  BY <1>2, <1>7 DEF Spared, Before
<1>9. /\ StillWaits(m, c) \/ HasFound(m, c)
      /\ tries[p][c] = 0 => StillWaits(m, c) /\ Age(m, c) <= gap[c]
      /\ tries[p][c] # 0 /\ StillWaits(m, c) => InTime(m, c)
  BY <1>8 DEF PairInv, PairOk
<1>10. /\ ~(StillWaits(m, c) /\ HasFound(m, c))
       /\ ~(StillWaits(m, c)' /\ HasFound(m, c)')
  BY DEF StillWaits, HasFound
<1>11. CASE HasFound(m, c)
  BY <1>1, <1>3, <1>6, <1>9, <1>10, <1>11, PollKeeps
<1>12. CASE StillWaits(m, c) /\ Gets(got, c)
  <2>1. HasFound(m, c)'
    BY <1>1, <1>3, <1>12, PollOfWaiting
  <2>2. InAir(m, c)
    BY <1>12 DEF Gets, InAir
  <2>3. tries[p][c] # 0
    BY <1>1, <2>2 DEF Before, SideOk, NotBegun
  <2> QED
    BY <1>6, <1>10, <2>1, <2>3
<1>13. CASE StillWaits(m, c) /\ ~Gets(got, c)
  <2>1. CASE Start(m, c).left = 0
    <3>1. c \notin begun[m] /\ table[m][c].left = 0
      BY <2>1, FreshIsNew DEF Start
    <3>2. Age(m, c) = PartnerTicks
      BY <1>2, <1>13, <3>1 DEF Age, StillWaits, Waits
    <3>3. tries[p][c] # 0
      BY <1>2, <1>7, <1>9, <3>2 DEF Timely
    <3>4. InTime(m, c)
      BY <1>9, <1>13, <3>3
    <3>5. CASE InAir(m, c) /\ misses = Losses
      BY <1>2, <1>7, <1>13, <3>5
    <3>6. CASE Age(m, c) <= Bound(m, c)
      <4>1. PartnerTicks <= gap[c] + 2 * misses + Lag(m, c)
        BY <3>2, <3>6 DEF Bound
      <4>2. misses = Losses /\ Lag(m, c) = 2
        BY <1>2, <1>7, <4>1 DEF Timely
      <4>3. InAir(m, c)
        BY <4>2 DEF Lag
      <4> QED
        BY <3>5, <4>2, <4>3
    <3> QED
      BY <3>4, <3>5, <3>6 DEF InTime
  <2>2. CASE Start(m, c).left # 0
    <3>1. StillWaits(m, c)' /\ Live(m, c)' /\ table'[m][c].left = Start(m, c).left
      BY <1>1, <1>3, <1>13, <2>2, PollOfWaiting
    <3>2. Age(m, c)' = Age(m, c)
      <4>1. CASE c \in begun[m]
        <5>1. Age(m, c) = 0
          BY <1>13, <4>1 DEF StillWaits, Age
        <5>2. Start(m, c).left = PartnerTicks
          BY <4>1, FreshIsNew DEF Start
        <5> QED
          BY <1>2, <3>1, <5>1, <5>2 DEF Age
      <4>2. CASE c \notin begun[m]
        BY <1>13, <3>1, <4>2 DEF Age, Start, StillWaits, Waits
      <4> QED
        BY <4>1, <4>2
    <3>3. Age(p, c)' = Age(p, c)
      BY <1>3 DEF Age, SideSame, Live
    <3>4. ASSUME tries[p][c] # 0
          PROVE  InTime(m, c)'
      <4>1. InTime(m, c) /\ ~(InAir(m, c) /\ misses = Losses)
        BY <1>2, <1>7, <1>9, <1>13, <3>4
      <4>2. /\ c \in begun[p] \/ Live(p, c)
            /\ Age(m, c) <= Bound(m, c) /\ Age(p, c) <= Bound(m, c)
        BY <4>1 DEF InTime
      <4>3. c \in begun'[p] \/ Live(p, c)'
        BY <1>3, <4>2 DEF SideSame, Live
      <4>4. Bound(m, c)' >= Bound(m, c)
        <5>1. CASE InAir(m, c)
          <6>1. misses' >= misses + 1
            BY <1>2, <1>7, <1>13, <5>1
          <6> QED
            BY <1>2, <1>5, <6>1 DEF Bound
        <5>2. CASE ~InAir(m, c)
          <6>1. ~InAir(m, c)'
            BY <1>4, <5>2 DEF AirPolled
          <6>2. Lag(m, c)' = Lag(m, c)
            BY <1>1, <1>5, <5>2, <6>1 DEF Lag
          <6>3. misses' >= misses
            BY <1>2, <1>7, <5>2
          <6> QED
            BY <1>2, <1>5, <6>2, <6>3 DEF Bound
        <5> QED
          BY <5>1, <5>2
      <4>5. Bound(m, c) \in Nat /\ Bound(m, c)' \in Nat
        BY <1>2, <1>5 DEF Bound
      <4> QED
        BY <1>2, <3>2, <3>3, <4>2, <4>3, <4>4, <4>5 DEF InTime
    <3> QED
      BY <1>5, <1>6, <1>9, <3>1, <3>2, <3>4
  <2> QED
    BY <2>1, <2>2
<1> QED
  BY <1>9, <1>11, <1>12, <1>13

(* A poll of the partner: it is in time, or has sent its last message.     *)
LEMMA PartnerPolls ==
  ASSUME Timely, LanInv, LanInv', WaitInv, PairInv,
         NEW c \in Cookies, NEW m \in Pair[c],
         Spared(c)', Before(c, m),
         NEW got \in SUBSET air[Partner(m, c)], PollIs(Partner(m, c), got)
  PROVE  PairOk(m, c)'
<1> DEFINE p == Partner(m, c)
<1>1. /\ m \in Machines /\ p \in Machines /\ p # m /\ p \in Pair[c]
      /\ Pair[c] = {p, m} /\ Partner(p, c) = m
  BY Partners
<1>2. /\ gap[c] \in Nat /\ misses \in Nat /\ Slack \in Nat /\ Losses \in Nat
      /\ misses' \in Nat
      /\ Age(m, c) \in 0 .. PartnerTicks /\ Age(p, c) \in 0 .. PartnerTicks
      /\ PartnerTicks \in Nat /\ Lag(m, c) \in 0 .. 2 /\ Lag(m, c)' \in 0 .. 2
  BY <1>1, Numbers DEF LanInv, LanType, Lag
<1>3. SidePolled(p, c, got) /\ SideSame(m, c)
  BY <1>1, PollOfSide, PollOfOthers DEF LanInv
<1>4. AirPolled(p, m, c, got) /\ MissesPolled(p, c, got)
  BY <1>1, PollOfAir, PollOfMisses DEF LanInv
<1>5. gap' = gap /\ polled' = polled \cup {p}
  BY DEF PollIs
<1>6. tries'[m][c] = tries[m][c] /\ tries'[p][c] = tries[p][c]
  BY <1>3 DEF SidePolled, SideSame
<1>7. misses' <= Losses /\ gap[c] <= Slack /\ misses' >= misses
  BY <1>2, <1>4, <1>5 DEF Spared, MissesPolled
<1> SUFFICES ASSUME tries[m][c] = 1
             PROVE  /\ StillWaits(m, c)' \/ HasFound(m, c)'
                    /\ tries'[p][c] = 0 => StillWaits(m, c)' /\ Age(m, c)' <= gap'[c]
                    /\ tries'[p][c] # 0 /\ StillWaits(m, c)' => InTime(m, c)'
  BY <1>6 DEF PairOk
<1>8. Spared(c)
  BY <1>2, <1>7 DEF Spared, Before
<1>9. /\ StillWaits(m, c) \/ HasFound(m, c)
      /\ tries[p][c] = 0 => StillWaits(m, c) /\ Age(m, c) <= gap[c]
      /\ tries[p][c] # 0 /\ StillWaits(m, c) => InTime(m, c)
  BY <1>8 DEF PairInv, PairOk
<1>10. Age(m, c)' = Age(m, c)
  BY <1>3 DEF Age, SideSame, Live
<1>11. /\ StillWaits(m, c)' <=> StillWaits(m, c)
       /\ HasFound(m, c)' <=> HasFound(m, c)
  BY <1>1, <1>3, SameKeeps
<1>12. ASSUME tries[p][c] # 0, StillWaits(m, c), InTime(m, c)
       PROVE  InTime(m, c)'
  <2> DEFINE b == Start(p, c)
  <2>1. InAir(m, c) => InAir(m, c)'
    BY <1>1, <1>4 DEF AirPolled
  <2>2. CASE InAir(m, c) /\ m \notin polled /\ misses = Losses
    BY <1>1, <1>2, <1>5, <1>7, <2>1, <2>2 DEF InTime
  <2>3. CASE /\ c \in begun[p] \/ Live(p, c)
             /\ Age(m, c) <= Bound(m, c) /\ Age(p, c) <= Bound(m, c)
    <3>1. b # NoPairing
      BY <2>3, FreshIsNew DEF Start, Live
    <3>2. ~HasFound(m, c) /\ HeardOk(m, c)
      BY <1>12 DEF HasFound, StillWaits, LanInv, HeardInv
    <3>3. ~Saying(p, c) /\ ~(Live(p, c) /\ table[p][c].heardUs)
      BY <1>1, <3>2 DEF HeardOk, Before
    <3>4. ~Hears(got, c) /\ ~b.heardUs
      <4>1. ~Hears(got, c)
        BY <3>3 DEF Hears, Saying
      <4> QED
        BY <3>1, <3>3, <4>1, FreshIsNew DEF Start, Live
    <3>5. ~After(p, c, got).heardUs
      BY <1>3, <3>1, <3>4 DEF SidePolled, RowPolled
    <3>6. c \in begun[p] => Age(p, c) = 0
      <4>1. SideOk(p, c) /\ tries[p][c] = 1 /\ ~GaveUp(p, c)
        BY <1>12 DEF Before
      <4>2. StillWaits(p, c) \/ ~Waits(p, c)
        BY <4>1 DEF SideOk, HasFound, HasLost
      <4> QED
        BY <4>2 DEF StillWaits, Waits, Age
    <3>7. CASE b.left = 0
      <4>1. c \notin begun[p] /\ Age(p, c) = PartnerTicks
        BY <1>2, <2>3, <3>7, FreshIsNew DEF Start, Age
      <4>2. PartnerTicks <= gap[c] + 2 * misses + Lag(m, c)
        BY <2>3, <4>1 DEF Bound
      <4>3. misses = Losses /\ Lag(m, c) = 2
        BY <1>2, <1>7, <4>2 DEF Timely
      <4>4. InAir(m, c) /\ m \notin polled
        BY <4>3 DEF Lag
      <4> QED
        BY <2>2, <4>3, <4>4
    <3>8. CASE b.left # 0
      <4>1. Live(p, c)' /\ table'[p][c].left = b.left
        BY <1>3, <3>1, <3>5, <3>8 DEF SidePolled, RowPolled, Live
      <4>2. Age(p, c)' = Age(p, c)
        <5>1. CASE c \in begun[p]
          BY <1>2, <3>6, <4>1, <5>1, FreshIsNew DEF Start, Age
        <5>2. CASE c \notin begun[p]
          BY <2>3, <4>1, <5>2 DEF Start, Age
        <5> QED
          BY <5>1, <5>2
      <4>3. Lag(m, c)' >= Lag(m, c)
        <5>1. CASE InAir(m, c)
          BY <1>1, <1>5, <2>1, <5>1 DEF Lag
        <5>2. CASE ~InAir(m, c) /\ p \in polled
          BY <1>2, <5>2 DEF Lag
        <5>3. CASE ~InAir(m, c) /\ p \notin polled
          <6>1. b.wait = 0
            BY <1>1, <5>3, FreshIsNew DEF Start, WaitInv, Sleeps
          <6>2. IsDue(After(p, c, got))
            BY <1>3, <3>1, <3>5, <6>1 DEF SidePolled, RowPolled
          <6>3. InAir(m, c)'
            BY <1>1, <1>4, <6>2 DEF AirPolled
          <6> QED
            BY <5>3, <6>3 DEF Lag
        <5> QED
          BY <5>1, <5>2, <5>3
      <4>4. Bound(m, c)' >= Bound(m, c) /\ Bound(m, c) \in Nat /\ Bound(m, c)' \in Nat
        BY <1>2, <1>5, <1>7, <4>3 DEF Bound
      <4> QED
        BY <1>2, <1>10, <2>3, <4>1, <4>2, <4>4 DEF InTime
    <3> QED
      BY <3>7, <3>8
  <2> QED
    BY <1>12, <2>2, <2>3 DEF InTime
<1> QED
  BY <1>5, <1>6, <1>9, <1>10, <1>11, <1>12

(* A third machine has nothing to say to a pair.                           *)
LEMMA OthersPoll ==
  ASSUME LanInv, LanInv', PairInv, NEW c \in Cookies, NEW m \in Pair[c],
         Spared(c)', Before(c, m), NEW n \in Machines \ Pair[c],
         NEW got \in SUBSET air[n], PollIs(n, got)
  PROVE  PairOk(m, c)'
<1> DEFINE p == Partner(m, c)
<1>1. m \in Machines /\ p \in Machines /\ m # n /\ p # n
  BY Partners
<1>2. SideSame(m, c) /\ SideSame(p, c)
  BY <1>1, PollOfOthers DEF LanInv
<1>3. AirPolled(n, m, c, got) /\ MissesPolled(n, c, got)
  BY <1>1, PollOfAir, PollOfMisses DEF LanInv
<1>4. InAir(m, c)' <=> InAir(m, c)
  BY <1>1, <1>3 DEF AirPolled
<1>5. gap' = gap /\ polled' = polled \cup {n}
  BY DEF PollIs
<1>6. misses \in Nat /\ misses' \in Nat
  BY DEF LanInv, LanType
<1>7. misses' >= misses
  BY <1>3, <1>6 DEF MissesPolled, Spared
<1>8. Age(m, c)' = Age(m, c) /\ Age(p, c)' = Age(p, c)
  BY <1>2 DEF Age, SideSame, Live
<1>9. Quiet(m, c)
  BY <1>1, <1>2, <1>4, <1>5, <1>7, <1>8, SameKeeps DEF Quiet, SideSame
<1> QED
  BY <1>9, PairQuiet

(* The first of a pair to begin has waited for no more than the gap when   *)
(* the second does.                                                        *)
LEMMA PairBegins ==
  ASSUME LanInv, LanInv', PairInv, NEW c \in Cookies, NEW m \in Pair[c],
         Spared(c)', Before(c, m), NEW n \in Machines, NEW d \in Cookies, Begin(n, d)
  PROVE  PairOk(m, c)'
<1> DEFINE p == Partner(m, c)
<1>1. /\ m \in Machines /\ p \in Machines /\ p # m /\ p \in Pair[c]
      /\ Partner(p, c) = m
  BY Partners
<1>2. /\ gap[c] \in Nat /\ misses \in Nat /\ PartnerTicks \in Nat
      /\ Age(m, c) \in 0 .. PartnerTicks /\ Age(p, c) \in 0 .. PartnerTicks
      /\ Lag(m, c) \in 0 .. 2
  BY <1>1, Numbers DEF LanInv
<1>3. /\ table' = table /\ gap' = gap /\ misses' = misses /\ air' = air
      /\ polled' = polled
  BY DEF Begin
<1>4. Age(m, c)' = Age(m, c) /\ Age(p, c)' = Age(p, c) /\ Bound(m, c)' = Bound(m, c)
  BY <1>3 DEF Age, Live, Bound, Lag, InAir
<1>5. gap[c] <= Bound(m, c)
  BY <1>2 DEF Bound
<1>6. Spared(c)
  BY <1>3 DEF Spared, Before
<1>7. CASE n = m /\ d = c
  <2>1. SideBegun(m, c) /\ SideSame(p, c)
    BY <1>1, <1>7, BeginOfSides DEF LanInv
  <2>2. tries[m][c] = 0
    BY <2>1 DEF Before, SideBegun
  <2>3. NotBegun(m, c)
    BY <2>2 DEF Before, SideOk
  <2>4. StillWaits(m, c)' /\ Age(m, c) = 0
    BY <2>1, <2>3 DEF SideBegun, NotBegun, StillWaits, Waits, Live, Age
  <2>5. tries'[p][c] = tries[p][c] /\ tries[p][c] \in {0, 1}
    BY <2>1 DEF SideSame, Before
  <2>6. ASSUME tries[p][c] # 0
        PROVE  InTime(m, c)'
    <3>1. StillWaits(p, c) /\ Age(p, c) <= gap[c]
      BY <1>1, <1>6, <2>2, <2>5, <2>6 DEF PairInv, PairOk
    <3>2. c \in begun'[p] \/ Live(p, c)'
      BY <2>1, <3>1 DEF StillWaits, Waits, SideSame, Live
    <3>3. Bound(m, c) \in Nat
      BY <1>2 DEF Bound
    <3> QED
      BY <1>2, <1>4, <1>5, <2>4, <3>1, <3>2, <3>3 DEF InTime
  <2> QED
    BY <1>2, <1>3, <1>4, <2>4, <2>5, <2>6 DEF PairOk
<1>8. CASE n = p /\ d = c
  <2>1. SideBegun(p, c) /\ SideSame(m, c)
    BY <1>1, <1>8, BeginOfSides DEF LanInv
  <2>2. tries[p][c] = 0
    BY <2>1 DEF Before, SideBegun
  <2>3. NotBegun(p, c) /\ tries'[p][c] = 1
    BY <2>1, <2>2 DEF Before, SideOk, SideBegun
  <2>4. Age(p, c) = 0 /\ c \in begun'[p]
    BY <2>1, <2>3 DEF SideBegun, NotBegun, Age
  <2>5. tries'[m][c] = tries[m][c]
    BY <2>1 DEF SideSame
  <2>6. ASSUME tries[m][c] = 1
        PROVE  StillWaits(m, c)' /\ InTime(m, c)'
    <3>1. StillWaits(m, c) /\ Age(m, c) <= gap[c]
      BY <1>6, <2>2, <2>6 DEF PairInv, PairOk
    <3>2. StillWaits(m, c)'
      BY <1>1, <2>1, <3>1, SameKeeps
    <3>3. Bound(m, c) \in Nat
      BY <1>2 DEF Bound
    <3> QED
      BY <1>2, <1>4, <1>5, <2>4, <3>1, <3>2, <3>3 DEF InTime
  <2> QED
    BY <2>3, <2>5, <2>6 DEF PairOk
<1>9. CASE ~(n = m /\ d = c) /\ ~(n = p /\ d = c)
  <2>1. SideSame(m, c) /\ SideSame(p, c)
    BY <1>1, <1>9, BeginOfSides DEF LanInv
  <2>2. Quiet(m, c)
    BY <1>1, <1>2, <1>3, <1>4, <2>1, SameKeeps DEF Quiet, SideSame, InAir, Live
  <2> QED
    BY <2>2, PairQuiet
<1> QED
  BY <1>7, <1>8, <1>9

(* A tick is one between the beginnings, or one that a message needs, or   *)
(* somebody has missed something in it.                                    *)
LEMMA PairTicks ==
  ASSUME LanInv, LanInv', PairInv, NEW c \in Cookies, NEW m \in Pair[c],
         Spared(c)', Before(c, m), Tick
  PROVE  PairOk(m, c)'
<1> DEFINE p == Partner(m, c)
           Tried(n) == tries[n][c] > 0
           k == Cardinality(Machines \ polled)
<1>1. /\ m \in Machines /\ p \in Machines /\ p # m /\ p \in Pair[c]
      /\ Pair[c] = {m, p}
  BY Partners
<1>2. /\ gap[c] \in Nat /\ misses \in Nat /\ Slack \in Nat /\ Losses \in Nat
      /\ misses' \in Nat /\ gap'[c] \in Nat /\ PartnerTicks \in Nat
      /\ Age(m, c) \in 0 .. PartnerTicks /\ Age(p, c) \in 0 .. PartnerTicks
      /\ Lag(m, c) \in 0 .. 2 /\ Lag(m, c)' \in 0 .. 2
      /\ table[m][c].left \in 0 .. PartnerTicks /\ table[p][c].left \in 0 .. PartnerTicks
  BY <1>1, Numbers DEF LanInv, LanType, Lag
<1>3. SideAged(m, c) /\ SideAged(p, c)
  BY <1>1, TickOfSides DEF LanInv
<1>4. /\ tries' = tries /\ polled' = {} /\ air' = air
      /\ misses' = UpTo(Losses, misses + k)
      /\ gap'[c] = IF Cardinality({n \in Pair[c] : Tried(n)}) = 1
                   THEN UpTo(Slack, gap[c] + 1) ELSE gap[c]
  BY DEF Tick
<1> SUFFICES ASSUME tries[m][c] = 1
             PROVE  /\ StillWaits(m, c)' \/ HasFound(m, c)'
                    /\ tries'[p][c] = 0 => StillWaits(m, c)' /\ Age(m, c)' <= gap'[c]
                    /\ tries'[p][c] # 0 /\ StillWaits(m, c)' => InTime(m, c)'
  BY <1>4 DEF PairOk
<1>5. misses' = misses + k /\ k \in Nat /\ (m \notin polled \/ p \notin polled => k >= 1)
  <2>1. IsFiniteSet(Machines \ polled)
    BY MachinesAreFinite, FS_Subset
  <2>2. k \in Nat /\ (Machines \ polled # {} => k # 0)
    BY <2>1, FS_CardinalityType, FS_EmptySet
  <2> HIDE DEF k
  <2>3. misses + k \in Nat /\ misses' <= Losses
    BY <1>2, <2>2 DEF Spared
  <2>4. misses' = misses + k
    BY <1>2, <1>4, <2>3, Limited
  <2> QED
    BY <1>1, <2>2, <2>4
<1> HIDE DEF k
<1>6. gap'[c] = IF tries[p][c] = 0 THEN gap[c] + 1 ELSE gap[c]
  <2>1. tries[p][c] \in {0, 1}
    BY DEF Before
  <2>2. CASE tries[p][c] = 0
    <3>1. {n \in Pair[c] : Tried(n)} = {m}
      BY <1>1, <2>2
    <3>2. gap'[c] = UpTo(Slack, gap[c] + 1)
      BY <1>4, <3>1, FS_Singleton
    <3>3. gap'[c] <= Slack /\ gap[c] + 1 \in Nat
      BY <1>2 DEF Spared
    <3> QED
      BY <1>2, <2>2, <3>2, <3>3, Limited
  <2>3. CASE tries[p][c] = 1
    <3>1. {n \in Pair[c] : Tried(n)} = Pair[c]
      BY <1>1, <2>3
    <3>2. Cardinality({n \in Pair[c] : Tried(n)}) = 2
      BY <3>1, PairsAreTwo
    <3>3. gap'[c] = gap[c]
      BY <1>4, <3>2
    <3> QED
      BY <2>3, <3>3
  <2> QED
    BY <2>1, <2>2, <2>3
<1>7. Spared(c)
  BY <1>2, <1>5, <1>6 DEF Spared, Before
<1>8. /\ StillWaits(m, c) \/ HasFound(m, c)
      /\ tries[p][c] = 0 => StillWaits(m, c) /\ Age(m, c) <= gap[c]
      /\ tries[p][c] # 0 /\ StillWaits(m, c) => InTime(m, c)
  BY <1>7 DEF PairInv, PairOk
<1>9. ASSUME NEW n \in {m, p}
      PROVE  /\ Live(n, c)' <=> Live(n, c)
             /\ table'[n][c].left = Less(table[n][c].left)
             /\ StillWaits(n, c)' <=> StillWaits(n, c)
             /\ HasFound(n, c)' <=> HasFound(n, c)
  BY <1>1, <1>3, TickKeeps DEF LanInv
<1>10. ASSUME NEW n \in {m, p}
       PROVE  Age(n, c)' <= Age(n, c) + 1 /\ Age(n, c)' \in Nat
  <2>1. table[n][c].left \in 0 .. PartnerTicks
    BY <1>2
  <2> QED
    BY <1>2, <1>9, <2>1 DEF Age, Less
<1>11. ASSUME tries[p][c] # 0, StillWaits(m, c), InTime(m, c)
       PROVE  InTime(m, c)'
  <2>1. ~(m \notin polled /\ misses = Losses)
    BY <1>2, <1>5 DEF Spared
  <2>2. /\ c \in begun[p] \/ Live(p, c)
        /\ Age(m, c) <= Bound(m, c) /\ Age(p, c) <= Bound(m, c)
    BY <1>11, <2>1 DEF InTime
  <2>3. c \in begun'[p] \/ Live(p, c)'
    BY <1>3, <1>9, <2>2 DEF SideAged
  <2>4. Bound(m, c)' >= Bound(m, c) + 1
    <3>1. gap'[c] = gap[c]
      BY <1>6, <1>11
    <3>2. InAir(m, c)' <=> InAir(m, c)
      BY <1>4 DEF InAir
    <3>3. 2 * misses' + Lag(m, c)' >= 2 * misses + Lag(m, c) + 1
      <4>1. CASE InAir(m, c) /\ m \in polled
        BY <1>2, <1>4, <1>5, <3>2, <4>1 DEF Lag
      <4>2. CASE InAir(m, c) /\ m \notin polled
        BY <1>2, <1>4, <1>5, <3>2, <4>2 DEF Lag
      <4>3. CASE ~InAir(m, c) /\ p \in polled
        BY <1>2, <1>4, <1>5, <3>2, <4>3 DEF Lag
      <4>4. CASE ~InAir(m, c) /\ p \notin polled
        BY <1>2, <1>4, <1>5, <3>2, <4>4 DEF Lag
      <4> QED
        BY <4>1, <4>2, <4>3, <4>4
    <3> QED
      BY <1>2, <3>1, <3>3 DEF Bound
  <2>5. Bound(m, c) \in Nat /\ Bound(m, c)' \in Nat
    BY <1>2 DEF Bound
  <2> QED
    BY <1>2, <1>10, <2>2, <2>3, <2>4, <2>5 DEF InTime
<1> QED
  BY <1>2, <1>4, <1>6, <1>8, <1>9, <1>10, <1>11

LEMMA PairStep ==
  ASSUME Timely, LanInv, LanInv', WaitInv, PairInv, [Next]_vars
  PROVE  PairInv'
<1> SUFFICES ASSUME NEW c \in Cookies, NEW m \in Pair[c]
             PROVE  PairOk(m, c)'
  BY DEF PairInv
<1> DEFINE p == Partner(m, c)
<1>1. SUFFICES ASSUME Spared(c)'
               PROVE  PairOk(m, c)'
  BY DEF PairOk
<1>2. /\ m \in Machines /\ p \in Machines /\ p # m /\ p \in Pair[c]
      /\ Pair[c] = {m, p}
  BY Partners
<1>3. Before(c, m)
  <2>1. Alone(c)'
    BY <1>1 DEF Spared
  <2> QED
    BY <2>1, SparedBefore
<1>4. misses \in Nat /\ misses >= misses
  BY DEF LanInv, LanType
<1>5. ASSUME NEW n \in Machines, Poll(n)
      PROVE  PairOk(m, c)'
  <2>1. PICK got \in SUBSET air[n] : PollIs(n, got)
    BY <1>5, PollInRows DEF LanInv
  <2>2. CASE n = m
    BY <1>1, <1>3, <2>1, <2>2, PairPolls
  <2>3. CASE n = p
    BY <1>1, <1>3, <2>1, <2>3, PartnerPolls
  <2>4. CASE n \notin Pair[c]
    BY <1>1, <1>3, <2>1, <2>4, OthersPoll
  <2> QED
    BY <1>2, <2>2, <2>3, <2>4
<1>6. ASSUME NEW n \in Machines, Answer(n)
      PROVE  PairOk(m, c)'
  <2>1. SideAnswered(m, c) /\ SideAnswered(p, c)
    BY <1>2, <1>6, AnswerOfSides DEF LanInv
  <2>2. air' = air /\ polled' = polled /\ gap' = gap /\ misses' = misses
    BY <1>6 DEF Answer, history
  <2>3. Age(m, c)' = Age(m, c) /\ Age(p, c)' = Age(p, c)
    BY <2>1 DEF Age, SideAnswered, Live
  <2>4. Quiet(m, c)
    BY <1>2, <1>4, <2>1, <2>2, <2>3, AnswerKeeps DEF Quiet, SideAnswered, InAir, Live
  <2> QED
    BY <1>1, <1>3, <2>4, PairQuiet
<1>7. ASSUME NEW n \in Machines, NEW d \in Cookies, Begin(n, d)
      PROVE  PairOk(m, c)'
  BY <1>1, <1>3, <1>7, PairBegins
<1>8. ASSUME NEW n \in Machines, NEW d \in Cookies, Cancel(n, d)
      PROVE  PairOk(m, c)'
  <2>1. ~SideCancelled(m, c) /\ ~SideCancelled(p, c)
    BY <1>1, <1>2 DEF SideCancelled, Spared, Alone, GaveUp
  <2>2. SideSame(m, c) /\ SideSame(p, c)
    BY <1>2, <1>8, <2>1, CancelOfSides DEF LanInv
  <2>3. air' = air /\ polled' = polled /\ gap' = gap /\ misses' = misses
    BY <1>8 DEF Cancel
  <2>4. Age(m, c)' = Age(m, c) /\ Age(p, c)' = Age(p, c)
    BY <2>2 DEF Age, SideSame, Live
  <2>5. Quiet(m, c)
    BY <1>2, <1>4, <2>2, <2>3, <2>4, SameKeeps DEF Quiet, SideSame, InAir, Live
  <2> QED
    BY <1>1, <1>3, <2>5, PairQuiet
<1>9. CASE Tick
  BY <1>1, <1>3, <1>9, PairTicks
<1>10. CASE UNCHANGED vars
  <2>1. SideSame(m, c) /\ SideSame(p, c)
    BY <1>10 DEF SideSame, GaveUp, Has, vars, side, history
  <2>2. air' = air /\ polled' = polled /\ gap' = gap /\ misses' = misses
    BY <1>10 DEF vars, history
  <2>3. Age(m, c)' = Age(m, c) /\ Age(p, c)' = Age(p, c)
    BY <2>1 DEF Age, SideSame, Live
  <2>4. Quiet(m, c)
    BY <1>2, <1>4, <2>1, <2>2, <2>3, SameKeeps DEF Quiet, SideSame, InAir, Live
  <2> QED
    BY <1>1, <1>3, <2>4, PairQuiet
<1> QED
  BY <1>5, <1>6, <1>7, <1>8, <1>9, <1>10 DEF Next

(* While a pair has missed no more than Losses, and began within Slack,    *)
(* neither of the two has its pairing expire (RendezvousTable::advance,    *)
(* lan_rendezvous.cpp), as long as there is a tick for each, two for what  *)
(* was missed and two for the message that then arrives.                   *)
THEOREM PairsInTime ==
  ASSUME Timely
  PROVE  Spec => []PairsDespiteLosses
<1>1. Init => WaitInv /\ PairInv
  <2> SUFFICES ASSUME Init
               PROVE  WaitInv /\ PairInv
    OBVIOUS
  <2>1. WaitInv
    BY DEF Init, WaitInv, Sleeps, NoPairing
  <2>2. \A c \in Cookies : \A m \in Pair[c] : tries[m][c] = 0
    BY Partners DEF Init
  <2> QED
    BY <2>1, <2>2 DEF PairInv, PairOk
<1>2. LanInv /\ LanInv' /\ WaitInv /\ PairInv /\ [Next]_vars
        => WaitInv' /\ PairInv'
  BY WaitStep, PairStep DEF LanInv
<1>3. LanInv /\ PairInv => PairsDespiteLosses
  <2> SUFFICES ASSUME LanInv, PairInv, NEW c \in Cookies, Spared(c),
                      NEW m \in Pair[c], tries[m][c] = 1
               PROVE  answer[m][c] # "deadbeat"
    BY DEF PairsDespiteLosses, Spared
  <2>1. StillWaits(m, c) \/ HasFound(m, c)
    BY DEF PairInv, PairOk
  <2> QED
    BY <2>1 DEF StillWaits, HasFound, Told
<1> QED
  BY LanInvariant, <1>1, <1>2, <1>3, PTL DEF Spec
-----------------------------------------------------------------------------
(* LanSessions.                                                            *)
Someone == Nodes \cup {NoOne}
Announcement ==
  [phase : {"none", "Lobby", "Playing", "NetworkGame"}, full : BOOLEAN]
Coordinator ==
  [role : {"None", "Host", "Client"}, left : BOOLEAN, pending : Someone,
   asks : BOOLEAN, joined : Someone, requesters : SUBSET Nodes, present : Nat]
Director ==
  [requested : {"no", "Host", "Join"}, role : {"Host", "Join"},
   stage : {"none", "leave", "menus", "lobby", "ready", "wait"},
   expected : Nat, pressed : BOOLEAN]

SessionsType ==
  /\ place \in [Nodes -> {"main", "level", "host", "join", "ready"}]
  /\ link \in [Nodes -> Someone] /\ members \in [Nodes -> SUBSET Nodes]
  /\ news \in [Nodes -> Announcement]
  /\ peers \in [Nodes -> [Nodes -> Announcement]]
  /\ asked \in [Nodes -> SUBSET Nodes]
  /\ co \in [Nodes -> Coordinator] /\ job \in [Nodes -> Director]
  /\ quit \in [Nodes -> BOOLEAN] /\ turns \in Nat /\ due \in Someone

(* A machine at its main menu is in no session, and none lists a machine   *)
(* that is not in it.                                                      *)
SeatOk(m) ==
  /\ place[m] = "main" => link[m] = NoOne
  /\ \A h \in Nodes : m \in members[h] => link[m] = h

(* A player who quit is in no session, and the coordinator knows that it   *)
(* was by choice or has seen the session empty since.                      *)
ChoiceOk(m) ==
  quit[m] =>
    /\ place[m] \in {"main", "level"} /\ link[m] = NoOne
    /\ co[m].left \/ co[m].role # "Client"

SessionsInv ==
  SessionsType /\ \A m \in Nodes : SeatOk(m) /\ ChoiceOk(m)

(* The initial state: everyone at the main menu, nobody heard of.          *)
LEMMA SessionsStart == SessionsInit => SessionsInv
<1> SUFFICES ASSUME SessionsInit PROVE SessionsInv
  OBVIOUS
<1> USE DEF SessionsInit
<1>1. Silence \in Announcement /\ Idle \in Director
  BY DEF Silence, Announcement, Idle, Director
<1>2. co \in [Nodes -> Coordinator]
  BY DEF Coordinator, Someone
<1>3. SessionsType
  BY <1>1, <1>2 DEF SessionsType, Someone
<1>4. \A m \in Nodes : SeatOk(m) /\ ChoiceOk(m)
  BY DEF SeatOk, ChoiceOk
<1> QED
  BY <1>3, <1>4 DEF SessionsInv

(* How many are in a session.                                              *)
LEMMA PlayersAreCounted ==
  ASSUME SessionsType, NEW m \in Nodes
  PROVE  Players(m) \in Nat /\ (link[m] = NoOne => Players(m) = 0)
<1>1. CASE link[m] = NoOne
  BY <1>1 DEF Players
<1>2. CASE link[m] # NoOne
  <2>1. members[link[m]] \cup {m} \subseteq Nodes
    BY <1>2 DEF SessionsType, Someone
  <2>2. Cardinality(members[link[m]] \cup {m}) \in Nat
    BY <2>1, NodesAreFinite, FS_Subset, FS_CardinalityType
  <2> QED
    BY <1>2, <2>2 DEF Players
<1> QED
  BY <1>1, <1>2

(* The director takes up what was requested of it before anything else.    *)
LEMMA DirectedType ==
  ASSUME SessionsType, NEW m \in Nodes, NEW late \in BOOLEAN
  PROVE  Directed(m, late) \in Director /\ Directed(m, late).requested = "no"
<1> DEFINE j == Begun(job[m])
           n == [j EXCEPT !.stage = Following(j, place[m])]
<1>1. job[m] \in Director
  BY DEF SessionsType
<1>2. j \in Director /\ j.requested = "no"
  BY <1>1 DEF Begun, Director
<1>3. Following(j, place[m]) \in
        {"none", "leave", "menus", "lobby", "ready", "wait"}
  BY <1>2 DEF Following, Director
<1>4. n \in Director /\ n.requested = "no"
  BY <1>2, <1>3 DEF Director
<1>5. Idle \in Director /\ Idle.requested = "no"
  BY DEF Idle, Director
<1>6. [n EXCEPT !.pressed = TRUE] \in Director
      /\ [n EXCEPT !.pressed = TRUE].requested = "no"
  BY <1>4 DEF Director
<1>7. Directed(m, late) \in {Idle, n, [n EXCEPT !.pressed = TRUE]}
  BY DEF Directed
<1> QED
  BY <1>4, <1>5, <1>6, <1>7

(* follow_lost_host waits for a host only if it waited for none, was that  *)
(* host's client and did not leave it by choice; nothing else changes what *)
(* is waited for.                                                          *)
LEMMA FollowedOnlyIfLost ==
  ASSUME SessionsType, NEW m \in Nodes, NEW j \in Director
  PROVE  LET k == Followed(m, j) IN
         /\ k \in Coordinator
         /\ co[m].pending # NoOne => k.pending = co[m].pending
         /\ k.pending # co[m].pending =>
              place[m] = "level" /\ co[m].role = "Client" /\ ~co[m].left
         /\ k.left => co[m].left
         /\ link[m] = NoOne => k.role = "None"
<1> DEFINE now == [co[m] EXCEPT !.role = RoleRead(m)]
           k == IF Hosting(j) THEN now
                ELSE [now EXCEPT !.requesters = {}, !.present = 1]
           forgot == [k EXCEPT !.role = "None", !.left = FALSE]
           follows == [forgot EXCEPT !.pending = k.joined, !.asks = FALSE]
<1>1. co[m] \in Coordinator
  BY DEF SessionsType
<1>2. RoleRead(m) \in {"None", "Host", "Client"}
  BY <1>1 DEF RoleRead, Coordinator
<1>3. now \in Coordinator /\ now.pending = co[m].pending
      /\ now.left = co[m].left /\ now.role = RoleRead(m)
  BY <1>1, <1>2 DEF Coordinator
<1>4. k \in Coordinator /\ k.pending = co[m].pending
      /\ k.left = co[m].left /\ k.role = RoleRead(m)
  BY <1>3 DEF Coordinator
<1> HIDE DEF k
<1>5. forgot \in Coordinator /\ forgot.pending = co[m].pending
      /\ forgot.left = FALSE /\ forgot.role = "None"
  BY <1>4 DEF Coordinator
<1>6. follows \in Coordinator /\ follows.left = FALSE /\ follows.role = "None"
  BY <1>4 DEF Coordinator
<1>7. ShouldFollow(m, k, j) =>
        /\ place[m] = "level" /\ co[m].role = "Client" /\ ~co[m].left
        /\ co[m].pending = NoOne
  BY <1>4 DEF ShouldFollow, ShouldFollow_Anyway, RoleRead
<1>8. Followed(m, j) = IF Players(m) # 0 THEN k
                       ELSE IF ShouldFollow(m, k, j) THEN follows ELSE forgot
  BY DEF Followed, k
<1>9. CASE Players(m) # 0
  BY <1>4, <1>8, <1>9, PlayersAreCounted
<1>10. CASE Players(m) = 0 /\ ShouldFollow(m, k, j)
  BY <1>6, <1>7, <1>8, <1>10
<1>11. CASE Players(m) = 0 /\ ~ShouldFollow(m, k, j)
  BY <1>5, <1>8, <1>11
<1> QED
  BY <1>9, <1>10, <1>11

(* A script that is asked for.                                             *)
LEMMA RequestedType ==
  ASSUME NEW j, NEW role \in {"Host", "Join"}, NEW n \in Nat
  PROVE  /\ Requested(j, role, n) \in Director
         /\ Requested(j, role, n).requested = role
BY DEF Requested, Idle, Director, Larger

(* A request is taken up only by a machine that waits for nobody.          *)
LEMMA AskedOnlyIfFree ==
  ASSUME SessionsType, NEW m \in Nodes,
         NEW k \in Coordinator, NEW j \in Director, NEW got \in SUBSET Nodes
  PROVE  LET s == Asked(k, j, got, Local(m, k, j), Players(m)) IN
         /\ s.co \in Coordinator /\ s.job \in Director
         /\ s.co.pending = k.pending
         /\ s.co.role = k.role /\ s.co.left = k.left
         /\ s.job.requested # j.requested =>
              s.job.requested = "Host" /\ k.pending = NoOne
<1> DEFINE local == Local(m, k, j)
           all == k.requesters \cup got
           counts ==
             [j EXCEPT !.expected = Larger(@, k.present + Cardinality(all))]
           present == IF local.phase = "NetworkGame" THEN Players(m) ELSE 1
<1>1. /\ Cardinality(all) \in Nat /\ Cardinality(got) \in Nat
      /\ all \in SUBSET Nodes
  BY NodesAreFinite, FS_Subset, FS_CardinalityType DEF Coordinator
<1>2. Players(m) \in Nat /\ present \in Nat
  BY PlayersAreCounted
<1>3. counts \in Director /\ counts.requested = j.requested
  BY <1>1 DEF Director, Coordinator, Larger
<1>4. [k EXCEPT !.requesters = all] \in Coordinator
  BY <1>1 DEF Coordinator
<1>5. local # Silence /\ Accepts(j) => k.pending = NoOne
  BY DEF Local, Busy, Accepts, Directing
<1>6. /\ Requested(j, "Host", present + Cardinality(got)) \in Director
      /\ Requested(j, "Host", present + Cardinality(got)).requested = "Host"
  <2>1. present + Cardinality(got) \in Nat
    BY <1>1, <1>2
  <2> QED
    BY <2>1, RequestedType
<1>7. [k EXCEPT !.requesters = got, !.present = present] \in Coordinator
  BY <1>2 DEF Coordinator
<1> HIDE DEF local, present
<1>8. CASE got = {}
  BY <1>8 DEF Asked
<1>9. CASE got # {} /\ Hosting(j)
  <2>1. Asked(k, j, got, local, Players(m)) =
          [co |-> [k EXCEPT !.requesters = all], job |-> counts]
    BY <1>9 DEF Asked
  <2>2. [k EXCEPT !.requesters = all].pending = k.pending
        /\ [k EXCEPT !.requesters = all].role = k.role
        /\ [k EXCEPT !.requesters = all].left = k.left
    BY DEF Coordinator
  <2> DEFINE s == Asked(k, j, got, local, Players(m))
  <2>3. s.co = [k EXCEPT !.requesters = all] /\ s.job = counts
    BY <2>1
  <2> HIDE DEF counts, s
  <2>4. /\ s.co \in Coordinator /\ s.job \in Director
        /\ s.co.pending = k.pending /\ s.co.role = k.role /\ s.co.left = k.left
        /\ s.job.requested = j.requested
    BY <1>3, <1>4, <2>2, <2>3
  <2> QED
    BY <2>4 DEF s, local
<1>10. CASE got # {} /\ ~Hosting(j) /\ (local = Silence \/ ~Accepts(j))
  BY <1>10 DEF Asked, local
<1>11. CASE got # {} /\ ~Hosting(j) /\ local # Silence /\ Accepts(j)
  <2>1. Asked(k, j, got, local, Players(m)) =
          [co |-> [k EXCEPT !.requesters = got, !.present = present],
           job |-> Requested(j, "Host", present + Cardinality(got))]
    BY <1>11 DEF Asked, present
  <2>2. [k EXCEPT !.requesters = got, !.present = present].pending = k.pending
        /\ [k EXCEPT !.requesters = got, !.present = present].role = k.role
        /\ [k EXCEPT !.requesters = got, !.present = present].left = k.left
    BY DEF Coordinator
  <2> DEFINE s == Asked(k, j, got, local, Players(m))
  <2>3. /\ s.co = [k EXCEPT !.requesters = got, !.present = present]
        /\ s.job = Requested(j, "Host", present + Cardinality(got))
    BY <2>1
  <2> HIDE DEF s
  <2>4. /\ s.co \in Coordinator /\ s.job \in Director
        /\ s.co.pending = k.pending /\ s.co.role = k.role /\ s.co.left = k.left
        /\ s.job.requested = "Host" /\ k.pending = NoOne
    BY <1>5, <1>6, <1>7, <1>11, <2>2, <2>3
  <2> QED
    BY <2>4 DEF s, local
<1> QED
  BY <1>8, <1>9, <1>10, <1>11

(* follow_pending_join only ends a wait, and asks the director to join.    *)
LEMMA JoinedOnlyEnds ==
  ASSUME NEW k \in Coordinator, NEW j \in Director,
         NEW known, NEW giveUp \in BOOLEAN
  PROVE  LET s == Joined(k, j, known, giveUp) IN
         /\ s.co \in Coordinator /\ s.job \in Director
         /\ s.co.pending \in {k.pending, NoOne}
         /\ s.co.role = k.role /\ s.co.left = k.left
         /\ s.job.requested \in {j.requested, "Join"}
<1> DEFINE joins == [k EXCEPT !.joined = k.pending, !.pending = NoOne]
           gives == [k EXCEPT !.pending = NoOne]
           request == Requested(j, "Join", 0)
<1>1. joins \in Coordinator /\ joins.pending = NoOne
      /\ joins.role = k.role /\ joins.left = k.left
  BY DEF Coordinator, Someone
<1>2. gives \in Coordinator /\ gives.pending = NoOne
      /\ gives.role = k.role /\ gives.left = k.left
  BY DEF Coordinator, Someone
<1>3. request \in Director /\ request.requested = "Join"
  BY RequestedType
<1>4. Joined(k, j, known, giveUp) \in
        {[co |-> k, job |-> j], [co |-> joins, job |-> request],
         [co |-> gives, job |-> j]}
  BY DEF Joined
<1> HIDE DEF joins, gives, request
<1> QED
  BY <1>1, <1>2, <1>3, <1>4

(* What a machine announces.                                               *)
LEMMA LocalType ==
  ASSUME SessionsType, NEW m \in Nodes, NEW k, NEW j
  PROVE  Local(m, k, j) \in Announcement
<1>1. (Players(m) >= Seats) \in BOOLEAN
  BY PlayersAreCounted, SeatsForTwo
<1>2. Silence \in Announcement
  BY DEF Silence, Announcement
<1>3. \A phase \in {"Lobby", "Playing", "NetworkGame"} :
        [phase |-> phase, full |-> Players(m) >= Seats] \in Announcement
  BY <1>1 DEF Announcement
<1>4. Local(m, k, j) = Silence
      \/ \E phase \in {"Lobby", "Playing", "NetworkGame"} :
           Local(m, k, j) = [phase |-> phase, full |-> Players(m) >= Seats]
  BY DEF Local
<1> QED
  BY <1>2, <1>3, <1>4

(* A poll of m as a whole: the coordinator k of m and its director d after *)
(* it.                                                                     *)
PollGives(m, k, d) ==
  /\ k \in Coordinator /\ d \in Director
  /\ co' = [co EXCEPT ![m] = k] /\ job' = [job EXCEPT ![m] = d]
  /\ k.pending \notin {co[m].pending, NoOne} =>
       place[m] = "level" /\ co[m].role = "Client" /\ ~co[m].left
  /\ k.left => co[m].left
  /\ link[m] = NoOne => k.role = "None"
  /\ d.requested = "Host" => co[m].pending = NoOne

LEMMA PollInShort ==
  ASSUME SessionsType, NEW m \in Nodes,
         NEW late \in BOOLEAN, NEW giveUp \in BOOLEAN,
         CoordinatorPoll(m, late, giveUp)
  PROVE  /\ \E k \in Coordinator, d \in Director : PollGives(m, k, d)
         /\ news' \in [Nodes -> Announcement]
         /\ peers' \in [Nodes -> [Nodes -> Announcement]]
         /\ asked' \in [Nodes -> SUBSET Nodes]
         /\ UNCHANGED <<place, link, members, quit, turns>>
<1> DEFINE j1 == Directed(m, late)
           k1 == Followed(m, j1)
           local == Local(m, k1, j1)
           Known(heard, gone) ==
             [p \in Nodes |-> IF p \in gone THEN Silence
                              ELSE IF p \in heard THEN news[p]
                              ELSE peers[m][p]]
           S1(got) == Asked(k1, j1, got, local, Players(m))
           S2(heard, gone, got) ==
             Joined(S1(got).co, S1(got).job, Known(heard, gone), giveUp)
           Asks(s) == s.co.pending # NoOne /\ s.co.asks
<1>0. PICK heard \in SUBSET {p \in Nodes \ {m} :
                              news[p] \notin {Silence, peers[m][p]}} :
      \E gone \in SUBSET {p \in Nodes \ heard : peers[m][p] # Silence} :
      \E got \in SUBSET asked[m], rest \in SUBSET asked[m] :
        LET s == S2(heard, gone, got) IN
        /\ peers' = [peers EXCEPT ![m] = Known(heard, gone)]
        /\ news' = IF local = Silence THEN news ELSE [news EXCEPT ![m] = local]
        /\ asked' = [h \in Nodes |->
                       IF h = m THEN rest
                       ELSE IF Asks(s) /\ h = s.co.pending THEN asked[h] \cup {m}
                       ELSE asked[h]]
        /\ co' = [co EXCEPT ![m] = s.co]
        /\ job' = [job EXCEPT ![m] = s.job]
        /\ UNCHANGED <<title, quit, turns>>
  BY DEF CoordinatorPoll
<1>1. PICK gone \in SUBSET {p \in Nodes \ heard : peers[m][p] # Silence},
         got \in SUBSET asked[m], rest \in SUBSET asked[m] :
      LET s == S2(heard, gone, got) IN
        /\ peers' = [peers EXCEPT ![m] = Known(heard, gone)]
        /\ news' = IF local = Silence THEN news ELSE [news EXCEPT ![m] = local]
        /\ asked' = [h \in Nodes |->
                       IF h = m THEN rest
                       ELSE IF Asks(s) /\ h = s.co.pending THEN asked[h] \cup {m}
                       ELSE asked[h]]
        /\ co' = [co EXCEPT ![m] = s.co]
        /\ job' = [job EXCEPT ![m] = s.job]
        /\ UNCHANGED <<title, quit, turns>>
  BY <1>0
<1>2. j1 \in Director /\ j1.requested = "no"
  BY DirectedType
<1>3. /\ k1 \in Coordinator
      /\ co[m].pending # NoOne => k1.pending = co[m].pending
      /\ k1.pending # co[m].pending =>
           place[m] = "level" /\ co[m].role = "Client" /\ ~co[m].left
      /\ k1.left => co[m].left
      /\ link[m] = NoOne => k1.role = "None"
  BY <1>2, FollowedOnlyIfLost
<1>4. asked[m] \in SUBSET Nodes /\ got \in SUBSET Nodes
  BY DEF SessionsType
<1>5. /\ S1(got).co \in Coordinator /\ S1(got).job \in Director
      /\ S1(got).co.pending = k1.pending
      /\ S1(got).co.role = k1.role /\ S1(got).co.left = k1.left
      /\ S1(got).job.requested # j1.requested =>
           S1(got).job.requested = "Host" /\ k1.pending = NoOne
  BY <1>2, <1>3, <1>4, AskedOnlyIfFree
<1>6. LET s == S2(heard, gone, got) IN
      /\ s.co \in Coordinator /\ s.job \in Director
      /\ s.co.pending \in {S1(got).co.pending, NoOne}
      /\ s.co.role = S1(got).co.role /\ s.co.left = S1(got).co.left
      /\ s.job.requested \in {S1(got).job.requested, "Join"}
  BY <1>5, JoinedOnlyEnds
<1>7. PollGives(m, S2(heard, gone, got).co, S2(heard, gone, got).job)
  <2> HIDE DEF S1, S2, j1, k1
  <2> QED
    BY <1>1, <1>2, <1>3, <1>5, <1>6 DEF PollGives
<1>8. news' \in [Nodes -> Announcement]
  <2>1. local \in Announcement
    BY LocalType
  <2> HIDE DEF local
  <2> QED
    BY <1>1, <2>1 DEF SessionsType
<1>9. peers' \in [Nodes -> [Nodes -> Announcement]]
  <2>1. Silence \in Announcement
    BY DEF Silence, Announcement
  <2>2. Known(heard, gone) \in [Nodes -> Announcement]
    BY <2>1 DEF SessionsType
  <2> HIDE DEF Known
  <2> QED
    BY <1>1, <2>2 DEF SessionsType
<1>10. asked' \in [Nodes -> SUBSET Nodes]
  <2> HIDE DEF Asks, S2
  <2> QED
    BY <1>1, <1>4 DEF SessionsType
<1> HIDE DEF S2
<1> QED
  BY <1>1, <1>6, <1>7, <1>8, <1>9, <1>10 DEF title

(* A poll of m: no seat is taken or left; a choice to leave is forgotten   *)
(* only with the role that would follow.                                   *)
LEMMA CoordinatorPollKeeps ==
  ASSUME SessionsInv, NEW m \in Nodes,
         NEW late \in BOOLEAN, NEW giveUp \in BOOLEAN,
         CoordinatorPoll(m, late, giveUp), due' \in Someone
  PROVE  SessionsInv'
<1> USE DEF SessionsInv
<1>1. PICK k \in Coordinator, d \in Director : PollGives(m, k, d)
  BY PollInShort
<1>2. /\ news' \in [Nodes -> Announcement]
      /\ peers' \in [Nodes -> [Nodes -> Announcement]]
      /\ asked' \in [Nodes -> SUBSET Nodes]
      /\ UNCHANGED <<place, link, members, quit, turns>>
  BY PollInShort
<1>3. SessionsType'
  BY <1>1, <1>2 DEF SessionsType, PollGives
<1>4. ASSUME NEW n \in Nodes PROVE SeatOk(n)' /\ ChoiceOk(n)'
  <2>1. SeatOk(n)'
    BY <1>2 DEF SeatOk
  <2>2. /\ co'[n] = IF n = m THEN k ELSE co[n]
        /\ link[m] = NoOne => k.role = "None"
    BY <1>1 DEF PollGives, SessionsType
  <2>3. ChoiceOk(n)'
    BY <1>2, <2>2 DEF ChoiceOk
  <2> QED
    BY <2>1, <2>3
<1> QED
  BY <1>3, <1>4

(* m leaves its session: the rest of the title's state is as it was.       *)
LEMMA LeavesKeeps ==
  ASSUME SessionsInv, NEW m \in Nodes, LeavesSession(m)
  PROVE  /\ link' \in [Nodes -> Someone] /\ members' \in [Nodes -> SUBSET Nodes]
         /\ link'[m] = NoOne
         /\ \A n \in Nodes \ {m} : link'[n] = link[n]
         /\ \A n \in Nodes, h \in Nodes :
              n \in members'[h] => n \in members[h] /\ n # m /\ h # m
BY DEF LeavesSession, SessionsInv, SessionsType, Someone

(* What a player does.                                                     *)
LEMMA PlayerKeeps ==
  ASSUME SessionsInv, NEW m \in Nodes, Player(m), due' \in Someone
  PROVE  SessionsInv'
<1> USE DEF SessionsInv
<1>1. co[m] \in Coordinator /\ turns \in Nat
  BY DEF SessionsType
<1>2. CASE StartCampaign(m)
  <2>1. SessionsType'
    BY <1>1, <1>2 DEF StartCampaign, Turn, SessionsType
  <2>2. \A n \in Nodes : SeatOk(n)' /\ ChoiceOk(n)'
    BY <1>2 DEF StartCampaign, SeatOk, ChoiceOk, SessionsType
  <2> QED
    BY <2>1, <2>2
<1>3. CASE JoinChosen(m)
  <2>1. PICK p \in Nodes :
          /\ co' = [co EXCEPT ![m].pending = p, ![m].asks = TRUE]
          /\ quit' = [quit EXCEPT ![m] = FALSE] /\ turns' = turns + 1
          /\ UNCHANGED <<place, link, members, news, peers, asked, job>>
    BY <1>3 DEF JoinChosen, Turn, title
  <2>2. co' = [co EXCEPT ![m] = [co[m] EXCEPT !.pending = p, !.asks = TRUE]]
    BY <2>1 DEF SessionsType
  <2>3. [co[m] EXCEPT !.pending = p, !.asks = TRUE] \in Coordinator
    BY <1>1 DEF Coordinator, Someone
  <2>4. SessionsType'
    BY <1>1, <2>1, <2>2, <2>3 DEF SessionsType
  <2>5. \A n \in Nodes : SeatOk(n)' /\ ChoiceOk(n)'
    BY <2>1, <2>2 DEF SeatOk, ChoiceOk, SessionsType
  <2> QED
    BY <2>4, <2>5
<1>4. CASE Quit(m)
  <2>1. LeavesSession(m) /\ place[m] = "level" /\ place' = place
    BY <1>4 DEF Quit
  <2>2. co' = [co EXCEPT ![m] = [co[m] EXCEPT !.left = TRUE]]
    BY <1>4 DEF Quit, SessionsType
  <2>3. [co[m] EXCEPT !.left = TRUE] \in Coordinator
        /\ [co[m] EXCEPT !.left = TRUE].left
    BY <1>1 DEF Coordinator
  <2>4. SessionsType'
    BY <1>1, <1>4, <2>1, <2>2, <2>3, LeavesKeeps DEF Quit, Turn, SessionsType
  <2>5. ASSUME NEW n \in Nodes PROVE SeatOk(n)' /\ ChoiceOk(n)'
    <3>1. SeatOk(n)'
      BY <2>1, LeavesKeeps DEF SeatOk
    <3>2. ChoiceOk(n)'
      BY <1>4, <2>1, <2>2, <2>3, LeavesKeeps DEF Quit, ChoiceOk, SessionsType
    <3> QED
      BY <3>1, <3>2
  <2> QED
    BY <2>4, <2>5
<1>5. CASE ClosesLobby(m) \/ Dropped(m)
  <2>1. /\ LeavesSession(m) /\ turns' = turns + 1
        /\ place' \in {[place EXCEPT ![m] = "main"], place}
        /\ place[m] = "host" \/ link[m] # NoOne
        /\ UNCHANGED <<news, peers, asked, co, job, quit>>
    BY <1>5 DEF ClosesLobby, Dropped, Turn, SessionsType
  <2>2. SessionsType'
    BY <1>1, <2>1, LeavesKeeps DEF SessionsType
  <2>3. ASSUME NEW n \in Nodes PROVE SeatOk(n)' /\ ChoiceOk(n)'
    <3>1. SeatOk(n)'
      BY <2>1, LeavesKeeps DEF SeatOk, SessionsType
    <3>2. ChoiceOk(n)'
      BY <2>1, LeavesKeeps DEF ChoiceOk, SessionsType
    <3> QED
      BY <3>1, <3>2
  <2> QED
    BY <2>2, <2>3
<1> QED
  BY <1>2, <1>3, <1>4, <1>5 DEF Player

(* What the title does.                                                    *)
LEMMA TitleKeeps ==
  ASSUME SessionsInv, NEW m \in Nodes, Title(m), due' \in Someone
  PROVE  SessionsInv'
<1> USE DEF SessionsInv
<1>1. CASE Exits(m)
  <2>1. /\ LeavesSession(m)
        /\ place' \in {[place EXCEPT ![m] = "main"], place}
        /\ link[m] # NoOne
        /\ UNCHANGED <<news, peers, asked, co, job, quit, turns>>
    BY <1>1 DEF Exits, SessionsType
  <2>2. SessionsType'
    BY <2>1, LeavesKeeps DEF SessionsType
  <2>3. ASSUME NEW n \in Nodes PROVE SeatOk(n)' /\ ChoiceOk(n)'
    <3>1. SeatOk(n)'
      BY <2>1, LeavesKeeps DEF SeatOk, SessionsType
    <3>2. ChoiceOk(n)'
      BY <2>1, LeavesKeeps DEF ChoiceOk, SessionsType
    <3> QED
      BY <3>1, <3>2
  <2> QED
    BY <2>2, <2>3
<1>2. CASE ToMain(m)
  BY <1>2 DEF ToMain, SessionsType, SeatOk, ChoiceOk
<1>3. CASE BecomesReady(m)
  BY <1>3 DEF BecomesReady, SessionsType, SeatOk, ChoiceOk
<1>4. CASE Posts(m)
  <2>1. \A h \in Nodes : m \notin members[h]
    BY <1>4, NoOneIsNew DEF Posts, SeatOk
  <2>2. SessionsType'
    BY <1>4 DEF Posts, SessionsType, Someone
  <2>3. ASSUME NEW n \in Nodes PROVE SeatOk(n)' /\ ChoiceOk(n)'
    BY <1>4, <2>1 DEF Posts, SeatOk, ChoiceOk, SessionsType
  <2> QED
    BY <2>2, <2>3
<1>5. ASSUME NEW h \in Nodes, Enters(m, h) PROVE SessionsInv'
  <2>1. \A g \in Nodes : m \notin members[g]
    BY <1>5, NoOneIsNew DEF Enters, SeatOk
  <2>2. SessionsType'
    BY <1>5 DEF Enters, SessionsType, Someone
  <2>3. ASSUME NEW n \in Nodes PROVE SeatOk(n)' /\ ChoiceOk(n)'
    BY <1>5, <2>1 DEF Enters, SeatOk, ChoiceOk, SessionsType
  <2> QED
    BY <2>2, <2>3
<1>6. CASE Starts(m)
  <2>1. \A n \in members[m] : link[n] = m /\ link[n] # NoOne
    BY NoOneIsNew DEF SeatOk, SessionsType
  <2>2. SessionsType'
    BY <1>6 DEF Starts, SessionsType
  <2>3. ASSUME NEW n \in Nodes PROVE SeatOk(n)' /\ ChoiceOk(n)'
    BY <1>6, <2>1 DEF Starts, SeatOk, ChoiceOk, SessionsType
  <2> QED
    BY <2>2, <2>3
<1> QED
  BY <1>1, <1>2, <1>3, <1>4, <1>5, <1>6 DEF Title

(* Every step, and a stuttering step.                                      *)
LEMMA SessionsStep == SessionsInv /\ [SessionsNext]_sessionVars => SessionsInv'
<1> SUFFICES ASSUME SessionsInv, [SessionsNext]_sessionVars PROVE SessionsInv'
  OBVIOUS
<1>1. CASE SessionsNext
  <2>1. PICK m \in Nodes :
          \/ \E late \in BOOLEAN, giveUp \in BOOLEAN :
               CoordinatorPoll(m, late, giveUp) /\ due' \in {m, NoOne}
          \/ (Title(m) \/ Player(m)) /\ due' = NoOne
    BY <1>1 DEF SessionsNext, Directing
  <2>2. due' \in Someone
    BY <2>1 DEF Someone
  <2> QED
    BY <2>1, <2>2, CoordinatorPollKeeps, TitleKeeps, PlayerKeeps
<1>2. CASE UNCHANGED sessionVars
  BY <1>2 DEF sessionVars, title, SessionsInv, SessionsType, SeatOk, ChoiceOk
<1> QED
  BY <1>1, <1>2

(* The invariant of LanSessions: a machine is listed in no session but the *)
(* one it is in, and a player's choice to leave is known to the            *)
(* coordinator for as long as it would follow a host.                      *)
THEOREM SessionsInvariant == SessionsSpec => []SessionsInv
  BY SessionsStart, SessionsStep, PTL DEF SessionsSpec

(* A choice to leave is final: no poll, late news or lost link makes that  *)
(* machine wait for a host again (should_follow_host, follow_lost_host).   *)
THEOREM QuitIsFinal == SessionsSpec => ChoiceIsFinal
<1>1. ASSUME SessionsInv, SessionsNext, NEW n \in Nodes,
             quit[n], quit'[n], co[n].pending = NoOne
      PROVE  co'[n].pending = NoOne
  <2> USE DEF SessionsInv
  <2>1. PICK m \in Nodes :
          \/ \E late \in BOOLEAN, giveUp \in BOOLEAN :
               CoordinatorPoll(m, late, giveUp)
          \/ Title(m) \/ Player(m)
    BY <1>1 DEF SessionsNext, Directing
  <2>2. ASSUME NEW late \in BOOLEAN, NEW giveUp \in BOOLEAN,
               CoordinatorPoll(m, late, giveUp)
        PROVE  co'[n].pending = NoOne
    <3>1. PICK k \in Coordinator, d \in Director : PollGives(m, k, d)
      BY <1>1, <2>2, PollInShort
    <3> QED
      BY <1>1, <3>1 DEF PollGives, ChoiceOk, SessionsType
  <2>3. CASE Title(m)
    <3>1. co' = co
      BY <2>3 DEF Title, Exits, ToMain, Posts, BecomesReady, Starts, Enters
    <3> QED
      BY <1>1, <3>1
  <2>4. CASE Player(m)
    <3>1. CASE JoinChosen(m)
      BY <1>1, <3>1 DEF JoinChosen, SessionsType
    <3>2. CASE Quit(m)
      BY <1>1, <3>2 DEF Quit, SessionsType, Coordinator
    <3>3. CASE StartCampaign(m) \/ ClosesLobby(m) \/ Dropped(m)
      BY <1>1, <3>3 DEF StartCampaign, ClosesLobby, Dropped
    <3> QED
      BY <2>4, <3>1, <3>2, <3>3 DEF Player
  <2> QED
    BY <2>1, <2>2, <2>3, <2>4
<1>2. SessionsInv /\ [SessionsNext]_sessionVars =>
        [\A m \in Nodes :
           quit[m] /\ quit'[m] /\ co[m].pending = NoOne
           => co'[m].pending = NoOne]_sessionVars
  BY <1>1
<1> QED
  BY <1>2, SessionsInvariant, PTL DEF SessionsSpec, ChoiceIsFinal

(* Who waits for another's lobby does not open its own when asked to.      *)
THEOREM NoWaiterHosts == SessionsSpec => WaitersDoNotHost
<1>1. ASSUME SessionsInv, SessionsNext, NEW n \in Nodes,
             job'[n].requested = "Host", job[n].requested # "Host"
      PROVE  co[n].pending = NoOne
  <2> USE DEF SessionsInv
  <2>1. PICK m \in Nodes :
          \/ \E late \in BOOLEAN, giveUp \in BOOLEAN :
               CoordinatorPoll(m, late, giveUp)
          \/ Title(m) \/ Player(m)
    BY <1>1 DEF SessionsNext, Directing
  <2>2. ASSUME NEW late \in BOOLEAN, NEW giveUp \in BOOLEAN,
               CoordinatorPoll(m, late, giveUp)
        PROVE  co[n].pending = NoOne
    <3>1. PICK k \in Coordinator, d \in Director : PollGives(m, k, d)
      BY <1>1, <2>2, PollInShort
    <3> QED
      BY <1>1, <3>1 DEF PollGives, SessionsType
  <2>3. CASE Title(m) \/ Player(m)
    <3>1. job' = job
      BY <2>3 DEF Title, Exits, ToMain, Posts, BecomesReady, Starts, Enters,
                  Player, StartCampaign, JoinChosen, Quit, ClosesLobby, Dropped
    <3> QED
      BY <1>1, <3>1
  <2> QED
    BY <2>1, <2>2, <2>3
<1>2. SessionsInv /\ [SessionsNext]_sessionVars =>
        [\A m \in Nodes :
           job'[m].requested = "Host" /\ job[m].requested # "Host"
           => co[m].pending = NoOne]_sessionVars
  BY <1>1
<1> QED
  BY <1>2, SessionsInvariant, PTL DEF SessionsSpec, WaitersDoNotHost
=============================================================================
