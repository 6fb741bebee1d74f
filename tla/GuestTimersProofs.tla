------------------------- MODULE GuestTimersProofs --------------------------
(***************************************************************************)
(* Proofs about GuestTimers, for any threads, slots, lengths and bounds.   *)
(*                                                                         *)
(* A step changes the calls in progress in one of three ways: a pump or a  *)
(* native slot adds a call, a return takes the innermost one away, or a    *)
(* pump goes on and puts its next callback in the place of the last.       *)
(***************************************************************************)
EXTENDS GuestTimers, SequenceTheorems, WellFoundedInduction, TLAPS

Frame == [saved : 0 .. Arena, base : 0 .. Arena,
          why : {"timer", "slot"}, id : Timers, at : 0 .. MaxTime]

(* A set of naturals has a least one.                                      *)
LEMMA Least ==
  ASSUME NEW T \in SUBSET Nat, T # {}
  PROVE  LeastOf(T) \in T /\ \A n \in T : LeastOf(T) <= n
<1> DEFINE R == {ss \in Nat \X Nat : ss[1] < ss[2]}
<1>1. OpToRel(<, Nat) = R
  BY Zenon DEF OpToRel
<1>2. IsWellFoundedOn(R, Nat)
  BY <1>1, NatLessThanWellFounded, Zenon
<1>3. PICK x \in T : \A y \in T : <<y, x>> \notin R
  <2> HIDE DEF R
  <2> QED
    BY <1>2, WFMin
<1>4. ASSUME NEW y \in T PROVE x <= y
  <2>1. <<y, x>> \in Nat \X Nat /\ <<y, x>> \notin R
    BY <1>3
  <2>2. ~(y < x)
    BY <2>1
  <2> QED
    BY <2>2
<1> QED
  BY <1>4 DEF LeastOf

(* The last of a sequence and those before it.                             *)
LEMMA LastAndFront ==
  ASSUME NEW S, NEW s \in Seq(S), s # << >>
  PROVE  /\ Last(s) \in S /\ Last(s) = s[Len(s)] /\ Front(s) \in Seq(S)
         /\ Len(s) \in Nat \ {0} /\ Len(Front(s)) = Len(s) - 1
         /\ \A i \in 1 .. Len(s) - 1 : Front(s)[i] = s[i]
<1>1. Len(s) \in Nat /\ Len(s) # 0
  BY EmptySeq, LenProperties
<1>2. Last(s) \in S
  BY <1>1, ElementOfSeq DEF Last
<1>3. /\ Front(s) \in Seq(S) /\ Len(Front(s)) = Len(s) - 1
      /\ \A i \in 1 .. Len(s) - 1 : Front(s)[i] = s[i]
  <2>1. \A i \in 1 .. Len(s) - 1 : s[i] \in S
    BY <1>1, ElementOfSeq
  <2>2. /\ SubSeq(s, 1, Len(s) - 1) \in Seq(S)
        /\ Len(SubSeq(s, 1, Len(s) - 1)) =
             IF 1 <= Len(s) - 1 THEN (Len(s) - 1) - 1 + 1 ELSE 0
        /\ \A i \in 1 .. (Len(s) - 1) - 1 + 1 : SubSeq(s, 1, Len(s) - 1)[i] = s[1 + i - 1]
    BY <1>1, <2>1, SubSeqProperties
  <2>3. \A i \in 1 .. Len(s) - 1 : SubSeq(s, 1, Len(s) - 1)[i] = s[i]
    <3> TAKE i \in 1 .. Len(s) - 1
    <3>1. i \in 1 .. (Len(s) - 1) - 1 + 1 /\ 1 + i - 1 = i
      BY <1>1
    <3> QED
      BY <2>2, <3>1, Zenon
  <2>4. Len(SubSeq(s, 1, Len(s) - 1)) = Len(s) - 1
    <3> DEFINE n == Len(s) - 1
               m == Len(SubSeq(s, 1, Len(s) - 1))
    <3>1. m = IF 1 <= n THEN n - 1 + 1 ELSE 0
      BY <2>2, Zenon
    <3>2. n \in Nat
      BY <1>1
    <3> HIDE DEF m, n
    <3>3. m = n
      BY <3>1, <3>2
    <3> QED
      BY <3>3 DEF m, n
  <2> QED
    BY <2>2, <2>3, <2>4, Zenon DEF Front
<1> QED
  BY <1>1, <1>2, <1>3 DEF Last

(* The innermost call of a thread and those it is inside of.               *)
LEMMA Innermost ==
  ASSUME NEW s \in Seq(Frame), s # << >>
  PROVE  /\ Last(s) \in Frame /\ Last(s) = s[Len(s)] /\ Front(s) \in Seq(Frame)
         /\ Len(s) \in Nat \ {0} /\ Len(Front(s)) = Len(s) - 1
         /\ \A i \in 1 .. Len(s) - 1 : Front(s)[i] = s[i]
  BY LastAndFront, Zenon

(* What a pump does when it calls the callback of slot j.                  *)
Fires(t, rest, sp, j, at) ==
  /\ IsDue(j, at) /\ Fire(j, at)
  /\ pumping' = "yes"
  /\ CallOut(t, rest, sp, 5, "timer", j, at)

(* The loop of a pump calls one callback that is due, or it ends.          *)
LEMMA ScanSteps ==
  ASSUME NEW t, NEW rest, NEW sp, NEW i \in Nat \ {0}, NEW at, Scan(t, rest, sp, i, at)
  PROVE  \/ /\ DueFrom(i, at) = {} /\ pumping' = "no"
            /\ frames' = [frames EXCEPT ![t] = rest] /\ top' = sp /\ UNCHANGED timers
         \/ \E j \in Timers : Fires(t, rest, sp, j, at)
<1>1. CASE DueFrom(i, at) = {}
  BY <1>1 DEF Scan, AfterCall
<1>2. CASE DueFrom(i, at) # {}
  <2>1. DueFrom(i, at) \in SUBSET Nat /\ DueFrom(i, at) \subseteq Timers
    BY MaxTimersIsPositive DEF DueFrom, Timers
  <2>2. LeastOf(DueFrom(i, at)) \in DueFrom(i, at)
    BY <1>2, <2>1, Least
  <2>3. LeastOf(DueFrom(i, at)) \in Timers /\ IsDue(LeastOf(DueFrom(i, at)), at)
    BY <2>1, <2>2 DEF DueFrom
  <2> QED
    BY <1>2, <2>3 DEF Scan, Fires
<1> QED
  BY <1>1, <1>2

(* Every way into a pump.                                                  *)
LEMMA PumpSteps ==
  ASSUME NEW t \in Threads, QueryTime(t) \/ TimedOut(t) \/ Disturbed(t)
  PROVE  /\ \/ UNCHANGED <<timers, pumping, calls>>
            \/ pumping = "no" /\ \E j \in Timers : Fires(t, frames[t], top, j, now)
         /\ now' = now /\ wake' = wake
         /\ (place' = place /\ place[t] = "running") \/ place' = [place EXCEPT ![t] = "running"]
<1>1. /\ Pump(t) /\ now' = now /\ wake' = wake
      /\ (place' = place /\ place[t] = "running") \/ place' = [place EXCEPT ![t] = "running"]
  BY DEF QueryTime, TimedOut, Disturbed, Resume, park
<1>2. CASE MayPump /\ DueFrom(1, now) # {}
  <2>1. Scan(t, frames[t], top, 1, now)
    BY <1>1, <1>2 DEF Pump
  <2>2. 1 \in Nat \ {0}
    OBVIOUS
  <2>3. \E j \in Timers : Fires(t, frames[t], top, j, now)
    BY <1>2, <2>1, <2>2, ScanSteps, Zenon
  <2> QED
    BY <1>1, <1>2, <2>3 DEF MayPump
<1>3. CASE ~(MayPump /\ DueFrom(1, now) # {})
  BY <1>1, <1>3 DEF Pump
<1> QED
  BY <1>2, <1>3

(* Every way out of a call.                                                *)
LEMMA Returns ==
  ASSUME TypeOK, NEW t \in Threads, Return(t)
  PROVE  LET f == Last(frames[t])
             rest == Front(frames[t])
         IN /\ frames[t] # << >> /\ place[t] = "running" /\ UNCHANGED <<now, park>>
            /\ \/ /\ frames' = [frames EXCEPT ![t] = rest] /\ top' = f.saved
                  /\ UNCHANGED timers
                  /\ \/ f.why = "slot" /\ pumping' = pumping
                     \/ f.why = "timer" /\ pumping' = "no"
               \/ f.why = "timer" /\ \E j \in Timers : Fires(t, rest, f.saved, j, f.at)
<1> DEFINE f == Last(frames[t])
           rest == Front(frames[t])
<1>1. frames[t] # << >> /\ place[t] = "running" /\ UNCHANGED <<now, park>>
      /\ \/ f.why = "timer" /\ Scan(t, rest, f.saved, f.id + 1, f.at)
         \/ /\ f.why = "slot" /\ frames' = [frames EXCEPT ![t] = rest] /\ top' = f.saved
            /\ UNCHANGED <<timers, pumping>>
  BY DEF Return, Restored
<1>2. f \in Frame
  BY <1>1, Innermost DEF TypeOK, Frame
<1>3. f.id + 1 \in Nat \ {0}
  BY <1>2, MaxTimersIsPositive DEF Frame, Timers
<1>4. CASE f.why = "timer" /\ Scan(t, rest, f.saved, f.id + 1, f.at)
  <2> HIDE DEF f, rest
  <2>1. \/ /\ pumping' = "no" /\ UNCHANGED timers
           /\ frames' = [frames EXCEPT ![t] = rest] /\ top' = f.saved
        \/ \E j \in Timers : Fires(t, rest, f.saved, j, f.at)
    BY <1>3, <1>4, ScanSteps
  <2> QED
    BY <1>1, <1>4, <2>1 DEF f, rest
<1>5. CASE f.why = "slot" /\ frames' = [frames EXCEPT ![t] = rest] /\ top' = f.saved
           /\ UNCHANGED <<timers, pumping>>
  BY <1>1, <1>5
<1> QED
  BY <1>1, <1>4, <1>5

-----------------------------------------------------------------------------
(* The calls of a thread that has made one more, above those in rest.      *)
Called(t, rest, sp, n, why, id, at) ==
  /\ frames' \in [Threads -> Seq(Frame)] /\ top' \in 0 .. Arena
  /\ Len(frames'[t]) = Len(rest) + 1 /\ Len(rest) \in Nat
  /\ Last(frames'[t]) = frames'[t][Len(rest) + 1]
  /\ Last(frames'[t]).saved = sp /\ Last(frames'[t]).base = sp - n
  /\ Last(frames'[t]).why = why /\ Last(frames'[t]).id = id
  /\ Last(frames'[t]).at = at
  /\ \A i \in 1 .. Len(rest) : frames'[t][i] = rest[i]
  /\ \A u \in Threads \ {t} : frames'[u] = frames[u]
  /\ top' = (sp - n) - Window /\ sp >= n + Window

(* CallOut makes such a call.                                              *)
LEMMA Calling ==
  ASSUME TypeOK, NEW t \in Threads, NEW rest \in Seq(Frame), NEW sp \in 0 .. Arena,
         NEW n \in Nat, NEW why \in {"timer", "slot"}, NEW id \in Timers,
         NEW at \in 0 .. MaxTime, CallOut(t, rest, sp, n, why, id, at)
  PROVE  Called(t, rest, sp, n, why, id, at)
<1> DEFINE f == [saved |-> sp, base |-> sp - n, why |-> why, id |-> id, at |-> at]
<1>1. sp >= n + Window /\ frames' = [frames EXCEPT ![t] = Append(rest, f)]
      /\ top' = (sp - n) - Window
  BY DEF CallOut, Lowered
<1>2. /\ f \in Frame /\ f.base = sp - n /\ f.saved = sp
      /\ f.why = why /\ f.id = id /\ f.at = at
  BY <1>1, ArenaHoldsACallback DEF Frame
<1>3. frames \in [Threads -> Seq(Frame)]
  BY DEF TypeOK, Frame
<1> HIDE DEF f
<1>4. /\ Append(rest, f) \in Seq(Frame) /\ Len(Append(rest, f)) = Len(rest) + 1
      /\ \A i \in 1 .. Len(rest) : Append(rest, f)[i] = rest[i]
      /\ Append(rest, f)[Len(rest) + 1] = f /\ Len(rest) \in Nat
  BY <1>2, AppendProperties, LenProperties
<1>5. frames'[t] = Append(rest, f)
  BY <1>1, <1>3
<1>6. top' \in 0 .. Arena
  BY <1>1, <1>2, ArenaHoldsACallback
<1>7. Last(frames'[t]) = f
  BY <1>4, <1>5 DEF Last
<1>8. frames' \in [Threads -> Seq(Frame)] /\ \A u \in Threads \ {t} : frames'[u] = frames[u]
  BY <1>1, <1>3, <1>4
<1> QED
  BY <1>1, <1>2, <1>4, <1>5, <1>6, <1>7, <1>8 DEF f, Called

(* A pump's calls are of that kind.                                        *)
LEMMA TimerCalling ==
  ASSUME TypeOK, NEW t \in Threads, NEW rest \in Seq(Frame), NEW sp \in 0 .. Arena,
         NEW id \in Timers, NEW at \in 0 .. MaxTime,
         CallOut(t, rest, sp, 5, "timer", id, at)
  PROVE  Called(t, rest, sp, 5, "timer", id, at)
<1>1. 5 \in Nat /\ "timer" \in {"timer", "slot"}
  OBVIOUS
<1> QED
  BY <1>1, Calling

(* And so are those of a native slot.                                      *)
LEMMA SlotCalling ==
  ASSUME TypeOK, NEW t \in Threads, NEW n \in SlotArgs,
         CallOut(t, frames[t], top, n, "slot", 1, 0)
  PROVE  Called(t, frames[t], top, n, "slot", 1, 0)
<1>1. frames[t] \in Seq(Frame) /\ top \in 0 .. Arena
  BY DEF TypeOK, Frame
<1>2. n \in Nat /\ 1 \in Timers /\ 0 \in 0 .. MaxTime /\ "slot" \in {"timer", "slot"}
  BY SlotArgsAreNat, MaxTimersIsPositive, MaxTimeIsNat DEF Timers
<1> QED
  BY <1>1, <1>2, Calling

(* What a fire does to the slots.                                          *)
LEMMA Firing ==
  ASSUME TypeOK, NEW j \in Timers, NEW at \in 0 .. MaxTime, Fire(j, at)
  PROVE  /\ kind' \in [Timers -> {"free", "oneshot", "periodic"}]
         /\ due' \in [Timers -> Nat] /\ delay' \in [Timers -> Nat]
         /\ promise' \in [Timers -> Nat]
         /\ \A i \in Timers : kind'[i] # "free" /\ (kind[i] # "free" => promise[i] = due[i])
                                => promise'[i] = due'[i]
<1> USE DEF TypeOK
<1>1. MaxTime \in Nat /\ Forever \in Nat /\ delay[j] \in Nat /\ at + delay[j] \in Nat
  BY MaxTimeIsNat DEF Forever
<1>2. CASE kind[j] = "periodic"
  <2>1. /\ due' = [due EXCEPT ![j] = at + delay[j]] /\ kind' = kind /\ delay' = delay
        /\ promise' = [promise EXCEPT ![j] = at + delay[j]]
    BY <1>2 DEF Fire
  <2> QED
    BY <1>1, <2>1
<1>3. CASE kind[j] # "periodic"
  <2>1. /\ due' = due /\ kind' = [kind EXCEPT ![j] = "free"] /\ delay' = delay
        /\ promise' = [promise EXCEPT ![j] = Forever]
    BY <1>3 DEF Fire
  <2> QED
    BY <1>1, <2>1
<1> QED
  BY <1>2, <1>3

(* The park of a thread that waits or sleeps is set to end in time.        *)
LEMMA NextDueBounds ==
  ASSUME TypeOK, NEW ms \in Nat
  PROVE  /\ NextDue(ms) \in Nat /\ NextDue(ms) <= ms
         /\ \A j \in Timers : kind[j] # "free" =>
              now + NextDue(ms) <= due[j] \/ now + NextDue(ms) <= now
<1> USE DEF TypeOK
<1> DEFINE S == {ms} \cup {MsLeft(j) : j \in Earliest}
<1>1. \A j \in Timers : MsLeft(j) \in Nat
  BY DEF MsLeft
<1>2. S \in SUBSET Nat /\ ms \in S
  BY <1>1 DEF Earliest
<1>3. NextDue(ms) = LeastOf(S)
  BY DEF NextDue
<1>4. LeastOf(S) \in S /\ \A n \in S : LeastOf(S) <= n
  <2> HIDE DEF S
  <2> QED
    BY <1>2, Least
<1>5. ASSUME NEW j \in Timers, kind[j] # "free"
      PROVE  now + NextDue(ms) <= due[j] \/ now + NextDue(ms) <= now
  <2> DEFINE D == {due[i] : i \in {k \in Timers : kind[k] # "free"}}
  <2>1. D \in SUBSET Nat /\ due[j] \in D
    BY <1>5
  <2>2. LeastOf(D) \in D /\ \A n \in D : LeastOf(D) <= n
    <3> HIDE DEF D
    <3> QED
      BY <2>1, Least
  <2>3. PICK i \in Timers : kind[i] # "free" /\ due[i] = LeastOf(D)
    BY <2>2
  <2>4. \A k \in Timers : kind[k] # "free" => due[i] <= due[k]
    <3>1. \A k \in Timers : kind[k] # "free" => due[k] \in D
      OBVIOUS
    <3> HIDE DEF D
    <3> QED
      BY <2>2, <2>3, <3>1
  <2>5. i \in Earliest
    BY <2>3, <2>4 DEF Earliest
  <2>6. MsLeft(i) \in S
    BY <2>5
  <2>7. NextDue(ms) <= MsLeft(i) /\ NextDue(ms) \in Nat
    <3> HIDE DEF S
    <3> QED
      BY <1>2, <1>3, <1>4, <2>6
  <2> HIDE DEF D, S
  <2> QED
    BY <1>5, <2>3, <2>4, <2>7 DEF MsLeft
<1> QED
  BY <1>2, <1>3, <1>4, <1>5

(* The types hold through every step.                                      *)
LEMMA TypeStep == TypeOK /\ [Next]_vars => TypeOK'
<1> SUFFICES ASSUME TypeOK, [Next]_vars PROVE TypeOK'
  OBVIOUS
<1>a. \A ms \in Nat : NextDue(ms) \in Nat /\ NextDue(ms) <= ms
  BY NextDueBounds
<1> USE DEF TypeOK, timers, park, calls
<1>0. frames \in [Threads -> Seq(Frame)] /\ (frames' \in [Threads -> Seq(Frame)] =>
        frames' \in [Threads -> Seq([saved : 0 .. Arena, base : 0 .. Arena,
                                     why : {"timer", "slot"}, id : Timers, at : 0 .. MaxTime])])
  BY DEF Frame
<1>1. CASE UNCHANGED vars
  BY <1>1 DEF vars
<1>2. CASE Tick
  <2>1. now' \in 0 .. MaxTime
    BY <1>2, MaxTimeIsNat DEF Tick
  <2> QED
    BY <1>2, <2>1 DEF Tick
<1>3. ASSUME NEW t \in Threads, NEW rest \in Seq(Frame), NEW sp \in 0 .. Arena, NEW j \in Timers,
             NEW at \in 0 .. MaxTime, Fires(t, rest, sp, j, at), now' = now, wake' = wake,
             place' \in [Threads -> {"running", "waiting", "sleeping"}]
      PROVE  TypeOK'
  <2>1. Fire(j, at) /\ CallOut(t, rest, sp, 5, "timer", j, at) /\ pumping' = "yes"
    BY <1>3 DEF Fires
  <2>2. frames' \in [Threads -> Seq(Frame)] /\ top' \in 0 .. Arena
    <3>1. Called(t, rest, sp, 5, "timer", j, at)
      BY <1>3, <2>1, TimerCalling
    <3> QED
      BY <1>3, <2>1, <3>1 DEF Called
  <2>3. /\ kind' \in [Timers -> {"free", "oneshot", "periodic"}]
        /\ due' \in [Timers -> Nat] /\ delay' \in [Timers -> Nat]
        /\ promise' \in [Timers -> Nat]
    BY <1>3, <2>1, Firing
  <2> QED
    BY <1>0, <1>3, <2>1, <2>2, <2>3
<1>4. ASSUME NEW t \in Threads, QueryTime(t) \/ TimedOut(t) \/ Disturbed(t) PROVE TypeOK'
  <2>1. place' \in [Threads -> {"running", "waiting", "sleeping"}] /\ now' = now /\ wake' = wake
    BY <1>4, PumpSteps
  <2>2. frames[t] \in Seq(Frame)
    BY <1>0
  <2>3. CASE UNCHANGED <<timers, pumping, calls>>
    BY <2>1, <2>3
  <2>4. ASSUME NEW j \in Timers, Fires(t, frames[t], top, j, now) PROVE TypeOK'
    BY <1>3, <2>1, <2>2, <2>4
  <2> QED
    BY <1>4, <2>3, <2>4, PumpSteps
<1>5. ASSUME NEW t \in Threads, Return(t) PROVE TypeOK'
  <2> DEFINE f == Last(frames[t])
             rest == Front(frames[t])
  <2>1. frames[t] # << >> /\ UNCHANGED <<now, park>>
    BY <1>5, Returns
  <2>2. f \in Frame /\ rest \in Seq(Frame)
    BY <1>0, <2>1, Innermost
  <2>3. \/ /\ frames' = [frames EXCEPT ![t] = rest] /\ top' = f.saved
           /\ UNCHANGED timers /\ pumping' \in {"no", pumping}
        \/ \E j \in Timers : Fires(t, rest, f.saved, j, f.at)
    BY <1>5, Returns
  <2> HIDE DEF f, rest
  <2>4. f.saved \in 0 .. Arena /\ f.at \in 0 .. MaxTime
    BY <2>2 DEF Frame
  <2>5. CASE /\ frames' = [frames EXCEPT ![t] = rest] /\ top' = f.saved
             /\ UNCHANGED timers /\ pumping' \in {"no", pumping}
    <3>1. frames' \in [Threads -> Seq(Frame)]
      BY <1>0, <2>2, <2>5
    <3> QED
      BY <1>0, <2>1, <2>4, <2>5, <3>1
  <2>6. ASSUME NEW j \in Timers, Fires(t, rest, f.saved, j, f.at) PROVE TypeOK'
    BY <1>3, <2>1, <2>2, <2>4, <2>6
  <2> QED
    BY <2>3, <2>5, <2>6
<1>6. ASSUME NEW t \in Threads, NEW n \in SlotArgs, SlotCall(t, n) PROVE TypeOK'
  <2>1. frames[t] \in Seq(Frame) /\ n \in Nat /\ 1 \in Timers /\ 0 \in 0 .. MaxTime
    BY <1>0, SlotArgsAreNat, MaxTimersIsPositive, MaxTimeIsNat DEF Timers
  <2>2. CallOut(t, frames[t], top, n, "slot", 1, 0) /\ UNCHANGED <<now, timers, pumping, park>>
    BY <1>6 DEF SlotCall
  <2>3. frames' \in [Threads -> Seq(Frame)] /\ top' \in 0 .. Arena
    <3>1. Called(t, frames[t], top, n, "slot", 1, 0)
      BY <2>1, <2>2, SlotCalling
    <3> QED
      BY <2>1, <2>2, <3>1 DEF Called
  <2> QED
    BY <1>0, <2>2, <2>3
<1>7. ASSUME NEW t \in Threads, NEW ms \in Lengths, NEW k \in {"oneshot", "periodic"},
             SetEvent(t, ms, k)
      PROVE  TypeOK'
  <2> DEFINE j == LeastOf(FreeSlots)
  <2>1. FreeSlots \in SUBSET Nat /\ FreeSlots # {} /\ FreeSlots \subseteq Timers
    BY <1>7, MaxTimersIsPositive DEF SetEvent, FreeSlots, Timers
  <2>2. j \in Timers
    BY <2>1, Least
  <2>3. now + AtLeast1(ms) \in Nat /\ AtLeast1(ms) \in Nat
    BY LengthsAreNat, MaxTimeIsNat DEF AtLeast1
  <2>4. /\ kind' = [kind EXCEPT ![j] = k]
        /\ delay' = [delay EXCEPT ![j] = AtLeast1(ms)]
        /\ due' = [due EXCEPT ![j] = now + AtLeast1(ms)]
        /\ promise' = [promise EXCEPT ![j] = now + AtLeast1(ms)]
        /\ UNCHANGED <<now, pumping, calls, park>>
    BY <1>7 DEF SetEvent
  <2> HIDE DEF j
  <2> QED
    BY <2>2, <2>3, <2>4
<1>8. ASSUME NEW t \in Threads, NEW j \in Timers, KillEvent(t, j) PROVE TypeOK'
  <2>1. Forever \in Nat
    BY MaxTimeIsNat DEF Forever
  <2> QED
    BY <1>8, <2>1 DEF KillEvent
<1>9. ASSUME NEW t \in Threads, NEW ms \in Lengths, Wait(t, ms) PROVE TypeOK'
  <2>1. ms \in Nat /\ now + ms <= MaxTime
    BY <1>9, LengthsAreNat DEF Wait
  <2>2. now + NextDue(ms) \in 0 .. MaxTime
    <3> DEFINE d == NextDue(ms)
    <3>1. d \in Nat /\ d <= ms /\ now \in Nat
      BY <1>a, <2>1, MaxTimeIsNat
    <3> HIDE DEF d
    <3>2. now + d \in 0 .. MaxTime
      BY <2>1, <3>1, MaxTimeIsNat
    <3> QED
      BY <3>2 DEF d
  <2> QED
    BY <1>9, <2>2 DEF Wait
<1>10. ASSUME NEW t \in Threads, NEW ms \in Lengths, Sleep(t, ms) PROVE TypeOK'
  <2>1. now + ms \in 0 .. MaxTime
    BY <1>10, LengthsAreNat, MaxTimeIsNat DEF Sleep
  <2> QED
    BY <1>10, <2>1 DEF Sleep
<1> QED
  BY <1>1, <1>2, <1>4, <1>5, <1>6, <1>7, <1>8, <1>9, <1>10 DEF Next

(* Each timer of the guest has somebody who will be awake for it.          *)
LEMMA AwaitedStep == TypeOK /\ TimerIsAwaited /\ [Next]_vars => TimerIsAwaited'
<1> SUFFICES ASSUME TypeOK, TimerIsAwaited, [Next]_vars PROVE TimerIsAwaited'
  OBVIOUS
<1> USE DEF timers, park, calls
<1>0. place \in [Threads -> {"running", "waiting", "sleeping"}] /\ DOMAIN wake = Threads
      /\ now \in Nat /\ wake \in [Threads -> Nat]
  BY MaxTimeIsNat DEF TypeOK
<1>1. CASE UNCHANGED vars
  BY <1>1 DEF vars, TimerIsAwaited
<1>2. CASE Tick
  BY <1>0, <1>2 DEF Tick, TimerIsAwaited, TypeOK
<1>3. ASSUME NEW t \in Threads, place'[t] # "waiting" PROVE TimerIsAwaited'
  BY <1>3 DEF TimerIsAwaited
<1>4. ASSUME NEW t \in Threads, QueryTime(t) \/ TimedOut(t) \/ Disturbed(t) PROVE TimerIsAwaited'
  <2>1. place'[t] = "running"
    BY <1>0, <1>4, PumpSteps
  <2> QED
    BY <1>3, <2>1
<1>5. ASSUME NEW t \in Threads, Return(t) PROVE TimerIsAwaited'
  BY <1>3, <1>5 DEF Return
<1>6. ASSUME NEW t \in Threads, NEW n, SlotCall(t, n) PROVE TimerIsAwaited'
  BY <1>3, <1>6 DEF SlotCall
<1>7. ASSUME NEW t \in Threads, NEW ms, NEW k, SetEvent(t, ms, k) PROVE TimerIsAwaited'
  BY <1>3, <1>7 DEF SetEvent
<1>8. ASSUME NEW t \in Threads, NEW j, KillEvent(t, j) PROVE TimerIsAwaited'
  BY <1>3, <1>8 DEF KillEvent
<1>9. ASSUME NEW t \in Threads, NEW ms \in Lengths, Wait(t, ms) PROVE TimerIsAwaited'
  <2>1. ms \in Nat
    BY LengthsAreNat
  <2>2. wake'[t] = now + NextDue(ms) /\ UNCHANGED <<now, kind, due>>
    BY <1>0, <1>9 DEF Wait
  <2>3. \A j \in Timers : kind[j] # "free" => wake'[t] <= due[j] \/ wake'[t] <= now
    BY <2>1, <2>2, NextDueBounds
  <2> QED
    BY <2>2, <2>3 DEF TimerIsAwaited
<1>10. ASSUME NEW t \in Threads, NEW ms, Sleep(t, ms) PROVE TimerIsAwaited'
  <2>1. place'[t] = "sleeping"
    BY <1>0, <1>10 DEF Sleep
  <2> QED
    BY <1>3, <2>1
<1> QED
  BY <1>1, <1>2, <1>4, <1>5, <1>6, <1>7, <1>8, <1>9, <1>10 DEF Next

-----------------------------------------------------------------------------
(* A step leaves the calls in progress alone, adds one or takes one away.  *)
LEMMA CallSteps ==
  ASSUME TypeOK, [Next]_vars
  PROVE  \/ UNCHANGED <<frames, top, pumping>>
         \/ \E t \in Threads, j \in Timers :
              pumping = "no" /\ Fires(t, frames[t], top, j, now) /\ now' = now
         \/ \E t \in Threads, n \in SlotArgs : SlotCall(t, n)
         \/ \E t \in Threads : Return(t)
<1> USE DEF calls
<1>1. CASE UNCHANGED vars \/ Tick
  BY <1>1 DEF vars, Tick
<1>2. ASSUME NEW t \in Threads, QueryTime(t) \/ TimedOut(t) \/ Disturbed(t)
      PROVE  \/ UNCHANGED <<frames, top, pumping>>
             \/ \E j \in Timers :
                  pumping = "no" /\ Fires(t, frames[t], top, j, now) /\ now' = now
  BY <1>2, PumpSteps
<1>3. ASSUME NEW t \in Threads, NEW ms, NEW k, SetEvent(t, ms, k)
      PROVE  UNCHANGED <<frames, top, pumping>>
  BY <1>3 DEF SetEvent
<1>4. ASSUME NEW t \in Threads, NEW j, KillEvent(t, j) PROVE UNCHANGED <<frames, top, pumping>>
  BY <1>4 DEF KillEvent
<1>5. ASSUME NEW t \in Threads, NEW ms, Wait(t, ms) \/ Sleep(t, ms)
      PROVE  UNCHANGED <<frames, top, pumping>>
  BY <1>5 DEF Wait, Sleep
<1> QED
  BY <1>1, <1>2, <1>3, <1>4, <1>5 DEF Next

(* OneCallback, by thread and depth.                                       *)
TimerCall(t, i) == i \in 1 .. Len(frames[t]) /\ frames[t][i].why = "timer"

OnlyOne ==
  /\ \A t, u \in Threads : \A i, k \in Nat :
       TimerCall(t, i) /\ TimerCall(u, k) => t = u /\ i = k
  /\ pumping = "yes" <=> \E t \in Threads : \E i \in Nat : TimerCall(t, i)

(* OnlyOne says of threads and depths what OneCallback says of pairs.      *)
LEMMA OnlyOneIsOneCallback == TypeOK => (OnlyOne <=> OneCallback)
<1> SUFFICES ASSUME TypeOK PROVE OnlyOne <=> OneCallback
  OBVIOUS
<1>1. \A t \in Threads : DOMAIN frames[t] = 1 .. Len(frames[t]) /\ Len(frames[t]) \in Nat
  BY LenProperties DEF TypeOK
<1>2. \A c : c \in InProgress <=>
        \E t \in Threads : \E i \in 1 .. Len(frames[t]) : c = <<t, i>>
  BY <1>1 DEF InProgress
<1>3. \A c : c \in Callbacks <=>
        \E t \in Threads : \E i \in Nat : TimerCall(t, i) /\ c = <<t, i>>
  BY <1>2 DEF Callbacks, TimerCall
<1>4. (\A c, d \in Callbacks : c = d) <=>
        \A t, u \in Threads : \A i, k \in Nat :
          TimerCall(t, i) /\ TimerCall(u, k) => t = u /\ i = k
  <2>1. ASSUME \A c, d \in Callbacks : c = d, NEW t \in Threads, NEW u \in Threads,
               NEW i \in Nat, NEW k \in Nat, TimerCall(t, i), TimerCall(u, k)
        PROVE  t = u /\ i = k
    <3>1. <<t, i>> \in Callbacks /\ <<u, k>> \in Callbacks
      BY <1>3, <2>1
    <3> QED
      BY <2>1, <3>1
  <2>2. ASSUME \A t, u \in Threads : \A i, k \in Nat :
                 TimerCall(t, i) /\ TimerCall(u, k) => t = u /\ i = k,
               NEW c \in Callbacks, NEW d \in Callbacks
        PROVE  c = d
    BY <1>3, <2>2
  <2> QED
    BY <2>1, <2>2
<1>5. Callbacks # {} <=> \E t \in Threads : \E i \in Nat : TimerCall(t, i)
  BY <1>3
<1> QED
  BY <1>4, <1>5 DEF OnlyOne, OneCallback

(* g_pumping admits one pump, and stays set until the last of its          *)
(* callbacks has returned.                                                 *)
LEMMA OnlyOneStep == TypeOK /\ OnlyOne /\ [Next]_vars => OnlyOne'
<1> SUFFICES ASSUME TypeOK, OnlyOne, [Next]_vars PROVE OnlyOne'
  OBVIOUS
<1>0. frames \in [Threads -> Seq(Frame)] /\ pumping \in {"no", "yes"} /\ top \in 0 .. Arena
      /\ now \in 0 .. MaxTime /\ \A t \in Threads : Len(frames[t]) \in Nat
  BY LenProperties DEF TypeOK, Frame
<1>1. CASE UNCHANGED <<frames, top, pumping>>
  BY <1>1 DEF OnlyOne, TimerCall
<1>2. ASSUME NEW t \in Threads, NEW j \in Timers, pumping = "no",
             Fires(t, frames[t], top, j, now)
      PROVE  OnlyOne'
  <2> DEFINE L == Len(frames[t])
  <2>1. CallOut(t, frames[t], top, 5, "timer", j, now) /\ pumping' = "yes"
    BY <1>2 DEF Fires
  <2>2. frames[t] \in Seq(Frame)
    BY <1>0
  <2>3. /\ Len(frames'[t]) = L + 1 /\ L \in Nat /\ frames'[t][L + 1].why = "timer"
        /\ \A i \in 1 .. L : frames'[t][i] = frames[t][i]
        /\ \A u \in Threads \ {t} : frames'[u] = frames[u]
    <3>1. Called(t, frames[t], top, 5, "timer", j, now)
      BY <1>0, <2>1, <2>2, TimerCalling
    <3> QED
      BY <1>0, <2>1, <2>2, <3>1 DEF Called
  <2>4. \A u \in Threads : \A i \in Nat : ~TimerCall(u, i)
    BY <1>2 DEF OnlyOne
  <2> HIDE DEF L
  <2>5. \A u \in Threads : \A i \in Nat : TimerCall(u, i)' <=> u = t /\ i = L + 1
    <3> TAKE u \in Threads
    <3> TAKE i \in Nat
    <3>1. CASE u = t
      BY <2>3, <2>4, <3>1 DEF TimerCall, L
    <3>2. CASE u # t
      BY <2>3, <2>4, <3>2 DEF TimerCall
    <3> QED
      BY <3>1, <3>2
  <2>6. L + 1 \in Nat
    BY <2>3
  <2> QED
    BY <2>1, <2>5, <2>6 DEF OnlyOne
<1>3. ASSUME NEW t \in Threads, NEW n \in SlotArgs, SlotCall(t, n) PROVE OnlyOne'
  <2> DEFINE L == Len(frames[t])
  <2>1. CallOut(t, frames[t], top, n, "slot", 1, 0) /\ pumping' = pumping
    BY <1>3 DEF SlotCall
  <2>2. frames[t] \in Seq(Frame) /\ n \in Nat /\ 1 \in Timers /\ 0 \in 0 .. MaxTime
    BY <1>0, SlotArgsAreNat, MaxTimersIsPositive, MaxTimeIsNat DEF Timers
  <2>3. /\ Len(frames'[t]) = L + 1 /\ L \in Nat /\ frames'[t][L + 1].why = "slot"
        /\ \A i \in 1 .. L : frames'[t][i] = frames[t][i]
        /\ \A u \in Threads \ {t} : frames'[u] = frames[u]
    <3>1. Called(t, frames[t], top, n, "slot", 1, 0)
      BY <1>0, <2>1, <2>2, SlotCalling
    <3> QED
      BY <1>0, <2>1, <2>2, <3>1 DEF Called
  <2> HIDE DEF L
  <2>4. \A u \in Threads : \A i \in Nat : TimerCall(u, i)' <=> TimerCall(u, i)
    <3> TAKE u \in Threads
    <3> TAKE i \in Nat
    <3>1. CASE u = t
      BY <2>3, <3>1 DEF TimerCall, L
    <3>2. CASE u # t
      BY <2>3, <3>2 DEF TimerCall
    <3> QED
      BY <3>1, <3>2
  <2> QED
    BY <2>1, <2>4 DEF OnlyOne
<1>4. ASSUME NEW t \in Threads, Return(t) PROVE OnlyOne'
  <2> DEFINE f == Last(frames[t])
             rest == Front(frames[t])
             L == Len(frames[t])
  <2>1. frames[t] # << >>
    BY <1>4, Returns
  <2>2. /\ f \in Frame /\ f = frames[t][L] /\ rest \in Seq(Frame) /\ L \in Nat \ {0}
        /\ Len(rest) = L - 1 /\ \A i \in 1 .. L - 1 : rest[i] = frames[t][i]
    BY <1>0, <2>1, Innermost
  <2>3. \/ /\ frames' = [frames EXCEPT ![t] = rest]
           /\ (f.why = "slot" /\ pumping' = pumping) \/ (f.why = "timer" /\ pumping' = "no")
        \/ f.why = "timer" /\ \E j \in Timers : Fires(t, rest, f.saved, j, f.at)
    BY <1>4, Returns
  <2>4. f.why = "timer" =>
          \A u \in Threads : \A i \in Nat : TimerCall(u, i) <=> u = t /\ i = L
    <3>1. f.why = "timer" => TimerCall(t, L)
      BY <2>2 DEF TimerCall
    <3> HIDE DEF f, L
    <3> QED
      BY <2>2, <3>1 DEF OnlyOne
  <2>5. f.saved \in 0 .. Arena /\ f.at \in 0 .. MaxTime
    BY <2>2 DEF Frame
  <2> HIDE DEF f, rest, L
  <2>6. CASE /\ frames' = [frames EXCEPT ![t] = rest]
             /\ (f.why = "slot" /\ pumping' = pumping) \/ (f.why = "timer" /\ pumping' = "no")
    <3>1. frames'[t] = rest /\ \A u \in Threads \ {t} : frames'[u] = frames[u]
      BY <1>0, <2>6
    <3>2. \A u \in Threads : \A i \in Nat :
            TimerCall(u, i)' <=> TimerCall(u, i) /\ ~(u = t /\ i = L)
      <4> TAKE u \in Threads
      <4> TAKE i \in Nat
      <4>1. CASE u = t
        BY <2>2, <3>1, <4>1 DEF TimerCall, L
      <4>2. CASE u # t
        BY <3>1, <4>2 DEF TimerCall
      <4> QED
        BY <4>1, <4>2
    <3>3. f.why = "slot" => ~TimerCall(t, L)
      BY <2>2 DEF TimerCall
    <3>4. CASE f.why = "slot"
      <4>1. \A u \in Threads : \A i \in Nat : TimerCall(u, i)' <=> TimerCall(u, i)
        BY <3>2, <3>3, <3>4
      <4> QED
        BY <2>6, <3>4, <4>1 DEF OnlyOne
    <3>5. CASE f.why = "timer"
      <4>1. \A u \in Threads : \A i \in Nat : ~TimerCall(u, i)'
        BY <2>4, <3>2, <3>5
      <4> QED
        BY <2>6, <3>5, <4>1 DEF OnlyOne
    <3> QED
      BY <2>6, <3>4, <3>5
  <2>7. ASSUME f.why = "timer", NEW j \in Timers, Fires(t, rest, f.saved, j, f.at)
        PROVE  OnlyOne'
    <3>1. CallOut(t, rest, f.saved, 5, "timer", j, f.at) /\ pumping' = "yes"
      BY <2>7 DEF Fires
    <3>2. /\ Len(frames'[t]) = Len(rest) + 1 /\ frames'[t][Len(rest) + 1].why = "timer"
          /\ \A i \in 1 .. Len(rest) : frames'[t][i] = rest[i]
          /\ \A u \in Threads \ {t} : frames'[u] = frames[u]
      <4>1. Called(t, rest, f.saved, 5, "timer", j, f.at)
        BY <2>2, <2>5, <3>1, TimerCalling
      <4> QED
        BY <2>2, <2>5, <3>1, <4>1 DEF Called
    <3>3. /\ Len(frames'[t]) = L /\ frames'[t][L].why = "timer"
          /\ \A i \in 1 .. L - 1 : frames'[t][i] = frames[t][i]
      BY <2>2, <3>2
    <3>4. \A u \in Threads : \A i \in Nat : TimerCall(u, i)' <=> u = t /\ i = L
      <4> TAKE u \in Threads
      <4> TAKE i \in Nat
      <4>1. CASE u = t /\ i = L
        BY <2>2, <3>3, <4>1 DEF TimerCall
      <4>2. CASE u = t /\ i # L
        BY <2>2, <2>4, <2>7, <3>3, <4>2 DEF TimerCall, L
      <4>3. CASE u # t
        BY <2>4, <2>7, <3>2, <4>3 DEF TimerCall
      <4> QED
        BY <4>1, <4>2, <4>3
    <3> QED
      BY <2>2, <3>1, <3>4 DEF OnlyOne
  <2> QED
    BY <2>3, <2>6, <2>7
<1> QED
  BY <1>1, <1>2, <1>3, <1>4, CallSteps

-----------------------------------------------------------------------------
(* A pump works with an instant that has passed.                           *)
InstantsPast ==
  \A t \in Threads : \A i \in 1 .. Len(frames[t]) : frames[t][i].at <= now

(* The guest's own account of a timer that is set agrees with its slot.    *)
PromiseIsDue == \A j \in Timers : kind[j] # "free" => promise[j] = due[j]

(* Every new call has an instant that has passed.                          *)
LEMMA PastStep == TypeOK /\ InstantsPast /\ [Next]_vars => InstantsPast'
<1> SUFFICES ASSUME TypeOK, InstantsPast, [Next]_vars PROVE InstantsPast'
  OBVIOUS
<1>0. /\ frames \in [Threads -> Seq(Frame)] /\ top \in 0 .. Arena /\ now \in 0 .. MaxTime
      /\ now \in Int /\ \A t \in Threads : Len(frames[t]) \in Nat
      /\ \A t \in Threads : \A i \in 1 .. Len(frames[t]) : frames[t][i].at \in Int
  <2>1. frames \in [Threads -> Seq(Frame)] /\ top \in 0 .. Arena /\ now \in 0 .. MaxTime
    BY DEF TypeOK, Frame
  <2>2. now \in Int /\ \A t \in Threads : Len(frames[t]) \in Nat
    BY <2>1, LenProperties, MaxTimeIsNat
  <2>3. ASSUME NEW t \in Threads, NEW i \in 1 .. Len(frames[t]) PROVE frames[t][i].at \in Int
    <3>1. frames[t] \in Seq(Frame)
      BY <2>1
    <3>2. frames[t][i] \in Frame
      BY <3>1, ElementOfSeq
    <3>3. frames[t][i].at \in 0 .. MaxTime
      BY <3>2 DEF Frame
    <3> QED
      BY <3>3, MaxTimeIsNat
  <2> QED
    BY <2>1, <2>2, <2>3
<1>1. now' = now \/ (now' = now + 1 /\ frames' = frames)
  <2>1. ASSUME NEW t \in Threads, QueryTime(t) \/ TimedOut(t) \/ Disturbed(t) PROVE now' = now
    BY <2>1, PumpSteps
  <2>2. ASSUME NEW t \in Threads, Return(t) PROVE now' = now
    BY <2>2 DEF Return
  <2> QED
    BY <2>1, <2>2 DEF Next, vars, Tick, calls, SetEvent, KillEvent, Wait, Sleep, SlotCall
<1>2. ASSUME NEW t \in Threads, NEW rest \in Seq(Frame), NEW at, Len(rest) <= Len(frames[t]),
             \A i \in 1 .. Len(rest) : rest[i] = frames[t][i], at <= now,
             Len(frames'[t]) = Len(rest) + 1, Last(frames'[t]).at = at,
             Last(frames'[t]) = frames'[t][Len(rest) + 1],
             \A i \in 1 .. Len(rest) : frames'[t][i] = rest[i],
             \A u \in Threads \ {t} : frames'[u] = frames[u], now' = now
      PROVE  InstantsPast'
  <2>1. Len(rest) \in Nat
    BY LenProperties
  <2>2. ASSUME NEW i \in 1 .. Len(frames'[t]) PROVE frames'[t][i].at <= now
    <3>1. CASE i = Len(rest) + 1
      BY <1>2, <3>1
    <3>2. CASE i # Len(rest) + 1
      <4>1. i \in 1 .. Len(rest)
        BY <1>2, <2>1, <3>2
      <4>2. frames'[t][i] = frames[t][i]
        BY <1>2, <4>1
      <4>3. i \in 1 .. Len(frames[t])
        BY <1>0, <1>2, <2>1, <4>1
      <4> QED
        BY <4>2, <4>3 DEF InstantsPast
    <3> QED
      BY <3>1, <3>2
  <2> QED
    BY <1>2, <2>2 DEF InstantsPast
<1>3. CASE UNCHANGED <<frames, top, pumping>>
  BY <1>0, <1>1, <1>3 DEF InstantsPast
<1>4. ASSUME NEW t \in Threads, NEW j \in Timers, Fires(t, frames[t], top, j, now), now' = now
      PROVE  InstantsPast'
  <2>1. CallOut(t, frames[t], top, 5, "timer", j, now) /\ frames[t] \in Seq(Frame)
    BY <1>0, <1>4 DEF Fires
  <2>2. /\ Len(frames'[t]) = Len(frames[t]) + 1 /\ Last(frames'[t]).at = now
        /\ Last(frames'[t]) = frames'[t][Len(frames[t]) + 1]
        /\ \A i \in 1 .. Len(frames[t]) : frames'[t][i] = frames[t][i]
        /\ \A u \in Threads \ {t} : frames'[u] = frames[u]
    <3>1. Called(t, frames[t], top, 5, "timer", j, now)
      BY <1>0, <2>1, TimerCalling
    <3> QED
      BY <1>0, <2>1, <3>1 DEF Called
  <2>3. Len(frames[t]) <= Len(frames[t]) /\ now <= now
    BY <1>0
  <2> QED
    BY <1>2, <1>4, <2>1, <2>2, <2>3
<1>5. ASSUME NEW t \in Threads, NEW n \in SlotArgs, SlotCall(t, n) PROVE InstantsPast'
  <2>1. frames[t] \in Seq(Frame) /\ n \in Nat /\ 1 \in Timers /\ 0 \in 0 .. MaxTime /\ 0 <= now
    BY <1>0, SlotArgsAreNat, MaxTimersIsPositive, MaxTimeIsNat DEF Timers
  <2>2. CallOut(t, frames[t], top, n, "slot", 1, 0) /\ now' = now
    BY <1>5 DEF SlotCall
  <2>3. /\ Len(frames'[t]) = Len(frames[t]) + 1 /\ Last(frames'[t]).at = 0
        /\ Last(frames'[t]) = frames'[t][Len(frames[t]) + 1]
        /\ \A i \in 1 .. Len(frames[t]) : frames'[t][i] = frames[t][i]
        /\ \A u \in Threads \ {t} : frames'[u] = frames[u]
    <3>1. Called(t, frames[t], top, n, "slot", 1, 0)
      BY <1>0, <2>1, <2>2, SlotCalling
    <3> QED
      BY <1>0, <2>1, <2>2, <3>1 DEF Called
  <2>4. Len(frames[t]) <= Len(frames[t])
    BY <1>0
  <2> QED
    BY <1>2, <2>1, <2>2, <2>3, <2>4
<1>6. ASSUME NEW t \in Threads, Return(t) PROVE InstantsPast'
  <2> DEFINE f == Last(frames[t])
             rest == Front(frames[t])
  <2>1. frames[t] # << >> /\ now' = now
    BY <1>6, Returns
  <2>2. /\ f \in Frame /\ f = frames[t][Len(frames[t])] /\ rest \in Seq(Frame)
        /\ Len(frames[t]) \in Nat \ {0} /\ Len(rest) = Len(frames[t]) - 1
        /\ \A i \in 1 .. Len(frames[t]) - 1 : rest[i] = frames[t][i]
    BY <1>0, <2>1, Innermost
  <2>3. \/ frames' = [frames EXCEPT ![t] = rest]
        \/ \E j \in Timers : Fires(t, rest, f.saved, j, f.at)
    BY <1>6, Returns
  <2>4. f.at <= now /\ f.at \in 0 .. MaxTime /\ f.saved \in 0 .. Arena
    BY <2>2 DEF Frame, InstantsPast
  <2> HIDE DEF f, rest
  <2>5. CASE frames' = [frames EXCEPT ![t] = rest]
    <3>1. frames'[t] = rest /\ \A u \in Threads \ {t} : frames'[u] = frames[u]
      BY <1>0, <2>5
    <3> QED
      BY <2>1, <2>2, <3>1 DEF InstantsPast
  <2>6. ASSUME NEW j \in Timers, Fires(t, rest, f.saved, j, f.at) PROVE InstantsPast'
    <3>1. CallOut(t, rest, f.saved, 5, "timer", j, f.at)
      BY <2>6 DEF Fires
    <3>2. Len(rest) <= Len(frames[t]) /\ \A i \in 1 .. Len(rest) : rest[i] = frames[t][i]
      BY <2>2
    <3> QED
      <4>1. Called(t, rest, f.saved, 5, "timer", j, f.at)
        BY <1>2, <2>1, <2>2, <2>4, <3>1, <3>2, TimerCalling
      <4> QED
        BY <1>2, <2>1, <2>2, <2>4, <3>1, <3>2, <4>1 DEF Called
  <2> QED
    BY <2>3, <2>5, <2>6
<1> QED
  BY <1>3, <1>4, <1>5, <1>6, CallSteps

(* The slots are changed only together with what the guest is promised.    *)
LEMMA PromiseStep == TypeOK /\ PromiseIsDue /\ [Next]_vars => PromiseIsDue'
<1> SUFFICES ASSUME TypeOK, PromiseIsDue, [Next]_vars PROVE PromiseIsDue'
  OBVIOUS
<1>1. CASE UNCHANGED timers
  BY <1>1 DEF timers, PromiseIsDue
<1>2. ASSUME NEW at \in 0 .. MaxTime, NEW j \in Timers, Fire(j, at) PROVE PromiseIsDue'
  BY <1>2, Firing DEF PromiseIsDue
<1>3. ASSUME NEW t \in Threads, QueryTime(t) \/ TimedOut(t) \/ Disturbed(t) PROVE PromiseIsDue'
  <2>1. now \in 0 .. MaxTime
    BY DEF TypeOK
  <2> QED
    BY <1>1, <1>2, <1>3, <2>1, PumpSteps DEF Fires
<1>4. ASSUME NEW t \in Threads, Return(t) PROVE PromiseIsDue'
  <2>1. frames[t] # << >> /\ (UNCHANGED timers \/ \E j \in Timers : Fire(j, Last(frames[t]).at))
    BY <1>4, Returns DEF Fires
  <2>2. frames[t] \in Seq(Frame)
    BY DEF TypeOK, Frame
  <2>3. Last(frames[t]).at \in 0 .. MaxTime
    BY <2>1, <2>2, Innermost DEF Frame
  <2> QED
    BY <1>1, <1>2, <2>1, <2>3
<1>5. ASSUME NEW t \in Threads, NEW ms, NEW k, SetEvent(t, ms, k) PROVE PromiseIsDue'
  <2> DEFINE j == LeastOf(FreeSlots)
             d == now + AtLeast1(ms)
  <2>1. /\ kind' = [kind EXCEPT ![j] = k] /\ due' = [due EXCEPT ![j] = d]
        /\ promise' = [promise EXCEPT ![j] = d]
    BY <1>5 DEF SetEvent
  <2> HIDE DEF j, d
  <2> QED
    BY <2>1 DEF PromiseIsDue, TypeOK
<1>6. ASSUME NEW t \in Threads, NEW j \in Timers, KillEvent(t, j) PROVE PromiseIsDue'
  BY <1>6 DEF KillEvent, PromiseIsDue, TypeOK
<1> QED
  BY <1>1, <1>3, <1>4, <1>5, <1>6 DEF Next, vars, Tick, Wait, Sleep, SlotCall

(* A callback that starts is of a timer that is set and due.               *)
LEMMA OwedStep ==
  TypeOK /\ InstantsPast /\ PromiseIsDue /\ [Next]_vars =>
    \A t \in Threads, j \in Timers : Starts(t, j) => now >= promise[j]
<1> SUFFICES ASSUME TypeOK, InstantsPast, PromiseIsDue, [Next]_vars,
                    NEW u \in Threads, NEW j \in Timers, Starts(u, j)
             PROVE  now >= promise[j]
  OBVIOUS
<1>0. /\ frames \in [Threads -> Seq(Frame)] /\ top \in 0 .. Arena /\ now \in 0 .. MaxTime
      /\ now \in Int /\ due[j] \in Int
  <2>1. /\ frames \in [Threads -> Seq(Frame)] /\ top \in 0 .. Arena /\ now \in 0 .. MaxTime
        /\ due \in [Timers -> Nat]
    BY DEF TypeOK, Frame
  <2> QED
    BY <2>1, MaxTimeIsNat
<1>1. /\ frames'[u] # frames[u] /\ Len(frames'[u]) >= Len(frames[u])
      /\ Last(frames'[u]).why = "timer" /\ Last(frames'[u]).id = j
  BY DEF Starts
<1>2. ASSUME NEW t \in Threads, NEW rest \in Seq(Frame), NEW sp \in 0 .. Arena,
             NEW k \in Timers, NEW at \in 0 .. MaxTime, Fires(t, rest, sp, k, at), at <= now
      PROVE  now >= promise[j]
  <2>1. CallOut(t, rest, sp, 5, "timer", k, at) /\ IsDue(k, at)
    BY <1>2 DEF Fires
  <2>2. Last(frames'[t]).id = k /\ \A v \in Threads \ {t} : frames'[v] = frames[v]
    <3>1. Called(t, rest, sp, 5, "timer", k, at)
      BY <1>2, <2>1, TimerCalling
    <3> QED
      BY <1>2, <2>1, <3>1 DEF Called
  <2>3. k = j
    BY <1>1, <2>2
  <2>4. promise[j] = due[j] /\ due[j] <= at /\ at \in Int
    BY <1>2, <2>1, <2>3, MaxTimeIsNat DEF IsDue, PromiseIsDue
  <2> QED
    BY <1>0, <1>2, <2>4
<1>3. CASE UNCHANGED <<frames, top, pumping>>
  BY <1>1, <1>3
<1>4. ASSUME NEW t \in Threads, NEW k \in Timers, Fires(t, frames[t], top, k, now)
      PROVE  now >= promise[j]
  <2>1. frames[t] \in Seq(Frame) /\ now <= now
    BY <1>0
  <2> QED
    BY <1>0, <1>2, <1>4, <2>1
<1>5. ASSUME NEW t \in Threads, NEW n \in SlotArgs, SlotCall(t, n) PROVE now >= promise[j]
  <2>1. frames[t] \in Seq(Frame) /\ n \in Nat /\ 1 \in Timers /\ 0 \in 0 .. MaxTime
    BY <1>0, SlotArgsAreNat, MaxTimersIsPositive, MaxTimeIsNat DEF Timers
  <2>2. CallOut(t, frames[t], top, n, "slot", 1, 0)
    BY <1>5 DEF SlotCall
  <2>3. Last(frames'[t]).why = "slot" /\ \A v \in Threads \ {t} : frames'[v] = frames[v]
    <3>1. Called(t, frames[t], top, n, "slot", 1, 0)
      BY <1>0, <2>1, <2>2, SlotCalling
    <3> QED
      BY <1>0, <2>1, <2>2, <3>1 DEF Called
  <2> QED
    BY <1>1, <2>3
<1>6. ASSUME NEW t \in Threads, Return(t) PROVE now >= promise[j]
  <2> DEFINE f == Last(frames[t])
             rest == Front(frames[t])
  <2>1. frames[t] # << >>
    BY <1>6, Returns
  <2>2. /\ f \in Frame /\ f = frames[t][Len(frames[t])] /\ rest \in Seq(Frame)
        /\ Len(frames[t]) \in Nat \ {0} /\ Len(rest) = Len(frames[t]) - 1
    BY <1>0, <2>1, Innermost
  <2>3. \/ frames' = [frames EXCEPT ![t] = rest]
        \/ \E k \in Timers : Fires(t, rest, f.saved, k, f.at)
    BY <1>6, Returns
  <2>4. f.at <= now /\ f.at \in 0 .. MaxTime /\ f.saved \in 0 .. Arena
    BY <2>2 DEF Frame, InstantsPast
  <2> HIDE DEF f, rest
  <2>5. frames' # [frames EXCEPT ![t] = rest]
    <3> SUFFICES ASSUME frames' = [frames EXCEPT ![t] = rest] PROVE FALSE
      OBVIOUS
    <3>1. CASE u = t
      <4>1. Len(frames'[u]) = Len(frames[u]) - 1 /\ Len(frames[u]) \in Nat
        BY <1>0, <2>2, <3>1
      <4> QED
        BY <1>1, <4>1
    <3>2. CASE u # t
      BY <1>0, <1>1, <3>2
    <3> QED
      BY <3>1, <3>2
  <2> QED
    BY <1>2, <2>2, <2>3, <2>4, <2>5
<1> QED
  BY <1>3, <1>4, <1>5, <1>6, CallSteps

-----------------------------------------------------------------------------
(* The calls of the frames F, oldest first, are those of ord: each lies    *)
(* below the one before, the pointer sp below the last, and what the first *)
(* will put back is the top of the arena.                                  *)
At(F, c) == F[c[1]][c[2]]

Piled(F, sp, ord) ==
  /\ \A k \in 1 .. Len(ord) :
       /\ ord[k][1] \in Threads /\ ord[k][2] \in 1 .. Len(F[ord[k][1]])
       /\ At(F, ord[k]).base <= At(F, ord[k]).saved
       /\ sp <= At(F, ord[k]).base - Window
  /\ \A t \in Threads : \A i \in 1 .. Len(F[t]) : \E k \in 1 .. Len(ord) : ord[k] = <<t, i>>
  /\ \A k, l \in 1 .. Len(ord) :
       k < l => /\ ord[k] # ord[l]
                /\ At(F, ord[l]).saved <= At(F, ord[k]).base - Window
  /\ (IF ord = << >> THEN sp ELSE At(F, ord[1]).saved) = Arena

Order == Threads \X Nat

(* As long as no call has ended out of turn, the calls of all threads are  *)
(* one pile.                                                               *)
Pile ==
  /\ HistoryOK
  /\ crossed => order = << >>
  /\ ~crossed => Piled(frames, top, order)

(* A call on top of the pile.                                              *)
LEMMA Pushed ==
  ASSUME NEW F \in [Threads -> Seq(Frame)], NEW ord \in Seq(Order), NEW sp \in 0 .. Arena,
         NEW t \in Threads, NEW f \in Frame, NEW n \in Nat, f.saved = sp, f.base = sp - n,
         NEW G \in [Threads -> Seq(Frame)], Len(G[t]) = Len(F[t]) + 1,
         G[t][Len(F[t]) + 1] = f, \A i \in 1 .. Len(F[t]) : G[t][i] = F[t][i],
         \A u \in Threads \ {t} : G[u] = F[u],
         Piled(F, sp, ord)
  PROVE  Piled(G, (sp - n) - Window, Append(ord, <<t, Len(F[t]) + 1>>))
<1> DEFINE L == Len(F[t])
           m == Len(ord)
           ord2 == Append(ord, <<t, L + 1>>)
           low == (sp - n) - Window
<1>1. L \in Nat /\ m \in Nat /\ sp \in Int /\ low \in Int /\ low <= sp /\ Window \in Nat
  BY LenProperties, ArenaHoldsACallback
<1>2. <<t, L + 1>> \in Order
  BY <1>1 DEF Order
<1>3. /\ ord2 \in Seq(Order) /\ Len(ord2) = m + 1 /\ ord2[m + 1] = <<t, L + 1>>
      /\ \A k \in 1 .. m : ord2[k] = ord[k]
  BY <1>2, AppendProperties
<1>4. ord2 # << >>
  <2>1. Len(ord2) # 0
    BY <1>1, <1>3
  <2> HIDE DEF ord2
  <2> QED
    BY <1>3, <2>1, EmptySeq
<1>5. At(G, ord2[m + 1]) = f
  BY <1>3 DEF At
<1>6. ASSUME NEW k \in 1 .. m
      PROVE  At(G, ord2[k]) = At(F, ord[k]) /\ ord[k][2] \in 1 .. Len(G[ord[k][1]])
  <2>1. ord[k][1] \in Threads /\ ord[k][2] \in 1 .. Len(F[ord[k][1]])
    BY DEF Piled
  <2>2. CASE ord[k][1] = t
    BY <1>1, <1>3, <2>1, <2>2 DEF At
  <2>3. CASE ord[k][1] # t
    BY <1>3, <2>1, <2>3 DEF At
  <2> QED
    BY <2>2, <2>3
<1>7. \A k \in 1 .. m : At(F, ord[k]).base \in Int /\ At(F, ord[k]).saved \in Int
  <2> TAKE k \in 1 .. m
  <2>1. ord[k][1] \in Threads /\ ord[k][2] \in 1 .. Len(F[ord[k][1]])
    BY DEF Piled
  <2>2. F[ord[k][1]] \in Seq(Frame)
    BY <2>1
  <2>3. At(F, ord[k]) \in Frame
    BY <2>1, <2>2, ElementOfSeq DEF At
  <2>4. At(F, ord[k]).base \in 0 .. Arena /\ At(F, ord[k]).saved \in 0 .. Arena
    BY <2>3 DEF Frame
  <2> QED
    BY <2>4, ArenaHoldsACallback
<1> HIDE DEF L, m, ord2, low
<1>8. ASSUME NEW k \in 1 .. m + 1
      PROVE  /\ ord2[k][1] \in Threads /\ ord2[k][2] \in 1 .. Len(G[ord2[k][1]])
             /\ At(G, ord2[k]).base <= At(G, ord2[k]).saved
             /\ low <= At(G, ord2[k]).base - Window
  <2>1. CASE k = m + 1
    <3>1. /\ ord2[k][1] = t /\ ord2[k][2] = L + 1 /\ At(G, ord2[k]).base = sp - n
          /\ At(G, ord2[k]).saved = sp
      <4>1. ord2[k] = <<t, L + 1>> /\ At(G, ord2[k]) = f
        BY <1>3, <1>5, <2>1
      <4> QED
        BY <4>1
    <3>2. L + 1 \in 1 .. Len(G[t])
      BY <1>1 DEF L
    <3>3. sp - n <= sp /\ low <= (sp - n) - Window
      BY <1>1 DEF low
    <3> QED
      BY <3>1, <3>2, <3>3
  <2>2. CASE k \in 1 .. m
    <3>1. /\ ord[k][1] \in Threads /\ At(F, ord[k]).base <= At(F, ord[k]).saved
          /\ sp <= At(F, ord[k]).base - Window
      BY <2>2 DEF Piled, m
    <3>2. low <= At(F, ord[k]).base - Window
      BY <1>1, <1>7, <2>2, <3>1
    <3> QED
      BY <1>3, <1>6, <2>2, <3>1, <3>2
  <2> QED
    BY <1>1, <2>1, <2>2
<1>9. ASSUME NEW u \in Threads, NEW i \in 1 .. Len(G[u])
      PROVE  \E k \in 1 .. m + 1 : ord2[k] = <<u, i>>
  <2>1. CASE u = t /\ i = L + 1
    BY <1>1, <1>3, <2>1
  <2>2. CASE ~(u = t /\ i = L + 1)
    <3>1. i \in 1 .. Len(F[u])
      BY <1>1, <2>2 DEF L
    <3>2. PICK k \in 1 .. m : ord[k] = <<u, i>>
      BY <3>1 DEF Piled, m
    <3>3. k \in 1 .. m + 1
      BY <1>1
    <3>4. ord2[k] = <<u, i>>
      BY <1>3, <3>2
    <3> QED
      BY <3>3, <3>4
  <2> QED
    BY <2>1, <2>2
<1>10. ASSUME NEW k \in 1 .. m + 1, NEW l \in 1 .. m + 1, k < l
       PROVE  ord2[k] # ord2[l] /\ At(G, ord2[l]).saved <= At(G, ord2[k]).base - Window
  <2>1. k \in 1 .. m
    BY <1>1, <1>10
  <2>2. CASE l = m + 1
    <3>1. ord[k][1] \in Threads /\ ord[k][2] \in 1 .. Len(F[ord[k][1]])
          /\ sp <= At(F, ord[k]).base - Window
      BY <2>1 DEF Piled, m
    <3>2. ord[k] # <<t, L + 1>>
      BY <1>1, <3>1 DEF L
    <3> QED
      BY <1>3, <1>5, <1>6, <2>1, <2>2, <3>1, <3>2
  <2>3. CASE l \in 1 .. m
    <3>1. ord[k] # ord[l] /\ At(F, ord[l]).saved <= At(F, ord[k]).base - Window
      BY <1>10, <2>1, <2>3 DEF Piled, m
    <3> QED
      BY <1>3, <1>6, <2>1, <2>3, <3>1
  <2> QED
    BY <1>1, <2>2, <2>3
<1>11. At(G, ord2[1]).saved = Arena
  <2>1. CASE m = 0
    <3>1. ord = << >>
      BY <2>1, EmptySeq DEF m
    <3>2. sp = Arena
      BY <3>1 DEF Piled
    <3> QED
      BY <1>5, <2>1, <3>2
  <2>2. CASE m # 0
    <3>1. ord # << >> /\ 1 \in 1 .. m
      BY <1>1, <2>2, EmptySeq DEF m
    <3>2. At(F, ord[1]).saved = Arena
      BY <3>1 DEF Piled
    <3> QED
      BY <1>6, <3>1, <3>2
  <2> QED
    BY <2>1, <2>2
<1>12. Piled(G, low, ord2)
  BY <1>3, <1>4, <1>8, <1>9, <1>10, <1>11 DEF Piled
<1> QED
  BY <1>12 DEF low, ord2, L

(* The call on top of the pile ends.                                       *)
LEMMA Popped ==
  ASSUME NEW F \in [Threads -> Seq(Frame)], NEW ord \in Seq(Order), NEW sp \in 0 .. Arena,
         NEW t \in Threads, F[t] # << >>, ord # << >>, Last(ord) = <<t, Len(F[t])>>,
         Piled(F, sp, ord)
  PROVE  Piled([F EXCEPT ![t] = Front(F[t])], Last(F[t]).saved, Front(ord))
<1> DEFINE L == Len(F[t])
           m == Len(ord)
           ord2 == Front(ord)
           G == [F EXCEPT ![t] = Front(F[t])]
           low == Last(F[t]).saved
<1>1. /\ L \in Nat \ {0} /\ Len(Front(F[t])) = L - 1 /\ Last(F[t]) = F[t][L]
      /\ \A i \in 1 .. L - 1 : Front(F[t])[i] = F[t][i]
  BY Innermost
<1>2. /\ m \in Nat \ {0} /\ Len(ord2) = m - 1 /\ ord[m] = <<t, L>> /\ ord2 \in Seq(Order)
      /\ \A k \in 1 .. m - 1 : ord2[k] = ord[k]
  <2>1. /\ Last(ord) = ord[Len(ord)] /\ Len(ord) \in Nat \ {0} /\ Front(ord) \in Seq(Order)
        /\ Len(Front(ord)) = Len(ord) - 1 /\ \A i \in 1 .. Len(ord) - 1 : Front(ord)[i] = ord[i]
    BY LastAndFront, Zenon
  <2> QED
    BY <2>1
<1>3. low = At(F, ord[m]).saved
  BY <1>1, <1>2 DEF At
<1>4. /\ G[t] = Front(F[t]) /\ \A u \in Threads \ {t} : G[u] = F[u]
  OBVIOUS
<1> HIDE DEF L, m, ord2, G, low
<1>5. ASSUME NEW k \in 1 .. m - 1
      PROVE  /\ At(G, ord2[k]) = At(F, ord[k]) /\ ord[k][1] \in Threads
             /\ ord[k][2] \in 1 .. Len(G[ord[k][1]])
             /\ low <= At(F, ord[k]).base - Window
  <2>1. k \in 1 .. m /\ m \in 1 .. m /\ k < m
    BY <1>2
  <2>2. ord[k] # ord[m] /\ low <= At(F, ord[k]).base - Window
    BY <1>3, <2>1 DEF Piled, m
  <2>3. ord[k][1] \in Threads /\ ord[k][2] \in 1 .. Len(F[ord[k][1]]) /\ ord[k] \in Order
    BY <2>1, ElementOfSeq DEF Piled, m
  <2>4. CASE ord[k][1] = t
    <3>1. ord[k] = <<t, ord[k][2]>>
      BY <2>3, <2>4 DEF Order
    <3>2. ord[k][2] # L
      BY <1>2, <2>2, <3>1
    <3>3. ord[k][2] \in 1 .. L
      BY <2>3, <2>4 DEF L
    <3>4. ord[k][2] \in 1 .. L - 1
      BY <1>1, <3>2, <3>3
    <3>5. Len(G[t]) = L - 1 /\ G[t][ord[k][2]] = F[t][ord[k][2]]
      BY <1>1, <1>4, <3>4
    <3>6. ord2[k] = ord[k]
      BY <1>2
    <3> QED
      BY <2>2, <2>3, <2>4, <3>4, <3>5, <3>6 DEF At
  <2>5. CASE ord[k][1] # t
    BY <1>2, <1>4, <2>2, <2>3, <2>5 DEF At
  <2> QED
    BY <2>4, <2>5
<1>6. ASSUME NEW u \in Threads, NEW i \in 1 .. Len(G[u])
      PROVE  \E k \in 1 .. m - 1 : ord2[k] = <<u, i>>
  <2>1. i \in 1 .. Len(F[u]) /\ ~(u = t /\ i = L)
    BY <1>1, <1>4 DEF L
  <2>2. PICK k \in 1 .. m : ord[k] = <<u, i>>
    BY <2>1 DEF Piled, m
  <2>3. k # m
    BY <1>2, <2>1, <2>2
  <2>4. k \in 1 .. m - 1
    BY <1>2, <2>3
  <2>5. ord2[k] = <<u, i>>
    BY <1>2, <2>2, <2>4
  <2> QED
    BY <2>4, <2>5
<1>7. ASSUME NEW k \in 1 .. m - 1
      PROVE  At(F, ord[k]).base <= At(F, ord[k]).saved
  <2>1. k \in 1 .. m
    BY <1>2
  <2> QED
    BY <2>1 DEF Piled, m
<1>8. ASSUME NEW k \in 1 .. m - 1, NEW l \in 1 .. m - 1, k < l
      PROVE  ord[k] # ord[l] /\ At(F, ord[l]).saved <= At(F, ord[k]).base - Window
  <2>1. k \in 1 .. m /\ l \in 1 .. m
    BY <1>2
  <2> QED
    BY <1>8, <2>1 DEF Piled, m
<1>9. (IF ord2 = << >> THEN low ELSE At(G, ord2[1]).saved) = Arena
  <2>1. ord # << >> /\ At(F, ord[1]).saved = Arena
    BY DEF Piled
  <2>2. CASE m = 1
    <3>1. ord2 = << >>
      BY <1>2, <2>2, EmptySeq
    <3> QED
      BY <1>3, <2>1, <2>2, <3>1
  <2>3. CASE m # 1
    <3>1. ord2 # << >> /\ 1 \in 1 .. m - 1
      BY <1>2, <2>3, EmptySeq
    <3> QED
      BY <1>5, <2>1, <3>1
  <2> QED
    BY <2>2, <2>3
<1>10. Piled(G, low, ord2)
  BY <1>2, <1>5, <1>6, <1>7, <1>8, <1>9 DEF Piled
<1> QED
  BY <1>10 DEF G, low, ord2

(* A call made above the calls F[t], with the pointer at sp.               *)
LEMMA CallPiles ==
  ASSUME NEW t \in Threads, NEW F \in [Threads -> Seq(Frame)], NEW ord \in Seq(Order),
         NEW sp \in 0 .. Arena, NEW n \in Nat, NEW why, NEW id, NEW at,
         Piled(F, sp, ord), Called(t, F[t], sp, n, why, id, at),
         \A u \in Threads \ {t} : F[u] = frames[u]
  PROVE  Piled(frames', top', Append(ord, <<t, Len(F[t]) + 1>>))
<1> DEFINE G == frames'
           f == Last(frames'[t])
<1>1. /\ G \in [Threads -> Seq(Frame)] /\ Len(G[t]) = Len(F[t]) + 1 /\ Len(F[t]) \in Nat
      /\ G[t][Len(F[t]) + 1] = f /\ f.saved = sp /\ f.base = sp - n
      /\ \A i \in 1 .. Len(F[t]) : G[t][i] = F[t][i]
      /\ \A u \in Threads \ {t} : G[u] = F[u]
      /\ top' = (sp - n) - Window
  BY DEF Called
<1> HIDE DEF G, f
<1>2. f \in Frame
  <2>1. G[t] \in Seq(Frame) /\ Len(F[t]) + 1 \in 1 .. Len(G[t])
    BY <1>1
  <2> QED
    BY <1>1, <2>1, ElementOfSeq
<1>3. Piled(G, (sp - n) - Window, Append(ord, <<t, Len(F[t]) + 1>>))
  BY <1>1, <1>2, Pushed
<1> QED
  BY <1>1, <1>3 DEF G

(* Calls and returns keep the pile.                                        *)
LEMMA PileStep == TypeOK /\ Pile /\ [Next]_vars => Pile'
<1> SUFFICES ASSUME TypeOK, Pile, [Next]_vars PROVE Pile'
  OBVIOUS
<1>1. /\ frames \in [Threads -> Seq(Frame)] /\ top \in 0 .. Arena /\ now \in 0 .. MaxTime
      /\ order \in Seq(Order) /\ crossed \in BOOLEAN
  BY DEF TypeOK, Frame, Pile, HistoryOK, Order
<1>2. CASE UNCHANGED <<frames, top, order, crossed>>
  <2>1. Pile' <=> Pile
    BY <1>2 DEF Pile, HistoryOK, Piled, At
  <2> QED
    BY <2>1
<1>3. ASSUME NEW t \in Threads, NEW n \in Nat, NEW why, NEW id, NEW at,
             Called(t, frames[t], top, n, why, id, at), NothingEnds(t)
      PROVE  Pile'
  <2>1. crossed' = crossed /\ Len(frames'[t]) = Len(frames[t]) + 1 /\ Len(frames[t]) \in Nat
    BY <1>3 DEF NothingEnds, Called
  <2>2. order' = IF crossed THEN order ELSE Append(order, <<t, Len(frames[t]) + 1>>)
    BY <1>3, <2>1 DEF NothingEnds, Recorded
  <2>3. <<t, Len(frames[t]) + 1>> \in Order
    BY <2>1 DEF Order
  <2>4. order' \in Seq(Order)
    BY <1>1, <2>2, <2>3, AppendProperties
  <2>5. CASE crossed
    BY <1>1, <2>1, <2>2, <2>4, <2>5 DEF Pile, HistoryOK, Order
  <2>6. CASE ~crossed
    <3>1. Piled(frames', top', order')
      BY <1>1, <1>3, <2>2, <2>6, CallPiles DEF Pile
    <3> QED
      BY <1>1, <2>1, <2>4, <2>6, <3>1 DEF Pile, HistoryOK, Order
  <2> QED
    BY <2>5, <2>6
<1>4. ASSUME NEW t \in Threads, QueryTime(t) \/ TimedOut(t) \/ Disturbed(t) PROVE Pile'
  <2>1. NothingEnds(t)
    BY <1>4 DEF QueryTime, TimedOut, Disturbed, Resume
  <2>2. CASE UNCHANGED calls
    BY <1>2, <2>1, <2>2 DEF NothingEnds, Recorded, calls
  <2>3. ASSUME NEW j \in Timers, Fires(t, frames[t], top, j, now) PROVE Pile'
    <3>1. frames[t] \in Seq(Frame)
      BY <1>1
    <3>2. Called(t, frames[t], top, 5, "timer", j, now)
      BY <1>1, <2>3, <3>1, TimerCalling DEF Fires
    <3> QED
      BY <1>3, <2>1, <3>2
  <2> QED
    BY <1>4, <2>2, <2>3, PumpSteps
<1>5. ASSUME NEW t \in Threads, NEW n \in SlotArgs, SlotCall(t, n) PROVE Pile'
  <2>1. n \in Nat /\ NothingEnds(t) /\ Called(t, frames[t], top, n, "slot", 1, 0)
    BY <1>5, SlotCalling, SlotArgsAreNat DEF SlotCall
  <2> QED
    BY <1>3, <2>1
<1>6. ASSUME NEW t \in Threads, Return(t) PROVE Pile'
  <2> DEFINE f == Last(frames[t])
             rest == Front(frames[t])
             F == [frames EXCEPT ![t] = rest]
             ord == Front(order)
  <2>1. frames[t] # << >>
    BY <1>6, Returns
  <2>2. /\ f \in Frame /\ rest \in Seq(Frame)
        /\ Len(frames[t]) \in Nat \ {0} /\ Len(rest) = Len(frames[t]) - 1
    BY <1>1, <2>1, Innermost
  <2>3. f.saved \in 0 .. Arena /\ f.at \in 0 .. MaxTime
    BY <2>2 DEF Frame
  <2>4. /\ crossed' = (crossed \/ ~InTurn(t))
        /\ order' = IF crossed' \/ Len(frames'[t]) = Len(frames[t]) - 1 THEN Remaining(t)
                    ELSE Append(Remaining(t), <<t, (Len(frames[t]) - 1) + 1>>)
    BY <1>6 DEF Return, Recorded
  <2>5. \/ frames' = F /\ top' = f.saved
        \/ \E j \in Timers : Fires(t, rest, f.saved, j, f.at)
    BY <1>6, Returns
  <2>6. F \in [Threads -> Seq(Frame)] /\ F[t] = rest /\ \A u \in Threads \ {t} : F[u] = frames[u]
    BY <1>1, <2>2
  <2>7. CASE crossed'
    <3>1. order' = << >>
      <4>1. CASE crossed
        BY <2>4, <2>7, <4>1 DEF Pile, Remaining, InTurn
      <4>2. CASE ~crossed
        BY <2>4, <2>7, <4>2 DEF Remaining
      <4> QED
        BY <4>1, <4>2
    <3> QED
      BY <1>1, <2>4, <2>7, <3>1, EmptySeq DEF Pile, HistoryOK
  <2>8. CASE ~crossed'
    <3>1. /\ ~crossed /\ order # << >> /\ Last(order) = <<t, Len(frames[t])>>
          /\ Remaining(t) = ord
      BY <2>4, <2>8 DEF InTurn, Remaining
    <3>2. Piled(F, f.saved, ord)
      BY <1>1, <2>1, <3>1, Popped DEF Pile
    <3>3. ord \in Seq(Order)
      BY <1>1, <3>1, LastAndFront, Zenon
    <3> HIDE DEF f, rest, F, ord
    <3>4. Piled(frames', top', order') /\ order' \in Seq(Order)
      <4>1. CASE frames' = F /\ top' = f.saved
        BY <2>2, <2>4, <2>6, <2>8, <3>1, <3>2, <3>3, <4>1
      <4>2. ASSUME NEW j \in Timers, Fires(t, rest, f.saved, j, f.at)
            PROVE  Piled(frames', top', order') /\ order' \in Seq(Order)
        <5>1. Called(t, rest, f.saved, 5, "timer", j, f.at)
          BY <2>2, <2>3, <4>2, TimerCalling DEF Fires
        <5>2. Piled(frames', top', Append(ord, <<t, Len(rest) + 1>>))
          BY <2>3, <2>6, <3>2, <3>3, <5>1, CallPiles
        <5>3. order' = Append(ord, <<t, Len(rest) + 1>>) /\ <<t, Len(rest) + 1>> \in Order
          BY <2>2, <2>4, <2>8, <3>1, <5>1 DEF Called, Order
        <5> QED
          BY <3>3, <5>2, <5>3, AppendProperties
      <4> QED
        BY <2>5, <4>1, <4>2
    <3> QED
      BY <1>1, <2>4, <2>8, <3>4 DEF Pile, HistoryOK, Order
  <2> QED
    BY <2>7, <2>8
<1>7. ASSUME UNCHANGED <<calls, history>> PROVE Pile'
  BY <1>2, <1>7 DEF calls, history
<1>8. CASE UNCHANGED vars \/ Tick
  BY <1>7, <1>8 DEF vars, Tick
<1>9. ASSUME NEW t \in Threads, NEW ms, NEW k, SetEvent(t, ms, k) PROVE Pile'
  BY <1>7, <1>9 DEF SetEvent
<1>10. ASSUME NEW t \in Threads, NEW j, KillEvent(t, j) PROVE Pile'
  BY <1>7, <1>10 DEF KillEvent
<1>11. ASSUME NEW t \in Threads, NEW ms, Wait(t, ms) \/ Sleep(t, ms) PROVE Pile'
  BY <1>7, <1>11 DEF Wait, Sleep
<1> QED
  BY <1>4, <1>5, <1>6, <1>8, <1>9, <1>10, <1>11 DEF Next

(* The calls in a pile have no word in common.                             *)
LEMMA PileIsDisjoint == TypeOK /\ Pile => FramesDisjoint
<1> SUFFICES ASSUME TypeOK, Pile, ~crossed,
                    NEW c \in InProgress, NEW d \in InProgress, c # d
             PROVE  Words(frames[c[1]][c[2]]) \cap Words(frames[d[1]][d[2]]) = {}
  BY DEF FramesDisjoint, FramesNeverOverlap
<1>1. frames \in [Threads -> Seq(Frame)] /\ Piled(frames, top, order)
  BY DEF TypeOK, Frame, Pile
<1>2. ASSUME NEW e \in InProgress
      PROVE  /\ At(frames, e) \in Frame
             /\ \E k \in 1 .. Len(order) : order[k] = e
  <2>1. PICK t \in Threads : e \in {t} \X DOMAIN frames[t]
    BY DEF InProgress
  <2>2. frames[t] \in Seq(Frame)
    BY <1>1
  <2>3. DOMAIN frames[t] = 1 .. Len(frames[t])
    BY <2>2, LenProperties
  <2>4. e = <<t, e[2]>> /\ e[1] = t /\ e[2] \in 1 .. Len(frames[t])
    BY <2>1, <2>3
  <2>5. At(frames, e) \in Frame
    BY <2>2, <2>4, ElementOfSeq DEF At
  <2> QED
    BY <1>1, <2>4, <2>5 DEF Piled
<1>3. PICK k, l \in 1 .. Len(order) : order[k] = c /\ order[l] = d
  BY <1>2
<1>4. Len(order) \in Nat /\ k \in Int /\ l \in Int /\ k # l
  BY <1>3, LenProperties DEF Pile, HistoryOK
<1>5. ASSUME NEW a \in InProgress, NEW b \in InProgress,
             At(frames, b).saved <= At(frames, a).base - Window
      PROVE  Words(At(frames, a)) \cap Words(At(frames, b)) = {}
  <2>1. At(frames, b).saved \in Int /\ At(frames, a).base \in Int
    BY <1>2, ArenaHoldsACallback DEF Frame
  <2> SUFFICES ASSUME NEW w \in 0 .. Arena, At(frames, a).base <= w + Window,
                      w < At(frames, b).saved
               PROVE  FALSE
    BY DEF Words
  <2> QED
    BY <1>5, <2>1, ArenaHoldsACallback
<1>6. CASE k < l
  <2>1. At(frames, d).saved <= At(frames, c).base - Window
    BY <1>1, <1>3, <1>6 DEF Piled
  <2> QED
    BY <1>5, <2>1 DEF At
<1>7. CASE l < k
  <2>1. At(frames, c).saved <= At(frames, d).base - Window
    BY <1>1, <1>3, <1>7 DEF Piled
  <2>2. Words(At(frames, d)) \cap Words(At(frames, c)) = {}
    BY <1>5, <2>1
  <2> QED
    BY <2>2 DEF At
<1> QED
  BY <1>4, <1>6, <1>7

(* Without calls the pile is empty, and the pointer back at the top.       *)
LEMMA PileGivesBack == TypeOK /\ Pile => ArenaComesBack
<1> SUFFICES ASSUME TypeOK, Pile, ~crossed, InProgress = {} PROVE top = Arena
  BY DEF ArenaComesBack
<1>1. frames \in [Threads -> Seq(Frame)] /\ Piled(frames, top, order) /\ order \in Seq(Order)
  BY DEF TypeOK, Frame, Pile, HistoryOK, Order
<1>2. order = << >>
  <2> SUFFICES ASSUME order # << >> PROVE FALSE
    OBVIOUS
  <2>1. 1 \in 1 .. Len(order)
    BY <1>1, EmptySeq, LenProperties
  <2>2. order[1][1] \in Threads /\ order[1][2] \in 1 .. Len(frames[order[1][1]])
    BY <1>1, <2>1 DEF Piled
  <2>3. frames[order[1][1]] \in Seq(Frame)
    BY <1>1, <2>2
  <2>4. DOMAIN frames[order[1][1]] = 1 .. Len(frames[order[1][1]])
    BY <2>3, LenProperties
  <2>5. <<order[1][1], order[1][2]>> \in {order[1][1]} \X DOMAIN frames[order[1][1]]
    BY <2>2, <2>4
  <2> QED
    BY <2>2, <2>5 DEF InProgress
<1> QED
  BY <1>1, <1>2 DEF Piled

-----------------------------------------------------------------------------
(* The inductive invariant.                                                *)
IInv == TypeOK /\ OnlyOne /\ TimerIsAwaited /\ InstantsPast /\ PromiseIsDue

(* Nothing is set, called or awaited at first.                             *)
LEMMA InitInv == Init => IInv /\ Pile
<1> SUFFICES ASSUME Init PROVE IInv /\ Pile
  OBVIOUS
<1> USE DEF Init
<1>1. Arena \in 0 .. Arena /\ Forever \in Nat /\ 0 \in 0 .. MaxTime
  BY ArenaHoldsACallback, MaxTimeIsNat DEF Forever
<1>2. TypeOK
  BY <1>1 DEF TypeOK
<1>3. \A t \in Threads : frames[t] = << >> /\ Len(frames[t]) = 0
  OBVIOUS
<1>4. OnlyOne /\ InstantsPast
  BY <1>3 DEF OnlyOne, TimerCall, InstantsPast
<1>5. TimerIsAwaited /\ PromiseIsDue
  BY DEF TimerIsAwaited, PromiseIsDue
<1>6. Pile
  <2>1. order \in Seq(Threads \X Nat) /\ Len(order) = 0 /\ order = << >>
    BY EmptySeq
  <2>2. HistoryOK
    BY <2>1 DEF HistoryOK
  <2>3. Piled(frames, top, order)
    <3>1. top = Arena
      OBVIOUS
    <3> QED
      BY ONLY <1>3, <2>1, <3>1 DEF Piled
  <2> QED
    BY <2>1, <2>2, <2>3 DEF Pile
<1> QED
  BY <1>2, <1>4, <1>5, <1>6 DEF IInv

(* The types, the single pump, the wake-ups, the instants and the guest's  *)
(* account of its timers hold together in every reachable state.           *)
THEOREM Invariant == Spec => []IInv
<1>1. Init => IInv
  BY InitInv
<1>2. IInv /\ [Next]_vars => IInv'
  BY TypeStep, OnlyOneStep, AwaitedStep, PastStep, PromiseStep DEF IInv
<1> QED
  BY <1>1, <1>2, PTL DEF Spec

(* There are never two callbacks, and never nobody who wakes in time for   *)
(* the next one.                                                           *)
THEOREM OnePumpAlways == Spec => []AlwaysOnePump
<1>1. IInv => AlwaysOnePump
  BY OnlyOneIsOneCallback DEF IInv, AlwaysOnePump
<1> QED
  BY <1>1, Invariant, PTL

(* No callback starts early, or for a timer that was killed, though a pump *)
(* goes on with an old instant after each callback.                        *)
THEOREM CallbacksAreOwed == Spec => CallbackIsOwed
<1>1. IInv /\ [Next]_vars =>
        [\A t \in Threads, j \in Timers : Starts(t, j) => now >= promise[j]]_vars
  BY OwedStep DEF IInv
<1> QED
  BY <1>1, Invariant, PTL DEF Spec, CallbackIsOwed

(* The calls into guest code, of however many threads and however deep:    *)
(* until one has ended before a later call of another thread, no two of    *)
(* them share a word of the arena.                                         *)
THEOREM CallsStayApart == Spec => []FramesDisjoint
<1>1. Init => TypeOK /\ Pile
  BY InitInv DEF IInv
<1>2. TypeOK /\ Pile /\ [Next]_vars => TypeOK' /\ Pile'
  BY TypeStep, PileStep
<1>3. TypeOK /\ Pile => FramesDisjoint
  BY PileIsDisjoint
<1> QED
  BY <1>1, <1>2, <1>3, PTL DEF Spec

(* Under the same condition, whenever all calls of all threads have        *)
(* returned the whole arena is free again: a later call has as much room   *)
(* as the first.                                                           *)
THEOREM ArenaReturns == Spec => []ArenaComesBack
<1>1. Init => TypeOK /\ Pile
  BY InitInv DEF IInv
<1>2. TypeOK /\ Pile /\ [Next]_vars => TypeOK' /\ Pile'
  BY TypeStep, PileStep
<1>3. TypeOK /\ Pile => ArenaComesBack
  BY PileGivesBack
<1> QED
  BY <1>1, <1>2, <1>3, PTL DEF Spec
=============================================================================
