------------------------- MODULE SoundBuffersProofs -------------------------
(***************************************************************************)
(* Proofs about SoundBuffers, for any number of threads, voices and blocks *)
(* of PCM.                                                                 *)
(*                                                                         *)
(* That PCM lives exactly as long as its voices (PcmIsExact) needs only    *)
(* that a voice not in use has none, and holds whatever the guest does.    *)
(* That the stream's lock is held exactly for the buffers between Lock and *)
(* Unlock (StreamMatchesLocks) and that no block is mixed half written     *)
(* (WritesAreWhole) hold for a guest that takes no Liberties.  They rest   *)
(* on StreamInv: buffers are locked only once a device is open, only those *)
(* with data, and a thread that waits for the stream is the one with the   *)
(* turn.                                                                   *)
(***************************************************************************)
EXTENDS SoundBuffers, FiniteSetTheorems, TLAPS

VoiceType ==
  /\ used \in [Voices -> {"no", "primary", "secondary"}]
  /\ data \in [Voices -> Pcms \cup {NoPcm}]
  /\ locked \subseteq Voices
  /\ pcmRefs \in [Pcms -> Nat] /\ pcmLive \subseteq Pcms
  /\ \A v \in Free : data[v] = NoPcm
  /\ \A v \in locked : data[v] # NoPcm

PcmInv == VoiceType /\ PcmIsExact

StreamType ==
  /\ turn \in Threads
  /\ device \in {"unopened", "stream", "silent"}
  /\ owner \in Threads \cup {Nobody} /\ depth \in Nat

StreamInv ==
  /\ StreamType
  /\ device # "stream" => owner = Nobody /\ depth = 0
  /\ device = "unopened" => locked = {}
  /\ stuck # {} => stuck = {turn} /\ device = "stream"

IInv == PcmInv /\ StreamInv /\ StreamMatchesLocks

-----------------------------------------------------------------------------
(* Playing(d, p) is VoicesOf(p) when the voices have the data d.           *)
Playing(d, p) == {v \in Voices : d[v] = p}

Exact(d, counts, live) ==
  \A p \in Pcms :
    /\ counts[p] = Cardinality(Playing(d, p))
    /\ p \in live <=> Playing(d, p) # {}

(* PcmIsExact, for the fields of either state.                             *)
LEMMA ExactIsExact ==
  /\ PcmIsExact <=> Exact(data, pcmRefs, pcmLive)
  /\ PcmIsExact' <=> Exact(data', pcmRefs', pcmLive')
  BY DEF PcmIsExact, Exact, Playing, VoicesOf

(* A voice that plays nothing takes the block p.                           *)
LEMMA TakesBlock ==
  ASSUME NEW d \in [Voices -> Pcms \cup {NoPcm}], NEW counts \in [Pcms -> Nat],
         NEW live \in SUBSET Pcms, Exact(d, counts, live),
         NEW v \in Voices, d[v] = NoPcm, NEW p \in Pcms
  PROVE  Exact([d EXCEPT ![v] = p], [counts EXCEPT ![p] = @ + 1], live \cup {p})
<1> DEFINE e == [d EXCEPT ![v] = p]
<1> USE NamesAreNew, VoicesAreFinite
<1>1. Playing(e, p) = Playing(d, p) \cup {v} /\ v \notin Playing(d, p)
  BY DEF Playing
<1>2. \A q \in Pcms \ {p} : Playing(e, q) = Playing(d, q)
  BY DEF Playing
<1>3. IsFiniteSet(Playing(d, p))
  BY FS_Subset DEF Playing
<1>4. Cardinality(Playing(e, p)) = Cardinality(Playing(d, p)) + 1
  <2> DEFINE S == Playing(d, p)
  <2> HIDE DEF e, S
  <2>1. Cardinality(S \cup {v}) = IF v \in S THEN Cardinality(S) ELSE Cardinality(S) + 1
    BY <1>3, FS_AddElement DEF S
  <2> QED
    BY <1>1, <2>1 DEF S
<1> HIDE DEF e
<1>5. Exact(e, [counts EXCEPT ![p] = @ + 1], live \cup {p})
  <2>1. \A q \in Pcms \ {p} : counts[q] = Cardinality(Playing(e, q))
                              /\ (q \in live <=> Playing(e, q) # {})
    BY <1>2 DEF Exact
  <2>2. counts[p] = Cardinality(Playing(d, p))
    BY DEF Exact
  <2> QED
    BY <1>1, <1>4, <2>1, <2>2 DEF Exact
<1> QED
  BY <1>5 DEF e

(* A voice gives its block back, the last of them the memory too.          *)
LEMMA LeavesBlock ==
  ASSUME NEW d \in [Voices -> Pcms \cup {NoPcm}], NEW counts \in [Pcms -> Nat],
         NEW live \in SUBSET Pcms, Exact(d, counts, live),
         NEW v \in Voices, d[v] # NoPcm
  PROVE  Exact([d EXCEPT ![v] = NoPcm], [counts EXCEPT ![d[v]] = @ - 1],
               IF counts[d[v]] = 1 THEN live \ {d[v]} ELSE live)
         /\ counts[d[v]] - 1 \in Nat
<1> DEFINE e == [d EXCEPT ![v] = NoPcm]
           p == d[v]
<1> USE NamesAreNew, VoicesAreFinite
<1>1. p \in Pcms /\ Playing(e, p) = Playing(d, p) \ {v} /\ v \in Playing(d, p)
  BY DEF Playing
<1>2. \A q \in Pcms \ {p} : Playing(e, q) = Playing(d, q)
  BY DEF Playing
<1>3. IsFiniteSet(Playing(d, p)) /\ IsFiniteSet(Playing(e, p))
  BY FS_Subset DEF Playing
<1>4. Cardinality(Playing(e, p)) = Cardinality(Playing(d, p)) - 1
  <2> DEFINE S == Playing(d, p)
  <2> HIDE DEF e, p, S
  <2>1. Cardinality(S \ {v}) = IF v \in S THEN Cardinality(S) - 1 ELSE Cardinality(S)
    BY <1>3, FS_RemoveElement DEF S
  <2> QED
    BY <1>1, <2>1 DEF S
<1>5. Cardinality(Playing(e, p)) \in Nat
      /\ (Cardinality(Playing(e, p)) = 0 <=> Playing(e, p) = {})
  BY <1>3, FS_CardinalityType, FS_EmptySet
<1>6. counts[p] = Cardinality(Playing(d, p)) /\ p \in live
  BY <1>1 DEF Exact
<1> HIDE DEF e, p
<1>7. \A q \in Pcms : q # p => counts[q] = Cardinality(Playing(e, q))
                              /\ (q \in live <=> Playing(e, q) # {})
  BY <1>2 DEF Exact
<1>8. Exact(e, [counts EXCEPT ![p] = @ - 1], IF counts[p] = 1 THEN live \ {p} ELSE live)
  BY <1>1, <1>4, <1>5, <1>6, <1>7 DEF Exact
<1> QED
  BY <1>4, <1>5, <1>6, <1>8 DEF e, p

-----------------------------------------------------------------------------
(* There are no buffers at first, and nobody has the stream's lock.        *)
LEMMA InitInv == Init => IInv
<1> SUFFICES ASSUME Init PROVE IInv
  OBVIOUS
<1> USE DEF Init
<1>1. PcmInv
  <2>1. \A p \in Pcms : VoicesOf(p) = {}
    BY NamesAreNew DEF VoicesOf
  <2> QED
    BY <2>1, FS_EmptySet DEF PcmInv, VoiceType, PcmIsExact, Free
<1>2. StreamInv /\ StreamMatchesLocks
  BY FS_EmptySet DEF StreamInv, StreamType, StreamMatchesLocks
<1> QED
  BY <1>1, <1>2 DEF IInv

(* A step that leaves data and counts alone.                               *)
LEMMA PcmKept ==
  ASSUME PcmInv, UNCHANGED <<used, data, pcm>>, locked' \subseteq Voices,
         \A v \in locked' : data[v] # NoPcm
  PROVE  PcmInv'
<1>1. PcmIsExact'
  BY ExactIsExact DEF PcmInv, pcm
<1> QED
  BY <1>1 DEF PcmInv, VoiceType, Free, pcm

(* Every call keeps the count of each block of PCM, whatever the guest     *)
(* duplicates and releases in whatever order.                              *)
LEMMA StepKeepsPcm == PcmInv /\ [Next]_vars => PcmInv'
<1> SUFFICES ASSUME PcmInv, [Next]_vars PROVE PcmInv'
  OBVIOUS
<1> USE NamesAreNew
<1> USE DEF PcmInv, VoiceType, voices, pcm, stream, Unchanged4
<1>0. Exact(data, pcmRefs, pcmLive)
  BY ExactIsExact
<1>1. ASSUME UNCHANGED <<used, data, locked, pcm>> PROVE PcmInv'
  BY <1>1, PcmKept
<1>2. CASE UNCHANGED vars \/ AudioMore \/ Tick
  BY <1>1, <1>2 DEF vars, AudioMore, MixFrames, Tick
<1>3. ASSUME NEW t \in Threads,
             Block(t) \/ Preempt(t) \/ TickSilent(t) \/ \E d \in Devices : OpenDevice(t, d)
      PROVE  PcmInv'
  BY <1>1, <1>3 DEF Block, Preempt, TickSilent, MixFrames, OpenDevice
<1>4. ASSUME NEW t \in Threads, NEW v \in Voices,
             \/ AddRef(t, v) \/ Stop(t, v) \/ \E loop \in BOOLEAN : Play(t, v, loop)
             \/ \E f \in 0 .. Frames - 1 : SetCurrentPosition(t, v, f)
      PROVE  PcmInv'
  BY <1>1, <1>4 DEF AddRef, Stop, Play, SetCurrentPosition
<1>5. ASSUME NEW t \in Threads, NEW v \in Voices, Lock(t, v) PROVE PcmInv'
  BY <1>5, PcmKept DEF Lock, Refused, Granted
<1>6. ASSUME NEW t \in Threads, NEW v \in Voices, Unlock(t, v) PROVE PcmInv'
  BY <1>6, PcmKept DEF Unlock
<1>7. ASSUME NEW t \in Threads, NEW v \in Voices, CreatePrimary(t, v) PROVE PcmInv'
  <2>1. data' = data /\ UNCHANGED pcm
    BY <1>7 DEF CreatePrimary, Claimed, Free
  <2>2. PcmIsExact'
    BY <1>0, <2>1, ExactIsExact
  <2> QED
    BY <1>7, <2>1, <2>2 DEF CreatePrimary, Claimed, Free
<1>8. ASSUME NEW t \in Threads, NEW v \in Voices, NEW p \in Pcms, CreateSecondary(t, v, p)
      PROVE  PcmInv'
  <2>1. data[v] = NoPcm /\ v \in Free /\ data' = [data EXCEPT ![v] = p]
        /\ p \notin pcmLive
    BY <1>8 DEF CreateSecondary, Claimed
  <2>2. pcmRefs[p] = 0
    <3>1. VoicesOf(p) = {} /\ pcmRefs[p] = Cardinality(VoicesOf(p))
      BY <2>1 DEF PcmIsExact
    <3> QED
      BY <3>1, FS_EmptySet
  <2>3. pcmRefs' = [pcmRefs EXCEPT ![p] = @ + 1] /\ pcmLive' = pcmLive \cup {p}
    BY <1>8, <2>2 DEF CreateSecondary
  <2>4. PcmIsExact'
    BY <1>0, <2>1, <2>3, TakesBlock, ExactIsExact
  <2> QED
    BY <1>8, <2>1, <2>3, <2>4 DEF CreateSecondary, Claimed, Free
<1>9. ASSUME NEW t \in Threads, NEW v \in Voices, NEW src \in Voices, Duplicate(t, v, src)
      PROVE  PcmInv'
  <2> DEFINE p == data[src]
  <2>1. data[v] = NoPcm /\ v \in Free /\ data' = [data EXCEPT ![v] = p]
        /\ pcmRefs' = [pcmRefs EXCEPT ![p] = @ + 1] /\ pcmLive' = pcmLive
    BY <1>9 DEF Duplicate, Claimed, Shared
  <2>2. CASE p \in Pcms
    <3>1. src \in VoicesOf(p)
      BY DEF VoicesOf
    <3>2. pcmLive' = pcmLive \cup {p}
      BY <2>1, <2>2, <3>1 DEF PcmIsExact
    <3>3. PcmIsExact'
      <4>1. v \in Voices /\ data \in [Voices -> Pcms \cup {NoPcm}]
            /\ pcmRefs \in [Pcms -> Nat] /\ pcmLive \in SUBSET Pcms /\ data[v] = NoPcm
        BY <2>1
      <4>2. Exact([data EXCEPT ![v] = p], [pcmRefs EXCEPT ![p] = @ + 1], pcmLive \cup {p})
        <5> HIDE DEF p
        <5> QED
          BY <1>0, <2>2, <4>1, TakesBlock
      <4>3. Exact(data', pcmRefs', pcmLive')
        <5> HIDE DEF p
        <5> QED
          BY <2>1, <3>2, <4>2
      <4> QED
        BY <4>3, ExactIsExact
    <3> QED
      BY <1>9, <2>1, <2>2, <3>3 DEF Duplicate, Claimed, Free
  <2>3. CASE p = NoPcm
    <3>1. data' = data /\ pcmRefs' = pcmRefs
      BY <2>1, <2>3
    <3>2. PcmIsExact'
      BY <1>0, <2>1, <3>1, ExactIsExact
    <3> QED
      BY <1>9, <2>1, <2>3, <3>1, <3>2 DEF Duplicate, Claimed, Free
  <2> QED
    BY <2>2, <2>3
<1>10. ASSUME NEW t \in Threads, NEW v \in Voices, Release(t, v) PROVE PcmInv'
  <2>1. CASE refs[v] > 1
    BY <1>1, <1>10, <2>1 DEF Release
  <2>2. CASE ~(refs[v] > 1)
    <3>1. FreeVoice(v)
      BY <1>10, <2>2 DEF Release
    <3>2. data' = [data EXCEPT ![v] = NoPcm]
          /\ used' = [used EXCEPT ![v] = "no"] /\ locked' = locked \ {v}
      BY <3>1 DEF FreeVoice
    <3>3. CASE data[v] = NoPcm
      <4>1. data' = data /\ UNCHANGED pcm
        BY <3>1, <3>2, <3>3 DEF FreeVoice
      <4>2. PcmIsExact'
        BY <1>0, <4>1, ExactIsExact
      <4> QED
        BY <3>2, <3>3, <4>1, <4>2 DEF Free
    <3>4. CASE data[v] # NoPcm
      <4>1. pcmRefs' = [pcmRefs EXCEPT ![data[v]] = @ - 1]
            /\ pcmLive' = IF pcmRefs[data[v]] = 1 THEN pcmLive \ {data[v]} ELSE pcmLive
        BY <3>1, <3>4 DEF FreeVoice
      <4>2. Exact(data', pcmRefs', pcmLive') /\ pcmRefs[data[v]] - 1 \in Nat
        <5> DEFINE d == [data EXCEPT ![v] = NoPcm]
                   counts == [pcmRefs EXCEPT ![data[v]] = @ - 1]
                   live == IF pcmRefs[data[v]] = 1 THEN pcmLive \ {data[v]} ELSE pcmLive
        <5>1. Exact(d, counts, live) /\ pcmRefs[data[v]] - 1 \in Nat
          BY <1>0, <3>4, LeavesBlock
        <5>2. data' = d /\ pcmRefs' = counts /\ pcmLive' = live
          BY <3>2, <4>1
        <5> HIDE DEF d, counts, live
        <5> QED
          BY <5>1, <5>2
      <4>3. PcmIsExact'
        BY <4>2, ExactIsExact
      <4> QED
        BY <3>2, <3>4, <4>1, <4>2, <4>3 DEF Free
    <3> QED
      BY <3>3, <3>4
  <2> QED
    BY <2>1, <2>2
<1> QED
  BY <1>2, <1>3, <1>4, <1>5, <1>6, <1>7, <1>8, <1>9, <1>10 DEF Next, GuestStep

-----------------------------------------------------------------------------
(* A step that leaves the stream, the locks and the turn alone.            *)
LEMMA StreamKept ==
  ASSUME StreamInv, StreamMatchesLocks, UNCHANGED <<turn, stuck, device, stream, locked>>
  PROVE  StreamInv' /\ StreamMatchesLocks'
  BY DEF StreamInv, StreamType, StreamMatchesLocks, stream

(* The stream's lock follows the buffers between Lock and Unlock, if the   *)
(* guest unlocks from the thread that locked, releases and duplicates no   *)
(* locked buffer, and locks none before a device is open.                  *)
LEMMA StepKeepsStream ==
  ASSUME Liberties = {}, IInv, [Next]_vars
  PROVE  StreamInv' /\ StreamMatchesLocks'
<1> USE NamesAreNew DEF IInv, StreamInv, StreamMatchesLocks
<1> USE DEF StreamType, voices, stream, Unchanged4
<1>0. /\ IsFiniteSet(locked) /\ locked \subseteq Voices
      /\ Cardinality(locked) \in Nat /\ (Cardinality(locked) = 0 <=> locked = {})
  <2>1. locked \subseteq Voices
    BY DEF PcmInv, VoiceType
  <2> QED
    BY <2>1, VoicesAreFinite, FS_Subset, FS_CardinalityType, FS_EmptySet
<1>1. CASE UNCHANGED vars \/ AudioMore \/ Tick
  BY <1>1, StreamKept DEF vars, AudioMore, MixFrames, Tick
<1>2. ASSUME NEW t \in Threads, TickSilent(t) PROVE StreamInv' /\ StreamMatchesLocks'
  BY <1>2, StreamKept DEF TickSilent, MixFrames
<1>3. ASSUME NEW t \in Threads, Block(t) PROVE StreamInv' /\ StreamMatchesLocks'
  <2>1. owner \notin {Nobody, t} /\ device = "stream" /\ turn = t /\ t \notin stuck
    BY <1>3 DEF Block, PlainCall, CanTake
  <2>2. stuck = {} /\ stuck' = {t} /\ locked # {}
    BY <1>3, <2>1 DEF Block
  <2> QED
    BY <1>3, <2>1, <2>2 DEF Block
<1>4. ASSUME NEW t \in Threads, Preempt(t) PROVE StreamInv' /\ StreamMatchesLocks'
  BY <1>4 DEF Preempt
<1>5. ASSUME NEW t \in Threads, NEW d \in Devices, OpenDevice(t, d)
      PROVE  StreamInv' /\ StreamMatchesLocks'
  BY <1>5, <1>0, DevicesExist DEF OpenDevice
<1>6. ASSUME NEW t \in Threads, NEW v \in Voices,
             \/ AddRef(t, v) \/ Stop(t, v) \/ \E loop \in BOOLEAN : Play(t, v, loop)
             \/ \E f \in 0 .. Frames - 1 : SetCurrentPosition(t, v, f)
      PROVE  StreamInv' /\ StreamMatchesLocks'
  BY <1>6, StreamKept DEF AddRef, Stop, Play, SetCurrentPosition
<1>7. ASSUME NEW t \in Threads, NEW v \in Voices,
             \/ CreatePrimary(t, v) \/ \E p \in Pcms : CreateSecondary(t, v, p)
             \/ \E src \in Voices : Duplicate(t, v, src)
      PROVE  StreamInv' /\ StreamMatchesLocks'
  <2>1. v \notin locked
    BY <1>7 DEF CreatePrimary, CreateSecondary, Duplicate, PcmInv, VoiceType
  <2>2. UNCHANGED <<turn, stuck, device, stream, locked>>
    BY <1>7, <2>1 DEF CreatePrimary, CreateSecondary, Duplicate, Claimed
  <2> QED
    BY <2>2, StreamKept
<1>8. ASSUME NEW t \in Threads, NEW v \in Voices, Release(t, v)
      PROVE  StreamInv' /\ StreamMatchesLocks'
  <2>1. v \notin locked
    BY <1>8 DEF Release
  <2>2. UNCHANGED <<turn, stuck, device, stream, locked>>
    BY <1>8, <2>1 DEF Release, FreeVoice
  <2> QED
    BY <2>2, StreamKept
<1>9. ASSUME NEW t \in Threads, NEW v \in Voices, Lock(t, v)
      PROVE  StreamInv' /\ StreamMatchesLocks'
  <2>1. CASE v \in locked \/ data[v] = NoPcm
    BY <1>9, <2>1, StreamKept DEF Lock, Refused
  <2>2. CASE ~(v \in locked \/ data[v] = NoPcm)
    <3>1. /\ Kept(t) /\ locked' = locked \cup {v} /\ v \notin locked
          /\ device # "unopened" /\ CanTake(t) /\ stuck = {}
          /\ UNCHANGED <<turn, stuck, device>>
      BY <1>9, <2>2 DEF Lock, Granted, Call
    <3>2. Cardinality(locked') = Cardinality(locked) + 1
      BY <1>0, <3>1, FS_AddElement
    <3> QED
      BY <1>0, <3>1, <3>2 DEF Kept
  <2> QED
    BY <2>1, <2>2
<1>10. ASSUME NEW t \in Threads, NEW v \in Voices, Unlock(t, v)
       PROVE  StreamInv' /\ StreamMatchesLocks'
  <2>1. /\ GivenBack(t) /\ locked' = locked \ {v} /\ v \in locked
        /\ device = "stream" => owner = t
        /\ UNCHANGED <<turn, stuck, device>> /\ stuck = {}
    BY <1>10 DEF Unlock, PlainCall
  <2>2. Cardinality(locked') = Cardinality(locked) - 1
    BY <1>0, <2>1, FS_RemoveElement
  <2>3. IsFiniteSet(locked')
    BY <1>0, <2>1, FS_RemoveElement
  <2>4. Cardinality(locked') = 0 <=> locked' = {}
    BY <2>3, FS_EmptySet
  <2> QED
    BY <1>0, <2>1, <2>2, <2>4 DEF GivenBack
<1> QED
  BY <1>1, <1>2, <1>3, <1>4, <1>5, <1>6, <1>7, <1>8, <1>9, <1>10 DEF Next, GuestStep

-----------------------------------------------------------------------------
(* In every order of creating, duplicating and releasing, and whatever     *)
(* else the guest does, PCM is allocated as long as a voice plays it and   *)
(* counted as often.                                                       *)
THEOREM PcmStaysExact == Spec => []PcmIsExact
<1>1. Init => PcmInv
  BY InitInv DEF IInv
<1>2. PcmInv => PcmIsExact
  BY DEF PcmInv
<1> QED
  BY <1>1, <1>2, StepKeepsPcm, PTL DEF Spec

(* The inductive invariant of voices and stream, for a guest that takes no *)
(* liberties.                                                              *)
THEOREM Invariant == Liberties = {} => (Spec => []IInv)
<1> SUFFICES ASSUME Liberties = {} PROVE Spec => []IInv
  OBVIOUS
<1>1. IInv /\ [Next]_vars => IInv'
  BY StepKeepsPcm, StepKeepsStream DEF IInv
<1> QED
  BY <1>1, InitInv, PTL DEF Spec

(* The stream's lock is held once for each buffer between Lock and Unlock, *)
(* by the thread that locked them, and nobody is blocked on it but behind  *)
(* such a buffer of another thread.                                        *)
THEOREM StreamFollowsLocks == Liberties = {} => (Spec => []StreamMatchesLocks)
<1> SUFFICES ASSUME Liberties = {} PROVE Spec => []StreamMatchesLocks
  OBVIOUS
<1>1. IInv => StreamMatchesLocks
  BY DEF IInv
<1> QED
  BY <1>1, Invariant, PTL

(* SDL's callback never mixes a buffer between Lock and Unlock.            *)
THEOREM BlocksAreWhole == Liberties = {} => (Spec => WritesAreWhole)
<1> SUFFICES ASSUME Liberties = {} PROVE Spec => WritesAreWhole
  OBVIOUS
<1>1. IInv /\ [Next]_vars => [AudioMore => locked = {}]_vars
  BY DEF IInv, StreamMatchesLocks, AudioMore
<1> QED
  BY <1>1, Invariant, PTL DEF Spec, WritesAreWhole
=============================================================================
