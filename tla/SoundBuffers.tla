---------------------------- MODULE SoundBuffers ----------------------------
(***************************************************************************)
(* DirectSound buffers: src/src/native/dsound.cpp (the calls) and          *)
(* src/src/native/dsound_mixer.cpp (the voices and the device).            *)
(*                                                                         *)
(* Voices may share one block of PCM.  The audio thread mixes every        *)
(* playing voice while it owns the lock of SDL's stream, which is          *)
(* recursive.  IDirectSoundBuffer::Lock takes that lock and leaves with    *)
(* it; Unlock gives it back.  In between runs guest code, which the        *)
(* scheduler can preempt (GuestScheduler): the guest lock is `turn' here.  *)
(* A call that has to wait for the stream does so with the turn held.      *)
(*                                                                         *)
(* With no audio device the calls that ask for a position move the cursors *)
(* by the time since the last of them.                                     *)
(*                                                                         *)
(* Name_Mistake is Name with that mistake; no specification uses it.       *)
(***************************************************************************)
EXTENDS Naturals, FiniteSets

CONSTANTS
  Threads,     \* guest threads
  Voices,      \* entries of g_buf that the guest fills
  Pcms,        \* blocks of SampleData
  NoPcm,       \* a voice without data
  Nobody,      \* no owner of the stream's lock
  Frames,      \* frames in a block of PCM
  MaxRefs,     \* bound on a voice's references
  MaxDepth,    \* bound on the nesting of buffer locks
  FrameTicks,  \* clock ticks in the time of one frame
  Devices,     \* which devices an instance can open
  Liberties    \* what the guest does beyond DirectSound's rules

ASSUME VoicesAreFinite == IsFiniteSet(Voices)
ASSUME NamesAreNew == NoPcm \notin Pcms /\ Nobody \notin Threads
ASSUME BoundsArePositive ==
  {Frames, MaxRefs, MaxDepth, FrameTicks} \subseteq Nat \ {0}
ASSUME DevicesExist == Devices \subseteq {"stream", "silent"}
ASSUME LibertiesAreKnown ==
  Liberties \subseteq {"duplicate", "release", "early", "foreign"}

VARIABLES
  turn,      \* the thread that holds the guest lock
  stuck,     \* threads that wait for the stream's lock
  device,    \* "unopened", "stream", "silent"
  owner,     \* owner of the stream's lock
  depth,     \* and how often it took it
  used,      \* voices in use: "no", "primary", "secondary"
  refs,      \* per voice: references of its guest object
  data,      \* per voice: its PCM
  playing, looping, locked,  \* sets of voices
  cursor,    \* per voice: cursor_frames
  pcmRefs,   \* per PCM: SampleData::refs
  pcmLive,   \* PCM whose memory is allocated
  lag        \* ticks since g_silent_time

voices == <<used, refs, data, playing, looping, locked, cursor>>
pcm    == <<pcmRefs, pcmLive>>
stream == <<owner, depth>>
vars   == <<turn, stuck, device, stream, voices, pcm, lag>>

Free      == {v \in Voices : used[v] = "no"}
Live      == Voices \ Free
Secondary == {v \in Voices : used[v] = "secondary"}

-----------------------------------------------------------------------------
(* The stream's lock, an SDL mutex.  Without a stream there is nothing to  *)
(* take; a thread that does not own it gives nothing back.                 *)
CanTake(t) == device = "stream" => owner \in {Nobody, t}

Kept(t) ==
  IF device = "stream" THEN owner' = t /\ depth' = depth + 1
                       ELSE UNCHANGED stream

GivenBack(t) ==
  IF device = "stream" /\ owner = t
    THEN /\ depth' = depth - 1
         /\ owner' = IF depth = 1 THEN Nobody ELSE owner
    ELSE UNCHANGED stream

(* A call of t that takes the lock and gives it back before it returns.    *)
Call(t) == turn = t /\ t \notin stuck /\ CanTake(t)

(* A call that does not take the lock.                                     *)
PlainCall(t) == turn = t /\ t \notin stuck

(* Such a call when another thread has the lock: SDL_LockAudioStream       *)
(* blocks, and the guest lock stays where it is.                           *)
Block(t) ==
  /\ PlainCall(t) /\ ~CanTake(t)
  /\ stuck' = stuck \cup {t}
  /\ UNCHANGED <<turn, device, stream, voices, pcm, lag>>

(* guest_quantum: guest code is preempted, a blocked call is not.          *)
Preempt(t) ==
  /\ turn \notin stuck /\ turn # t
  /\ turn' = t
  /\ UNCHANGED <<stuck, device, stream, voices, pcm, lag>>

-----------------------------------------------------------------------------
(* One frame of advance_buffer.                                            *)
Moves(v) == v \in playing /\ used[v] = "secondary"
Ends(v)  == cursor[v] >= Frames /\ v \notin looping
NextFrame(v) == (IF cursor[v] >= Frames THEN 0 ELSE cursor[v]) + 1

MixFrames ==
  /\ cursor' = [v \in Voices |->
       IF Moves(v) /\ ~Ends(v) THEN NextFrame(v) ELSE cursor[v]]
  /\ playing' = playing \ {v \in Voices : Moves(v) /\ Ends(v)}
  /\ UNCHANGED <<used, refs, data, looping, locked>>

(* audio_more: SDL's thread, which owns the stream's lock meanwhile.       *)
AudioMore ==
  /\ device = "stream" /\ owner = Nobody
  /\ MixFrames
  /\ UNCHANGED <<turn, stuck, device, stream, pcm, lag>>

(* dsound_mixer_tick_silent, from GetCurrentPosition, GetStatus and        *)
(* dsound_buffer_is_playing.  g_silent_time moves on even when the time    *)
(* since then is less than a frame.                                        *)
TickSilent(t) ==
  /\ PlainCall(t) /\ device = "silent" /\ lag > 0
  /\ lag' = 0
  /\ IF lag \div FrameTicks > 0 THEN MixFrames ELSE UNCHANGED voices
  /\ UNCHANGED <<turn, stuck, device, stream, pcm>>

(* The guest's clock.  At most one frame falls between two polls here.     *)
Tick ==
  /\ device = "silent" /\ lag < 2 * FrameTicks - 1
  /\ lag' = lag + 1
  /\ UNCHANGED <<turn, stuck, device, stream, voices, pcm>>

-----------------------------------------------------------------------------
(* claim, in dsound_mixer_alloc_voice: a zeroed voice with one reference.  *)
Claimed(v, kind, d, loops, locks) ==
  /\ used' = [used EXCEPT ![v] = kind]
  /\ refs' = [refs EXCEPT ![v] = 1]
  /\ data' = [data EXCEPT ![v] = d]
  /\ cursor' = [cursor EXCEPT ![v] = 0]
  /\ playing' = playing \ {v}
  /\ looping' = IF loops THEN looping \cup {v} ELSE looping \ {v}
  /\ locked' = IF locks THEN locked \cup {v} ELSE locked \ {v}

Unchanged4 == UNCHANGED <<turn, stuck, device, lag>>

(* ds_CreateSoundBuffer.  A refusal of the format, or no memory, gives the *)
(* voice back and changes nothing here.                                    *)
CreatePrimary(t, v) ==
  /\ Call(t) /\ v \in Free
  /\ Claimed(v, "primary", NoPcm, FALSE, FALSE)
  /\ Unchanged4 /\ UNCHANGED <<stream, pcm>>

CreateSecondary(t, v, p) ==
  /\ Call(t) /\ v \in Free /\ p \in Pcms \ pcmLive
  /\ Claimed(v, "secondary", p, FALSE, FALSE)
  /\ pcmLive' = pcmLive \cup {p}
  /\ pcmRefs' = [pcmRefs EXCEPT ![p] = 1]
  /\ Unchanged4 /\ UNCHANGED stream

(* ds_DuplicateSoundBuffer: *b = source, `looping' and `locked' included.  *)
Shared_Uncounted(p) == pcmRefs
Shared(p) == [pcmRefs EXCEPT ![p] = @ + 1]

Duplicate(t, v, src) ==
  /\ Call(t) /\ v \in Free /\ src \in Secondary
  /\ src \in locked => "duplicate" \in Liberties
  /\ Claimed(v, "secondary", data[src], src \in looping, src \in locked)
  /\ pcmRefs' = Shared(data[src])
  /\ UNCHANGED pcmLive
  /\ Unchanged4 /\ UNCHANGED stream

(* b_AddRef and b_QueryInterface take no lock.                             *)
AddRef(t, v) ==
  /\ PlainCall(t) /\ v \in Live /\ refs[v] < MaxRefs
  /\ refs' = [refs EXCEPT ![v] = @ + 1]
  /\ UNCHANGED <<used, data, playing, looping, locked, cursor>>
  /\ Unchanged4 /\ UNCHANGED <<stream, pcm>>

(* dsound_mixer_free_voice: the last voice on a PCM frees it.              *)
FreeVoice(v) ==
  LET p == data[v] IN
  /\ used' = [used EXCEPT ![v] = "no"]
  /\ refs' = [refs EXCEPT ![v] = 0]
  /\ data' = [data EXCEPT ![v] = NoPcm]
  /\ cursor' = [cursor EXCEPT ![v] = 0]
  /\ playing' = playing \ {v}
  /\ looping' = looping \ {v}
  /\ locked' = locked \ {v}
  /\ IF p = NoPcm
       THEN UNCHANGED pcm
       ELSE /\ pcmRefs' = [pcmRefs EXCEPT ![p] = @ - 1]
            /\ pcmLive' = IF pcmRefs[p] = 1 THEN pcmLive \ {p} ELSE pcmLive

(* dsound_buffer_release_guest.                                            *)
Release(t, v) ==
  /\ Call(t) /\ v \in Live
  /\ v \in locked => "release" \in Liberties
  /\ IF refs[v] > 1
       THEN /\ refs' = [refs EXCEPT ![v] = @ - 1]
            /\ UNCHANGED <<used, data, playing, looping, locked, cursor, pcm>>
       ELSE FreeVoice(v)
  /\ Unchanged4 /\ UNCHANGED stream

-----------------------------------------------------------------------------
(* b_Lock.  A buffer that is locked, and a primary one, which has no data, *)
(* are refused, and the stream's lock is given back at once.               *)
Refused_Keeps(t) == Kept(t) /\ UNCHANGED voices
Refused(t) == UNCHANGED <<stream, voices>>

Granted_GivesBack(t, v) ==
  /\ locked' = locked \cup {v}
  /\ UNCHANGED <<stream, used, refs, data, playing, looping, cursor>>

Granted(t, v) ==
  /\ Kept(t)
  /\ locked' = locked \cup {v}
  /\ UNCHANGED <<used, refs, data, playing, looping, cursor>>

Lock(t, v) ==
  /\ Call(t) /\ v \in Live /\ depth < MaxDepth
  /\ device = "unopened" => "early" \in Liberties
  /\ IF v \in locked \/ data[v] = NoPcm THEN Refused(t) ELSE Granted(t, v)
  /\ Unchanged4 /\ UNCHANGED pcm

(* b_Unlock, by the thread that locked.                                    *)
Unlock(t, v) ==
  /\ PlainCall(t) /\ v \in locked
  /\ device = "stream" /\ owner # t => "foreign" \in Liberties
  /\ locked' = locked \ {v}
  /\ GivenBack(t)
  /\ UNCHANGED <<used, refs, data, playing, looping, cursor>>
  /\ Unchanged4 /\ UNCHANGED pcm

(* b_Play, b_Stop and b_SetCurrentPosition, which refuses a primary.       *)
Play(t, v, loop) ==
  /\ Call(t) /\ v \in Live
  /\ playing' = playing \cup {v}
  /\ looping' = IF loop THEN looping \cup {v} ELSE looping \ {v}
  /\ UNCHANGED <<used, refs, data, locked, cursor>>
  /\ Unchanged4 /\ UNCHANGED <<stream, pcm>>

Stop(t, v) ==
  /\ Call(t) /\ v \in playing
  /\ playing' = playing \ {v}
  /\ UNCHANGED <<used, refs, data, looping, locked, cursor>>
  /\ Unchanged4 /\ UNCHANGED <<stream, pcm>>

SetCurrentPosition(t, v, f) ==
  /\ Call(t) /\ v \in Secondary /\ f < Frames
  /\ cursor' = [cursor EXCEPT ![v] = f]
  /\ UNCHANGED <<used, refs, data, playing, looping, locked>>
  /\ Unchanged4 /\ UNCHANGED <<stream, pcm>>

(* dsound_mixer_open_device, once, from SetFormat of a primary buffer or   *)
(* the start of a movie.  It takes no lock.                                *)
OpenDevice(t, d) ==
  /\ PlainCall(t) /\ device = "unopened"
  /\ device' = d
  /\ UNCHANGED <<turn, stuck, stream, voices, pcm, lag>>

-----------------------------------------------------------------------------
Init ==
  /\ turn \in Threads /\ stuck = {} /\ device = "unopened"
  /\ owner = Nobody /\ depth = 0 /\ lag = 0
  /\ used = [v \in Voices |-> "no"]
  /\ refs = [v \in Voices |-> 0]
  /\ data = [v \in Voices |-> NoPcm]
  /\ cursor = [v \in Voices |-> 0]
  /\ playing = {} /\ looping = {} /\ locked = {}
  /\ pcmRefs = [p \in Pcms |-> 0] /\ pcmLive = {}

GuestStep(t) ==
  \/ Block(t) \/ Preempt(t) \/ TickSilent(t)
  \/ \E d \in Devices : OpenDevice(t, d)
  \/ \E v \in Voices :
       \/ CreatePrimary(t, v) \/ \E p \in Pcms : CreateSecondary(t, v, p)
       \/ \E src \in Voices : Duplicate(t, v, src)
       \/ AddRef(t, v) \/ Release(t, v)
       \/ Lock(t, v) \/ Unlock(t, v) \/ Stop(t, v)
       \/ \E loop \in BOOLEAN : Play(t, v, loop)
       \/ \E f \in 0 .. Frames - 1 : SetCurrentPosition(t, v, f)

Next == AudioMore \/ Tick \/ \E t \in Threads : GuestStep(t)

Spec == Init /\ [][Next]_vars

(* The clock goes on, and the guest polls.  Nothing is assumed of what     *)
(* else it calls.                                                          *)
Poll == \E t \in Threads : TickSilent(t)

Fairness == WF_vars(Tick) /\ WF_vars(Poll)

FairSpec == Spec /\ Fairness

-----------------------------------------------------------------------------
(* The values of the variables; no block of PCM has more references than   *)
(* there are voices.                                                       *)
TypeOK ==
  /\ turn \in Threads /\ stuck \subseteq Threads
  /\ device \in {"unopened", "stream", "silent"}
  /\ owner \in Threads \cup {Nobody} /\ depth \in 0 .. MaxDepth
  /\ used \in [Voices -> {"no", "primary", "secondary"}]
  /\ refs \in [Voices -> 0 .. MaxRefs]
  /\ data \in [Voices -> Pcms \cup {NoPcm}]
  /\ playing \subseteq Voices /\ looping \subseteq Voices
  /\ locked \subseteq Voices
  /\ cursor \in [Voices -> 0 .. Frames]
  /\ pcmRefs \in [Pcms -> Nat] /\ pcmLive \subseteq Pcms
  /\ lag \in Nat

(* Shared PCM (dsound_mixer_free_voice and DuplicateSoundBuffer): in every *)
(* order of duplicating and releasing, a block has as many references as   *)
(* voices play it, and its memory is allocated while there is one: neither *)
(* freed under a voice nor kept after the last.                            *)
VoicesOf(p) == {v \in Voices : data[v] = p}
PcmIsExact ==
  \A p \in Pcms :
    /\ pcmRefs[p] = Cardinality(VoicesOf(p))
    /\ p \in pcmLive <=> VoicesOf(p) # {}

(* What the comment at dsound.cpp:355 says: while the guest writes to a    *)
(* range that Lock returned, SDL's callback stays out, so it never mixes a *)
(* block that is half written.                                             *)
WritesAreWhole == [][AudioMore => locked = {}]_vars

(* The stream's lock is held as often as there are buffers between Lock    *)
(* and Unlock (b_Lock, b_Unlock): no refusal, release or nested lock keeps *)
(* it, which would end all sound, or gives it back too early.  A call that *)
(* blocks for it does so because another thread lost its turn between Lock *)
(* and Unlock, and for no other reason.                                    *)
StreamMatchesLocks ==
  /\ device = "stream" =>
       /\ depth = Cardinality(locked)
       /\ owner = Nobody <=> locked = {}
  /\ stuck # {} => locked # {} /\ owner \notin stuck

(* "Release the serialized guest while the host call blocks so another     *)
(* guest pthread can make progress" (guest_blocking_begin in threads.cpp): *)
(* the thread between Lock and Unlock can get its turn back, and so reach  *)
(* its Unlock.  dsound_mixer_lock blocks without that call.                *)
HolderGetsTurn == owner # Nobody => turn = owner \/ turn \notin stuck

(* "Cursors still advance" (dsound.cpp:13-16): with the silent device a    *)
(* secondary voice that plays does not stay at one frame for ever, though  *)
(* the guest polls and the clock goes on (dsound_mixer_tick_silent).       *)
CursorMoves ==
  \A v \in Voices : \A f \in 0 .. Frames :
    (device = "silent" /\ Moves(v) /\ cursor[v] = f)
      ~> (~Moves(v) \/ cursor[v] # f)
=============================================================================
