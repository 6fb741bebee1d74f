---------------------------- MODULE GuestTimers ----------------------------
(***************************************************************************)
(* The multimedia timers of src/src/native/winmm.cpp and the pump points   *)
(* that run them.  There is no timer thread: the callback of a timer that  *)
(* is due runs on whichever guest thread next reads the performance        *)
(* counter, or comes out of a Sleep or of a slice of an object wait        *)
(* (src/src/native/kernel32_wait.cpp).                                     *)
(*                                                                         *)
(* A step runs from one point where the guest lock can change hands to the *)
(* next.  A callback is guest code, so inside a pump there is such a point *)
(* at each callback: the pump keeps the instant it was called with, and    *)
(* everything else it reads may have changed when the callback returns.    *)
(*                                                                         *)
(* A callback is called the way native code calls out to guest code        *)
(* everywhere, through src/src/vulkan/igvk_ark.cpp: its arguments and the  *)
(* callee's stack live in one arena, handed out from one pointer that each *)
(* call lowers and puts back.                                              *)
(*                                                                         *)
(* An instant is a count of milliseconds.  A definition named Name_Slip is *)
(* a mistake that could be made in Name; no action uses it.                *)
(***************************************************************************)
EXTENDS Integers, Sequences, SequencesExt

CONSTANTS
  Threads,     \* guest threads
  MaxTimers,   \* MAX_TIMERS
  Lengths,     \* the delays, waits and sleeps the guest asks for
  MaxTime,     \* bound on the clock
  SlotArgs,    \* the argument counts of the native slots that call out
  MaxNesting,  \* bound on the calls a native slot's can be nested in
  Window,      \* ARK_FRAME_WINDOW, in words
  Arena        \* size of the arena, in words

ASSUME MaxTimersIsPositive == MaxTimers \in Nat \ {0}
ASSUME LengthsAreNat == Lengths \subseteq Nat
ASSUME MaxTimeIsNat == MaxTime \in Nat
ASSUME SlotArgsAreNat == SlotArgs \subseteq Nat
ASSUME MaxNestingIsNat == MaxNesting \in Nat
ASSUME ArenaHoldsACallback == Window \in Nat \ {0} /\ Arena \in Nat /\ Arena >= 5 + Window

Timers  == 1 .. MaxTimers
Forever == 2 * MaxTime + 1

VARIABLES
  now,       \* guest_clock_now_s
  kind,      \* per slot: "free", "oneshot" or "periodic" (used, periodic)
  due,       \* per slot: due
  delay,     \* per slot: delay_ms
  pumping,   \* g_pumping
  frames,    \* per thread: its calls into guest code, outermost first
  top,       \* g_call_sp
  order,     \* history: the calls in progress of all threads, in the order
             \* they began; empty once crossed
  crossed,   \* history: has a call ended before a later one of another thread?
  place,     \* per thread: "running", "waiting" or "sleeping"
  wake,      \* per thread: when its park times out
  promise    \* history: per slot, when the guest may be called; Forever: never

timers == <<kind, due, delay, promise>>
park   == <<place, wake>>
calls  == <<frames, top>>
history == <<order, crossed>>
vars   == <<now, timers, pumping, calls, history, park>>

-----------------------------------------------------------------------------
(* The slots from i on that a pump at the instant at would fire.           *)
IsDue_Killed(j, at) == due[j] <= at
IsDue(j, at) == kind[j] # "free" /\ due[j] <= at

DueFrom(i, at) == {j \in i .. MaxTimers : IsDue(j, at)}

LeastOf(S) == CHOOSE m \in S : \A n \in S : m <= n

(* The part of the fire that precedes the call: a periodic timer is due    *)
(* again, a one-shot's slot is free while its callback runs.               *)
Fire(j, at) ==
  /\ due' = IF kind[j] = "periodic" THEN [due EXCEPT ![j] = at + delay[j]] ELSE due
  /\ kind' = IF kind[j] = "periodic" THEN kind ELSE [kind EXCEPT ![j] = "free"]
  /\ promise' = [promise EXCEPT ![j] =
                   IF kind[j] = "periodic" THEN at + delay[j] ELSE Forever]
  /\ UNCHANGED delay

(* ark_enter, by thread t above its calls in rest, with the pointer at sp: *)
(* the arguments are placed from base up, the callee's stack below base.   *)
(* A call that does not fit faults, and the run is over.                   *)
Lowered_NoWindow(base) == base
Lowered(base) == base - Window

CallOut(t, rest, sp, n, why, id, at) ==
  /\ sp >= n + Window
  /\ frames' = [frames EXCEPT ![t] = Append(rest,
       [saved |-> sp, base |-> sp - n, why |-> why, id |-> id, at |-> at])]
  /\ top' = Lowered(sp - n)

(* The history of a step that leaves t its calls up to depth, and may make *)
(* one more.                                                               *)
Recorded(t, depth, kept) ==
  order' = IF crossed' \/ Len(frames'[t]) = depth THEN kept
                                                  ELSE Append(kept, <<t, depth + 1>>)

(* The loop of winmm_timers_pump_at from slot i on, up to its next call or *)
(* its end.                                                                *)
AfterCall_Set == "yes"
AfterCall == "no"

Scan(t, rest, sp, i, at) ==
  LET ready == DueFrom(i, at)
      j == LeastOf(ready)
  IN \/ /\ ready = {}
        /\ pumping' = AfterCall
        /\ frames' = [frames EXCEPT ![t] = rest]
        /\ top' = sp
        /\ UNCHANGED timers
     \/ /\ ready # {}
        /\ Fire(j, at)
        /\ pumping' = "yes"
        /\ CallOut(t, rest, sp, 5, "timer", j, at)

MayPump_Always == TRUE
MayPump == pumping = "no"

Pump(t) ==
  IF MayPump /\ DueFrom(1, now) # {}
  THEN Scan(t, frames[t], top, 1, now)
  ELSE UNCHANGED <<timers, pumping, calls>>

NothingEnds(t) == UNCHANGED crossed /\ Recorded(t, Len(frames[t]), order)

-----------------------------------------------------------------------------
(* QueryPerformanceCounter.                                                *)
QueryTime(t) ==
  /\ place[t] = "running"
  /\ Pump(t) /\ NothingEnds(t)
  /\ UNCHANGED <<now, park>>

(* A native slot of the engine calls out. *)
SlotCall(t, n) ==
  /\ place[t] = "running"
  /\ Len(frames[t]) <= MaxNesting
  /\ CallOut(t, frames[t], top, n, "slot", 1, 0) /\ NothingEnds(t)
  /\ UNCHANGED <<now, timers, pumping, park>>

(* The innermost call of t returns, a timer's into its pump.  It ends in   *)
(* turn if no thread has begun a call since that goes on.                  *)
Restored_ToBase(f) == f.base
Restored(f) == f.saved

InTurn(t) == order # <<>> /\ Last(order) = <<t, Len(frames[t])>>
Remaining(t) == IF InTurn(t) THEN Front(order) ELSE <<>>

Return(t) ==
  /\ place[t] = "running"
  /\ frames[t] # <<>>
  /\ LET f == Last(frames[t])
         rest == Front(frames[t])
     IN \/ /\ f.why = "timer"
           /\ Scan(t, rest, Restored(f), f.id + 1, f.at)
        \/ /\ f.why = "slot"
           /\ frames' = [frames EXCEPT ![t] = rest]
           /\ top' = Restored(f)
           /\ UNCHANGED <<timers, pumping>>
  /\ crossed' = (crossed \/ ~InTurn(t))
  /\ Recorded(t, Len(frames[t]) - 1, Remaining(t))
  /\ UNCHANGED <<now, park>>

(* timeSetEvent takes the first free slot, and a delay of at least 1 ms.   *)
FreeSlots == {j \in Timers : kind[j] = "free"}
AtLeast1(ms) == IF ms = 0 THEN 1 ELSE ms

SetEvent(t, ms, k) ==
  /\ place[t] = "running"
  /\ FreeSlots # {}
  /\ now + AtLeast1(ms) <= MaxTime
  /\ LET j == LeastOf(FreeSlots)
     IN /\ kind' = [kind EXCEPT ![j] = k]
        /\ delay' = [delay EXCEPT ![j] = AtLeast1(ms)]
        /\ due' = [due EXCEPT ![j] = now + AtLeast1(ms)]
        /\ promise' = [promise EXCEPT ![j] = now + AtLeast1(ms)]
  /\ UNCHANGED <<now, pumping, calls, history, park>>

(* timeKillEvent; a callback that is running goes on.                      *)
KillEvent(t, j) ==
  /\ place[t] = "running"
  /\ kind[j] # "free"
  /\ kind' = [kind EXCEPT ![j] = "free"]
  /\ promise' = [promise EXCEPT ![j] = Forever]
  /\ UNCHANGED <<now, due, delay, pumping, calls, history, park>>

-----------------------------------------------------------------------------
(* winmm_next_due_ms: how long to park for, given the wait's own rest.     *)
Earliest_First == IF kind[1] # "free" THEN {1} ELSE {}
Earliest == {j \in Timers : kind[j] # "free"
               /\ \A i \in Timers : kind[i] # "free" => due[j] <= due[i]}

MsLeft(j) == IF due[j] <= now THEN 0 ELSE due[j] - now

NextDue_NoCap(cap) == LeastOf(IF Earliest = {} THEN {cap} ELSE {MsLeft(j) : j \in Earliest})
NextDue(cap) == LeastOf({cap} \cup {MsLeft(j) : j \in Earliest})

(* A turn of an object wait's loop parks until the wait or its slice ends  *)
(* or a timer is due; Sleep parks for its length alone.                    *)
Wait(t, ms) ==
  /\ place[t] = "running"
  /\ now + ms <= MaxTime
  /\ place' = [place EXCEPT ![t] = "waiting"]
  /\ wake' = [wake EXCEPT ![t] = now + NextDue(ms)]
  /\ UNCHANGED <<now, timers, pumping, calls, history>>

Sleep(t, ms) ==
  /\ place[t] = "running"
  /\ ms > 0 /\ now + ms <= MaxTime
  /\ place' = [place EXCEPT ![t] = "sleeping"]
  /\ wake' = [wake EXCEPT ![t] = now + ms]
  /\ UNCHANGED <<now, timers, pumping, calls, history>>

(* What follows either park: a pump.  The wait's re-test lets the thread   *)
(* go or sends it back to Wait.                                            *)
Resume(t) ==
  /\ place' = [place EXCEPT ![t] = "running"]
  /\ Pump(t) /\ NothingEnds(t)
  /\ UNCHANGED <<now, wake>>

TimedOut(t) ==
  /\ place[t] # "running"
  /\ now >= wake[t]
  /\ Resume(t)

(* guest_cond_broadcast ends every park, and none is resumed by its caller *)
(* until it is found that nothing it waits for has happened.               *)
Disturbed(t) ==
  /\ place[t] # "running"
  /\ now < wake[t]
  /\ Resume(t)

Tick ==
  /\ now < MaxTime
  /\ now' = now + 1
  /\ UNCHANGED <<timers, pumping, calls, history, park>>

-----------------------------------------------------------------------------
Init ==
  /\ now = 0
  /\ kind = [j \in Timers |-> "free"]
  /\ due = [j \in Timers |-> 0]
  /\ delay = [j \in Timers |-> 0]
  /\ promise = [j \in Timers |-> Forever]
  /\ pumping = "no"
  /\ frames = [t \in Threads |-> <<>>]
  /\ top = Arena /\ order = <<>> /\ crossed = FALSE
  /\ place = [t \in Threads |-> "running"]
  /\ wake = [t \in Threads |-> 0]

Next ==
  \/ Tick
  \/ \E t \in Threads :
       \/ QueryTime(t) \/ Return(t) \/ TimedOut(t) \/ Disturbed(t)
       \/ \E ms \in Lengths :
            \/ \E k \in {"oneshot", "periodic"} : SetEvent(t, ms, k)
            \/ Wait(t, ms) \/ Sleep(t, ms)
       \/ \E j \in Timers : KillEvent(t, j)
       \/ \E n \in SlotArgs : SlotCall(t, n)

Spec == Init /\ [][Next]_vars

(* The clock goes on, a park that has timed out ends, and guest code keeps *)
(* asking the time and returns from its callbacks, whatever else it does.  *)
Fairness ==
  /\ WF_vars(Tick)
  /\ \A t \in Threads :
       WF_vars(QueryTime(t)) /\ WF_vars(TimedOut(t)) /\ SF_vars(Return(t))

FairSpec == Spec /\ Fairness

-----------------------------------------------------------------------------
(* The types of the timer slots, of the pump's frames and of the parks.    *)
TypeOK ==
  /\ now \in 0 .. MaxTime
  /\ kind \in [Timers -> {"free", "oneshot", "periodic"}]
  /\ due \in [Timers -> Nat] /\ delay \in [Timers -> Nat]
  /\ promise \in [Timers -> Nat]
  /\ pumping \in {"no", "yes"}
  /\ frames \in [Threads -> Seq([saved : 0 .. Arena, base : 0 .. Arena,
                                 why : {"timer", "slot"}, id : Timers, at : 0 .. MaxTime])]
  /\ top \in 0 .. Arena
  /\ place \in [Threads -> {"running", "waiting", "sleeping"}]
  /\ wake \in [Threads -> 0 .. MaxTime]

HistoryOK == order \in Seq(Threads \X Nat) /\ crossed \in BOOLEAN

(* One callback at a time in the whole process, although every guest       *)
(* thread pumps, callbacks ask the time themselves, and the thread in one  *)
(* can be preempted or parked (g_pumping).                                 *)
InProgress == UNION {{t} \X DOMAIN frames[t] : t \in Threads}
Callbacks == {c \in InProgress : frames[c[1]][c[2]].why = "timer"}
OneCallback ==
  /\ \A c, d \in Callbacks : c = d
  /\ pumping = "yes" <=> Callbacks # {}

(* The words of the arena that a call in progress relies on: its arguments *)
(* and the window its callee's stack was promised.                         *)
Words(f) == {w \in 0 .. Arena : f.base <= w + Window /\ w < f.saved}

(* "Each call reserves a frame below the current top and restores the top  *)
(* afterwards" (igvk_ark.cpp; issue #23 is what happens otherwise): no     *)
(* call in progress, of whichever thread, has its words in another's.      *)
FramesNeverOverlap ==
  \A c, d \in InProgress :
    c # d => Words(frames[c[1]][c[2]]) \cap Words(frames[d[1]][d[2]]) = {}

(* That holds for the calls of all threads together, nested and            *)
(* interleaved, for as long as every call has ended in turn.               *)
FramesDisjoint == ~crossed => FramesNeverOverlap

(* And with every call returned the whole arena is free again: as many     *)
(* levels of nesting fit as before.                                        *)
ArenaComesBack == ~crossed /\ InProgress = {} => top = Arena

(* A callback starts only for a timer that is set and has waited its delay *)
(* out, although the pump's instant is old by the time it goes on after a  *)
(* callback in which timers were killed and set.                           *)
Starts(t, j) ==
  /\ frames'[t] # <<>> /\ frames'[t] # frames[t]
  /\ Len(frames'[t]) >= Len(frames[t])
  /\ Last(frames'[t]).why = "timer" /\ Last(frames'[t]).id = j
CallbackIsOwed ==
  [][\A t \in Threads, j \in Timers : Starts(t, j) => now >= promise[j]]_vars

(* When every thread is parked in an object wait, one of them wakes in     *)
(* time for each timer: "the waiting thread is the one that will fire the  *)
(* callback" (winmm.h).                                                    *)
TimerIsAwaited ==
  (\A t \in Threads : place[t] = "waiting") =>
    \A j \in Timers :
      kind[j] = "free" \/ \E t \in Threads : wake[t] <= due[j] \/ wake[t] <= now

(* There is always one to fire the timers: never two callbacks, and never  *)
(* nobody who is awake in time.                                            *)
AlwaysOnePump == OneCallback /\ TimerIsAwaited

(* A timer the guest has set and not killed has its callback run once it   *)
(* is due.                                                                 *)
Owed(j) == promise[j] <= now
DueTimerFires == \A j \in Timers : Owed(j) ~> ~Owed(j)
=============================================================================
