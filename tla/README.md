# Formal models of the xmen2 host

xmen2 runs the Windows binary of *X-Men Legends II* natively: a JIT executes
the game's x86 code, and host code under `src/src` supplies the Win32, Direct3D
8, DirectInput, DirectSound and Winsock calls that the game makes. (Paths below
are relative to the root of the repository's tree, `src/`.)

This directory holds TLA+ models of the parts of that host whose correctness
depends on the order of steps of several actors, the TLC runs that check them
on small instances, and TLAPS proofs of what matters most for instances of any
size.

1. [Inventory](#1-inventory)
2. [Plan](#2-plan)
3. [The modules](#3-the-modules)
4. [The runs](#4-the-runs)
5. [The proofs](#5-the-proofs)
6. [Disagreements between code and comments](#6-disagreements-between-code-and-comments)
7. [What is not modelled](#7-what-is-not-modelled)

Conventions. A definition that translates code has the source's name where
TLA+ allows it. A definition `Name_Mistake` next to a definition `Name` is
`Name` with that mistake, one a programmer could make (a guard dropped, a bound
off by one); no specification uses it. Substituted for `Name`, it must make the
run that checks the corresponding property fail: it shows that the property can
notice. `MC*.tla` and `*.cfg` are the instances for TLC, `*Proofs.tla` the
proofs. A variable or an operator called *external* stands for the title's own
code, which is not in this tree, and says only what the code here reads of it.

## 1. Inventory

### 1.1 The core: guest threads and the objects they share

Every guest thread is a host pthread, and one pthread mutex (`g_lock`) lets one
at a time execute guest code. Every Win32 call runs with that mutex held from
its first to its last line, except where it parks. That makes the scheduler the
one place with true fine-grained concurrency, and turns each layer above it
into interleavings of whole calls, cut at the points where a thread can park or
be preempted.

| Component | State | Operations | Interacts with | What is hard | Correct when |
|---|---|---|---|---|---|
| Scheduler (`threads.cpp`, `threads_yield.cpp`, `threads_ready.cpp`) | `g_lock`, `g_cond`, `g_yield_lock`, `g_yield_cond`, four counters, the `GuestThread` records | lock, yield a turn, wait, broadcast, enter and leave a blocking call, suspend, resume, create, exit, reap | everything that parks or runs guest code | fast paths that trust counters read without the lock; lost wake-ups; a suspend that arrives while its target is in any kind of wait; two threads that both spin | one thread runs guest code, a suspended one never, each with its own TLS; no wake-up is lost; nobody that spins starves another |
| Critical sections (`kernel32.cpp`) | the guest's own `RTL_CRITICAL_SECTION` fields | initialize, delete, enter, try, leave | parks in the scheduler | sections left by strangers, and deleted or initialized while in use | never two inside; nobody sleeps on a free section |
| Semaphores, events, mutexes, waits (`kernel32.cpp`, `kernel32_wait.cpp`) | `Handle::count`, `owner_tid`, `waiters`, `pulses` | create, set, reset, pulse, release, wait for one, any or all | parks in the scheduler; runs timer callbacks inside a wait | broadcasts guarded by a counter; pulses that leave no state; waits for all that must take nothing before they can take everything | exclusion, conservation, no sleeper whose wait is satisfied, exact pulses |
| Thread handles (`kernel32_handle_table.cpp`, `kernel32.cpp`, `threads.cpp`) | the handle table and the thread records, both with indices that are used again | create, duplicate, move, close, suspend, resume, end of a thread | the scheduler's records | an index handed out again while something still names it; a creation that fails half-way | an open handle means the thread it was opened for |
| Multimedia timers and calls into guest code (`winmm.cpp`, `igvk_ark.cpp`) | the timer slots, `g_pumping`, the arena pointer `g_call_sp` | set, kill, pump (from a time query, a Sleep or a wait), call out, return | callbacks are guest code, on whichever thread pumps | re-entrance; the timer table changing under the pump; nested calls on one arena | one callback at a time, none early, every due timer fires; frames never overlap |

### 1.2 The layers above: sound, saves, the LAN, players

| Component | State | Operations | Interacts with | What is hard | Correct when |
|---|---|---|---|---|---|
| DirectSound and the mixer (`dsound.cpp`, `dsound_mixer.cpp`) | the voices, the shared blocks of PCM and their counts, the lock of SDL's stream, the silent clock | create, duplicate, reference, release, lock, unlock, play, stop, seek, ask the position; SDL's callback mixes | guest threads, SDL's audio thread | the stream's lock stays with the guest between Lock and Unlock, and the guest can be preempted there; duplicates share PCM in any order of release | PCM lives exactly as long as its voices; no half-written block is mixed; the stream's lock is held for the buffers being written and nothing else; whoever holds it gets its turn back; cursors move without a device too |
| Saves (`save/`, `autosave_runtime.cpp`, `continue_runtime.cpp`, `exact_save_load.cpp`, `load_game_menu_runtime.cpp`) | the policy's flags, the publication, the directory, one register that names the next read, the pending acknowledgement | extraction pad, poll, capture, publish, Continue, list, choose, read, acknowledge | the title's save manager; the file system | a failure, a kill or a power loss at any step; menus, Continue and checkpoints in any order | no name ever holds a torn record; what was reported saved stays; a load reads what was chosen |
| LAN rendezvous (`lan_rendezvous.cpp`, `lan_nat_negotiation.cpp`) | the pairing table, the game's beginnings, outcomes not yet told | begin, cancel, poll, answer | UDP broadcast; the game's callbacks, which call back | lost, late and repeated messages; two sides that give up at different times; an answer that begins, cancels and polls | both sides pair or both know; each beginning is answered |
| LAN sessions (`lan_coordinator.cpp`, `lan_session_director.cpp`, `lan_presence*.cpp`, `lan_peers.cpp`) | the coordinator, the director's script, the table of peers | announce, ask, re-form, join, lose, quit | the title's front end and network session; other machines | lost announcements; everyone waiting for everyone; facts of one session read in the next | a choice to quit is final; lobbies start; nobody waits for ever |
| Pads and players (`dinput_pad.cpp`, `dinput8*.cpp`, `input_assignments.cpp`, `transient_controller_assignment.cpp`, `player_input.cpp`) | SDL's pads, the slots, the title's table of controllers, lasting and session assignments, what is published | plug, unplug, pump, enumerate, load a save, assign by row or command, clear | SDL, the title, the settings screen | slots reused under the title; saves that bring a table; two kinds of ownership of one pad | no device has two owners; the title polls every pad, each for its own player |

### 1.3 The rest of the program

| Component | Sources | What is hard | Planned? |
|---|---|---|---|
| GPU staging ring, index arena, frame epoch | `gpu/` | memory reused while a command still reads it; texture uploads, unlike buffer uploads, are not cycled; an upload that fails after the buffer was given another place | yes |
| Live resolution | `presentation/live_resolution.cpp` | four steps, each can fail, and so can the rollback | yes |
| Direct3D 8 objects and state blocks | `d3d8/` | reference counts; applying a block after its objects are gone | in part |
| Guest heap, VirtualAlloc, TLS contents, last error | `native/guest_heap.cpp`, `native/kernel32_virtual.cpp`, `native/kernel32.cpp` | state shared by threads that do not know of each other | in part |
| JIT pool | `native/x86_engine_jit_pool.cpp` | invalidations that wait for their owner | in part |
| Touch input | `input/touch_*.cpp`, `native/*_touch.cpp` | which finger owns which control | in part |
| Cutscene drivers, menus, HUD, text, UI documents, settings, control server, movies, loader, shims, diagnostics | see `PROJECT.json` | sequential, pure layout, parsing or an external library | no |

`PROJECT.json` lists every component with its sources and, under `hazards`,
each place where something can go wrong that a test would hardly reach.

## 2. Plan

The order puts first what everything else rests on: a mistake in the scheduler
shows up as a freeze or a corruption anywhere.

| Step | Modules | Abstract specification | Theorems |
|---|---|---|---|
| 1, done | `GuestScheduler`, `GuestTurns` | `GuestTurns`: threads take turns | all safety invariants; the implementation |
| 2, done | `CriticalSection` | | exclusion, no sleeper on a free section, `LockCount` |
| 3, done | `SyncObjects` | | nothing taken twice; no sleeper on a signal; exact pulses |
| 4, done | `ThreadHandles` | | handles keep their threads; records come back |
| 5, done | `GuestTimers` | | one pump, and somebody awaits each timer; no callback early; frames disjoint and the arena given back until a call ends out of turn |
| 6, done | `SoundBuffers` | | shared PCM is exact; the stream's lock follows the buffers; blocks are mixed whole |
| 7, done | `Autosave`, and `SaveGames` on top of it | | no torn record; what was saved stays; no litter; exact loads; acknowledgements |
| 8, done | `LanRendezvous`, `LanSessions` | | one report per end; a side stops only when the other knows; both pair in time despite losses; a choice is final; nobody who waits hosts |
| 9, done | `DeviceSeats`, and `PlayerPads` on top of it | | owners, polling, publication and harmless moves, for any number of pads |
| 10 | staging ring, index arena, frame epoch | a draw reads the bytes uploaded for it | no byte is overwritten while a command reads it |
| 11 | live resolution | all four owners agree on one size | |
| 12 | D3D8 references and state blocks, guest heap, JIT pool | | reference counts are exact |

Each module keeps recursion out (so that it can be proved about), has one
action per call or per stretch between two parking points, and states its
invariants as named conjuncts. Composition happens through the abstract view: a
module above the scheduler takes "a call is one step, a park ends for any
reason" from `GuestScheduler`, where mutual exclusion and the wake-ups are
checked and proved.

## 3. The modules

### GuestScheduler, GuestTurns, GuestSchedulerProps

`GuestScheduler` follows each pthread through `guest_lock`, `guest_yield_turn`,
`guest_cond_wait_us`, `guest_suspend_point` and the blocking calls. A step is
what a pthread does between two points where another can observe or affect it;
`pc` names these points. Two mutexes, two condition variables (as sets of
parked pthreads that no broadcast has released) and four counters are
variables of their own; `state`, `suspended`, `deadline`, `ready` are the
fields of the `GuestThread` records.

- The yield path reads the thread table with only `g_yield_lock` held. While
  another thread owns `g_lock` and is changing the records, that scan may find
  anything (`Glimpse`); otherwise it is taken at one moment.
- `fresh` stands for the comparison of a sampled epoch with `g_acquires`: a
  thread leaves the set when somebody advances the epoch.
- Condition variables may wake for no reason (`Spurious`).
- Guest time is only "the deadline is ahead" or "has passed".

`GuestTurns` is what threads.h promises: a turn, a bank, lives and suspend
counts. `ImplementsTurns` maps the turn to whoever is at the program point
`guest`.

Left out: nested holds of the lock (every nested call is inside an outer one),
thread priorities (recorded, never used by the schedule), and the counters that
only reports read.

### CriticalSection

One section, its three fields, and the wait loop of `EnterCriticalSection` as
"asleep" and "awake". `Renew` is initialization or deletion while in use, which
the code tolerates on purpose (libCriMovie's teardown does it); `inside` is the
history that says what the guest believes it holds. The 30 second report of a
long wait changes nothing and is left out.

### SyncObjects, SyncObjectsProps

One object of each kind, waited for alone, any of two or all of two. A wait
that is not satisfied counts itself in `waiters`, notes the event's pulse
generation, and sleeps; `Wake` is the end of that sleep for any reason; from
then on, until it tests again, the thread may run timer callbacks, which are
guest code, so "awake" threads make every signalling call too. `credit`, `held`
and `pulsed` are histories: what the guest's own calls should have left behind.

### ThreadHandles

The handle table and the thread records. `Create`, `CreateFails`, `Finish`,
`Close`, `Duplicate`, `DuplicateSelf`, `Move` (`DUPLICATE_CLOSE_SOURCE`),
`Suspend`, `Resume`. `means` remembers which of a record's successive threads a
handle was opened for. Which free index is taken is left open, which covers the
code's lowest-first choice.

### GuestTimers

The timer slots, the pump, the parks and the arena. `Pump` runs where the code
pumps: in `QueryPerformanceCounter`, after a `Sleep`, after each slice of an
object wait. It proceeds to its first callback; `Return` is the end of a
callback and goes on with the scan from the next slot *at the instant the pump
began with*. Between those two steps any thread can do anything, including
killing and setting the slots the scan has yet to visit. `frames` holds each
thread's calls into guest code, with the arena pointer they will put back.
`SlotCall` is a native slot of the engine that calls out to guest code. `order`
is the history of the calls of all threads in the order they began in, and
`crossed` remembers that one of them ended while a later one of another thread
went on: `g_call_sp` is one stack for all guest threads, and only that spoils
it.

A call that does not fit the arena faults in the code; in the model it cannot
be made, and the run of `MCHostCalls.cfg` stops there, which is why that
configuration does not look for deadlock.

### SoundBuffers

`turn` is the guest lock; each DirectSound call is one step of its holder, or
leaves it `stuck`, with the turn, until the stream's lock is free. Lock takes
that lock and keeps it; other threads get the turn meanwhile (`SwitchesTo`).
`AudioMore` is SDL's callback, which needs the lock; `Tick` and `TickSilent`
are the clock and the polls that move cursors where there is no device, with
`lag` the time since the last poll. `Liberties` lists what a guest could do
beyond DirectSound's rules, all of which the code accepts: duplicate or release
a buffer between its Lock and Unlock, release one too early, unlock from
another thread. With any of them `StreamMatchesLocks` fails; the runs assume
none. `StreamMatchesLocks` says for what the stream's lock is held and for what
a call blocks. It does not say that the lock comes back, and for a device that
plays it need not: a thread preempted between Lock and Unlock never gets its
turn back from one that blocks on the stream with the guest lock
(`HolderGetsTurn`, section 6).

### Autosave, SaveGames

`Autosave` is the checkpoint: the policy (a pad, a cooldown, a number of idle
polls), the capture, and the publication one system call per step. `name` is
the directory as a reader sees it and `survives` what a power loss may leave of
each name, the several contents a rename leaves open until the directory is
synced. `Fail`, `Kill` and `PowerLoss` come between any two steps. Records are
told apart by their times, which are distinct because checkpoints are a
cooldown apart; a temporary file that exists already counts as an open that
fails.

`SaveGames` adds the loads: the main menu with Continue, the Load Game list,
the read that the title dispatches some time after (external: `mode`, `phase`,
`slot`) and that an override redirects to the file in `register`, and the
message box that Continue answers by itself. The title's own saves are atomic
here; its manager never forgets a read it accepted.

Three things the model does and a reader may not expect, all as the code has
them: a checkpoint that was put off is taken after a load that comes between; a
clock that steps back makes the newest autosave the one to be replaced next;
and a checkpoint that is cancelled or fails has used up its cooldown.

### LanRendezvous

`table` is the pairing table, `game` what the game has begun and was not told
the end of, `ended` the outcomes taken out and not yet told, `calling` the
machines in the middle of telling. `air` holds messages; a poll receives some
of them, and any can be lost, late or delivered twice. `Tick` is a resend
interval. `gap` and `misses` are histories of what the property allows for: how
far apart the two sides began and how much they lost. `gaveUp` holds the sides
whose game cancelled the last pairing it began: only the game knows that, for a
cancel from inside an answer can be followed by the outcome it came too late to
stop (`MCCancelInAnswer.cfg`), and what was answered then proves nothing about
the exchange. `unheard` holds the sides whose outcome was taken up and, with no
guest memory left for the address, not told: `Answer` has that outcome at any
time, and `EveryBeginEnds` names it as the one way for a beginning to stay
without an answer.

### LanSessions

Per machine: `co`, the coordinator's fields; `job`, the director's; `peers`,
its table; and the external `place`, `link` and `members`. The stages of a
script that take one call are merged into the stage that waits for something to
appear. Announcements carry what the policies read of them (a phase, and
whether the game is full); they replace each other, get lost, and arrive again.
Any time limit may have run out at a poll. `MaxTurns` bounds what players do
and how often a link breaks, never what the code does. Names that
`LanRendezvous` has too are told apart (`Nodes`, `title`, `SessionsNext`), as
are those of `CriticalSection` and `ThreadHandles`, so that one proof module can
extend both components of a source file.

Configurations that are modelled and that a reader of the code may want to know
of: a stale Lobby announcement makes a joiner leave its own campaign; a late
copy of a request re-forms a game that its asker has long joined; two joiners
for one free seat both leave, and one waits until its time runs out.

### DeviceSeats, PlayerPads

`DeviceSeats` is the arithmetic of assignments, without state: `Moved` hands
out a lasting reservation and finds a place for those displaced, `Given` and
`MadeRoom` do so for assignments of this run. `PlayerPads` adds SDL's pads
(`unit`, `plugged`), the slots (`pad`), the title's table (external: `table`,
`attached`), who owns what (`own`, `ses`) and what is published (`pub`).
`Pump` is the first input call of a frame, in the code's order: refresh the
slots, look at the title's table, have it enumerate if it is broken, resolve
ownership, publish. Joystick ids and instance GUIDs are never used again, so
that `Ids` stands for both. A save can be loaded at any time once the title has
enumerated, and its table names any of the pads that are open, all or none.
`spoilt` is the history of the loads that the pump does not repair: of a table
with some of the pads and not others, or with none at a time when `was_broken`
is set. The title's enumeration, which follows the next pad that comes or
leaves, ends it. `PumpAttachesAll` is about all other times; section 6 has what
happens at these.

## 4. The runs

| Run | Configuration | Instance | What it asks |
|---|---|---|---|
| `scheduler` | `MCGuestScheduler.cfg` | main and two records, two levels of suspend, all calls, spurious wakes; symmetric in the records; 323,919 states | nobody runs suspended or with another's TLS, no wake-up is lost, `GuestTurns` is implemented |
| `hand_off` | `MCGuestHandOff.cfg` | main and one thread that yield, suspend, resume, create and exit | does the hand-off starve either of two spinning threads |
| `critical_section` | `MCCriticalSection.cfg` | three threads, two levels deep, two renewals | exclusion, no sleeper on a free section, a waiter that gets the guest lock enters a section that stays free |
| `sync_objects` | `MCSyncObjects.cfg` | two threads, one object of each kind, nine waits, two pulses; 268,487 states | exclusion, conservation, no sleeper on a signal, exact pulses, waits return |
| `thread_handles` | `MCThreadHandles.cfg` | main, two records used twice, four handles, failing creations; 150,971 states | what a handle means, signals, records that come back |
| `guest_timers` | `MCGuestTimers.cfg` | two threads, two slots, four milliseconds; 307,409 states | one callback, none early, every due timer fires |
| `host_calls` | `MCHostCalls.cfg` | two threads, a timer, nested calls, an arena of 16 words with windows of 2; 758,459 states | frames disjoint and the arena given back, until a call ends out of turn |
| `sound_buffers` | `MCSoundBuffers.cfg` | two threads, two voices, two blocks of two frames, two ticks to a frame, with and without a device; 144,716 states | PCM exact, no half-written block mixed, the stream's lock held for buffers being written only |
| `save_games` | `MCSaveGames.cfg` | three autosaves, two idle polls, four records, one save of the title's own; 214,480 states | no torn record, what was saved stays, loads read what was chosen, checkpoints end |
| `lan_rendezvous` | `MCLanRendezvous.cfg` | two machines, one cookie, two tries each, four resends of time, one loss, answers that find no memory; 424,233 states | a side stops when the other knows, one loss does not part them, every beginning is answered unless memory runs out |
| `lan_sessions` | `MCLanSessions.cfg` | a host and a client, four seats, four turns; 124,198 states | a choice is final, lobbies start, nobody waits for ever |
| `player_pads` | `MCPlayerPads.cfg` | two pads and a keyboard, three players, three plug-ins, two slots, a table of three, five turns, tables with any of the pads; symmetric in the pads; 344,257 states | one owner per device and seat, every pad polled until a table is loaded that is not repaired, published controllers are their players' |

**Why these bounds.** *Three scheduler threads* are the least with a holder, a
thread on its way in and a third whose record is being changed; every counter
takes the values 0, 1 and 2, which is where its guards (zero or not) differ,
and a record is created, reaped and created again. *Two suspend levels* tell
the last resume from any other. *Three threads at a critical section* are an
owner, a waiter and a stranger; two levels of nesting tell the last leave from
a nested one. *Two threads and one object of each kind* suffice for a wait that
loses a race, for a set of which only one object can be taken, and for a waiter
whose object is signalled by a callback inside its own wait; a count of two and
two pulses tell "some" from "one". *Two records used twice by four handles*
allow an index to be reused while an alias of its former use exists. *Two timer
slots* are the least in which a pump goes on after a callback; *four
milliseconds* leave room for a periodic timer to fire and be due again.

*Two voices on two blocks* let a block be shared by both or each have its own,
and be freed by either; the proofs remove that bound. *Two ticks to a frame*
let the silent clock be polled within a frame and between frames. *Three autosaves
and four records* make the catalogue choose among empty, old and new names and
replace one of each. *One cookie and two tries* let messages of an earlier
beginning arrive in a later one; *one loss and four resends* are the smallest
case of what `PairsDespiteLosses` requires (twice the losses, the slack and
two); the code has forty. *Two machines* of the sessions are each other's
host in turn; *four turns* suffice to join, lose, quit and ask again; what takes
three machines (two joiners that compete) is left to the description in section
3. *Two pads with three plug-ins* have one pad come back under another identity
while its former one is still in the title's table; *three players* tell the
first from the rest and leave one to be displaced to.

The proofs show that for the safety properties of all the runs the bounds do not
matter, except where a theorem of section 5 has a hypothesis:
`InitialOwner = FALSE`, no `Liberties`, and time enough for the losses in the
rendezvous.

**Fairness.** Runs with safety properties only assume none. `hand_off` assumes
only that the host schedules every pthread that can take a step, and that a
running thread keeps offering its turn: the JIT calls `guest_quantum` after
every slice. `critical_section`: the second of a waiting thread passes, and
nothing else. That the thread then gets the guest lock, for which it competes
at a host mutex that promises it nothing, is a hypothesis of `WaiterGetsIn`
(`Retests`); owners need not leave. `sync_objects`: an awake thread re-tests; timed
waits end by themselves (the code parks with a deadline). `guest_timers`: the
clock goes on; parks that timed out end; guest code keeps asking the time and
its callbacks return. `sound_buffers` has no liveness; `MCSilentPoll.cfg`
assumes that the clock goes on and that the guest polls, by weak fairness.
`save_games`: the main loop
polls and a publication goes on; `CheckpointResolves` takes as its hypothesis
that the save manager is idle and the player in control from some time on.
`lan_rendezvous`: time passes, every machine polls again and again, and
callbacks return. `lan_sessions`: every machine polls with its time limits
past, again and again, and the title does what a script's keys ask of it.
Nothing is assumed of what guest code, players or the network otherwise do.

`CHECK_DEADLOCK FALSE` appears where the program really may stop: every guest
thread suspended or waiting with no deadline (`hand_off`), main suspended by
its own handle (`thread_handles`), a call that faults (`host_calls`), a guest
that calls nothing more, or that waits for the stream and cannot be helped,
which is a defect and listed in section 6 (`sound_buffers`),
the record bound reached in a menu (`save_games`).

## 5. The proofs

`GuestSchedulerProofs` proves, for every set of records, every bound on suspends
and every subset of calls, that the safety invariants of the run `scheduler`
hold, mutual exclusion and exact counters with them, and that every step of the
scheduler is a step of `GuestTurns` or a stutter. The invariants are not
inductive one by one. `IInv` is their conjunction with `QueuesMatch`, which says
where the pthreads of each queue are and that a record in state `COND` has not
got past the re-take of its lock: without it, a broadcast could mark a thread
that nobody will wake. The counters need a theory of their own (`CountMoved`):
moving one thread changes a count by its leaving and its arriving, and
`PcCounts` turns that into the four equations each action has to satisfy. Then
there is one lemma per action, and per conjunct that the action can disturb; the
temporal theorems combine them.

`Kernel32Proofs` has the proofs of two components of `kernel32.cpp`. Of the
critical section: exclusion, that nobody sleeps on a section that was left, and
the bounds of `LockCount`. The strengthening (`SectionInv`) is that a thread in
the wait loop is not the owner (`WaitersOwnNothing`), so that a contended
enter's late decrement always follows its own take. Of the thread handles: what
a handle means, the signals, and the return of records. There the strengthening
(`IInv`) is that handles the guest does not know come only from failed creations
(`StraysAreSpoilt`), so that in an unspoilt record "one handle left" is the
handle being closed.

`PlayerPadsProofs` proves all four properties of the run `player_pads`, for any
number of pads, keyboards, players, slots and table entries. That reservations
do not clash is inductive by itself, from one lemma about `Moved`. The rest
needs `IInv`: ids are given in order and a unit's latest is its largest
(`UnitInv`), an entry of the table is one pad's (`TitleInv`), a seat of this run
too (`SeatInv`), and a refresh never opens what is open (`Fits`). That one pad
is not published twice then follows by cases on how each of the two seats came
by it: by this run's assignment, or by a reservation that no such assignment
overrides. `PadsArePolled` needs `AInv` on top: between pumps the title polls
every open pad, or none because of a load that the next pump will see, or its
table is `spoilt`. No load is excluded. `MovesAreHarmless` proves what
`test_transient_controller_assignment.cpp` tries on examples: a way to hand out
seats either leaves every pad that had a seat with one, or changes one seat only.

`SyncObjectsProofs` proves the safety of the run `sync_objects` in three layers.
`WaitInv`: `waiters` counts exactly the threads inside a wait, whichever way a
wait ends. `TakenInv`, on its own: an object has left what it was given, less
what satisfied waits took; for mutexes this needs `InitialOwner = FALSE`, which
is the premise of `NothingTakenTwice`. `SignalInv`, with `WaitInv`: the wait of
a sleeper is `Barred`, that is, no object of it (or, for a wait for all, not
every one) can be taken by it. An object becomes takeable only in a step whose
broadcast wakes all sleepers, or one that skips the broadcast because `waiters`
is zero, and then by `WaitInv` nobody waits for that object.

`GuestTimersProofs` sees each step as adding a call, taking the innermost one
away, or putting a pump's next callback in the place of its last. There is one
pump because `g_pumping` and the one timer call, told apart by thread and
depth, come and go together (`OnlyOne`). `TimerIsAwaited` is inductive because
the last thread that goes to wait does so until the earliest timer at most.
That a callback is owed needs that a pump's instant has passed (`InstantsPast`)
and that a set slot's due time is what the guest was promised (`PromiseIsDue`).

The arena's two theorems are about the calls of any number of threads together.
As long as none has ended out of turn (`crossed`), the calls of all threads form
one pile in the order they began in (`Piled`): each lies a window or more below
the one before it, the pointer is below the last, and each will put back what it
found, the first of them the whole arena (`Pile`). A call added to the pile, the
last one taken away and a pump's next callback in the place of the last keep it
so (`Pushed`, `Popped`, `PileStep`); that frames are disjoint and that the arena
is whole when no call is left can be read off it (`PileIsDisjoint`,
`PileGivesBack`). Once calls have crossed the first is false; see section 6.

`SoundBuffersProofs` proves `PcmIsExact` for every guest: only that a voice not
in use has no data is needed. The other two properties hold for a guest that
takes no `Liberties`, from `StreamInv`: buffers are locked only once a device is
open, and a thread that waits for the stream is the one with the turn.
`StreamFollowsLocks` says what the lock is held for and that a blocked call
waits for a thread between Lock and Unlock; that the wait ends is neither
claimed nor true.

`SaveGamesProofs` proves the four safety properties of the run `save_games`. On
the disk (`DiskInv`), a name is only ever given a record that was written whole
and synced before, and one at least as recent as the last reported. In the
menus (`MenuInv`), nothing is published while the save manager is at work, so
that the directory stays as it was when the player chose; the register is owned
only between a read's start and its dispatch, and then says what was chosen.
`NothingIsLeftBehind` adds that no failure leaves a temporary file: one exists
only from its open to its rename, and a publication begins only after the last
has ended.

`LanProofs` proves the safety of both LAN components. The rendezvous rests on
`LanInv`, which sees each side of a pair in one of four places: it has not
begun, it waits, it has found its partner or it has lost it (`SideInv`). A side
that says, or has been understood to say, that it hears its partner has found
it, and the outcome was passed on to its game (`HeardInv`); and a row that stays
in the table has reported a partner if it found one (`TableInv`). From it follow
`EndsAreReportedOnce` (`OnceInv`: a row that outlives its report has
found its partner) and `StopsOnlyWhenKnown`.

`PairsInTime` is the bound behind it: in a pair within the slack and the losses
allowed, a side that waits has waited no longer than `gap + 2 * misses + Lag`,
where `Lag`, two ticks at most, is how far the next message still has to come
(`PairInv`). Each miss costs two ticks, one for the message and one for its
repetition. So nobody's time runs out if `Timely` holds: a resend is one tick,
and `PartnerTicks >= Slack + 2 * Losses + 2`. The run's instance meets the bound
exactly; with one tick less TLC finds a pair that one loss parts. The hypothesis
is on the constants. The code's time for a partner is 40 resends (10 s and 0.25
s), so it covers for instance ten losses between two sides that begin 18 resends
(4.5 s) apart.

Of the sessions, `SessionsInv` says that a machine is listed in no session but
its own (`SeatOk`), and that once a player has left, the coordinator knows it or
the machine has a role in which it follows nobody (`ChoiceOk`). That gives
`QuitIsFinal` and, with what a request to host looks at, `NoWaiterHosts`.

The proofs assume the `ASSUME`s of the modules (finite sets, distinct names,
positive bounds), which TLC evaluates in each instance, and the hypotheses that
a theorem states, which are those named in this section. All of these are met
by the run of the property.

Model-checked only: all liveness. It rests on fairness and `ENABLED`, which the
prover does not handle: `ContenderGetsTurn`, `YieldReturns`, `WaiterGetsIn`,
`DueTimerFires`, `WaitReturns`, `CheckpointResolves`,
`EveryBeginEnds`, `LobbyStarts` and `PendingEnds`.

## 6. Disagreements between code and comments

Each of these is a property in its module that the configuration named here
shows violated; they are not among the regular runs. Three more can be read off
the modules directly: after a contended enter `LockCount` is -1 while the
section is owned, where the comment in `kernel32.cpp` gives -1 to a free one;
any broadcast ends a `Sleep` before its time (`Disturbed` in `GuestTimers`); and
an answer that finds no guest memory (`lan_nat_negotiation.cpp:112-117`) is
never given, since the beginning is forgotten at line 98 already, although the
header says that the poll answers "the game for every pairing that ended"
(`Answer` in `LanRendezvous`).

- `MCHostCallsShared.cfg`: `g_call_sp` (`igvk_ark.cpp:123`) is one pointer for
  all guest threads, and each call into guest code puts back the value it
  found. When calls of two threads do not end in the order they began in, a
  frame still in use is handed out again (`FramesNeverOverlap`), the very overlap
  the comment there says was cured.
- `MCSyncInitialOwner.cfg`: a mutex created with `bInitialOwner`
  (`kernel32.cpp:725`) has a depth and no owner; nobody can release or take it.
- `MCSyncPulseAny.cfg`: a pulse of a manual-reset event does not release a
  thread that waits for it among several objects (`kernel32_wait.cpp:366`).
- `MCSyncPulseAuto.cfg`: an auto-reset event that is only ever pulsed can stay
  signalled, when its one waiter waits for all of a set and times out.
- `MCThreadSlotLeak.cfg`: a thread whose last handle is closed while it runs
  keeps its record for ever after it ends (`threads.cpp:478`).
- `MCThreadStackLeak.cfg`: a failed `pthread_create` leaves a handle in the
  table that keeps the next thread in that record from being reaped.
- `MCThreadSuspendMain.cfg`: main can suspend itself through a duplicate of its
  pseudo-handle, although it is to be "refused by name".
- `MCGuestRoundRobin.cfg`: of three threads that spin, two can pass the turn
  between them for ever; `threads.cpp:192` calls its schedule round-robin.
- `MCStreamDeadlock.cfg`: a buffer's Lock keeps the stream's lock until Unlock,
  across guest code that can lose its turn (`dsound.cpp:354`). Another thread
  that then calls into DirectSound blocks in `dsound_mixer_lock`
  (`dsound_mixer.cpp:50-55`) with the guest lock held, so that the first can
  never run to its Unlock (`HolderGetsTurn`): all guest threads stand still, and
  SDL's audio thread with them. A blocking host call is to "release the
  serialized guest while the host call blocks so another guest pthread can make
  progress" (`threads.cpp:237`); this one does not.
- `MCSilentPoll.cfg`: with no device, a poll drops the time that is less than
  one frame (`dsound_mixer.cpp:279`); a guest that polls more often than once a
  frame never sees a cursor move (`CursorMoves`), although `dsound.cpp:14-16`
  says that a silent machine behaves like a loud one there.
- `MCCancelInAnswer.cfg`: an answer's callback can cancel a pairing whose
  outcome waits behind it, and the game is told of it all the same
  (`lan_nat_negotiation.cpp:94`); the header says that nothing more is reported.
- `MCPadsHalfTables.cfg`: the pump takes the title's table for a live one as
  soon as one entry names a live pad (`matched > 0`, `dinput8_hotplug.cpp:124`).
  An ordinary save of this run that names one pad of two leaves the other
  unpolled until some pad comes or leaves (`TableIsLive`), where the comment
  above (lines 104-116) has the table reflect the live inventory.
- `MCPadsHastyLoads.cfg`: a load right after a pump that found the table broken,
  because of another load or of the first pad that was plugged in, finds
  `was_broken` still set. The pump does not look again, and with a pad connected
  the table names none (`TableNamesSome`), the very state whose message
  (lines 141-146) announces the repair.

## 7. What is not modelled

In the modelled components:

- *Core*: the contents of TLS banks, which are not cleared when a record is
  used by another thread (`kernel32.cpp:753`), and the one last-error value of
  all threads; closing a handle while threads wait on it; the copy of an event
  or mutex that `DuplicateHandle` makes, two objects that should be one
  (`kernel32.cpp:1096`); the abort of a 30 second single wait; callbacks that
  end their thread; a call that does not fit the arena (`igvk_ark.cpp:110`);
  the diagnostic counters.
- *Sound*: volume, pan, frequency and the conversion of samples; `SetFormat` on
  a secondary buffer.
- *Saves*: the bytes of a campaign snapshot; the layout of the Load Game rows;
  the Windows half of the publication; Continue at boot
  (`continue_boot_dispatch`), which makes the start of the menu's Continue
  before any main menu was shown, of a record that the boot can name.
- *LAN*: the wire format and the sockets; the choice of a campaign map; labels.
- *Pads*: who has pressed Start (the participation policy), the touch pad's
  claim, joystick states and formats, rumble, the DirectInput 7 bridge, the
  identity that virtual pads override, an SDL subsystem that does not start.

The components of section 1.3 are open: the first five in the order of the
plan, the last not at all. Of those, the GPU's ring and arena have the most to
lose: every frame reuses memory that an earlier frame's commands may read.
