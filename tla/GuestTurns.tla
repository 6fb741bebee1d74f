----------------------------- MODULE GuestTurns -----------------------------
(***************************************************************************)
(* What the guest thread scheduler promises the guest program, as the      *)
(* header threads.h and the Win32 calls state it: guest threads take       *)
(* turns, one at a time; a suspended thread takes none until it has been   *)
(* resumed as often as it was suspended; suspending oneself gives the turn *)
(* up; and a thread that takes its turn sees its own TLS.                  *)
(*                                                                         *)
(* GuestScheduler implements this with a mutex, two condition variables    *)
(* and four counters; see ImplementsTurns in GuestSchedulerProps.         *)
(***************************************************************************)
EXTENDS Naturals

CONSTANTS Slots, Main, NoThread, MaxSuspend

Threads == Slots \cup {Main}

VARIABLES
  turn,       \* the thread that runs guest code, or NoThread
  bank,       \* whose TLS the running thread sees
  life,       \* "free", "live" or "finished"
  suspended   \* suspend counts

vars == <<turn, bank, life, suspended>>

Init ==
  /\ turn = Main
  /\ bank = Main
  /\ life = [t \in Threads |-> IF t = Main THEN "live" ELSE "free"]
  /\ suspended = [t \in Threads |-> 0]

TakeTurn(t) ==
  /\ turn = NoThread
  /\ life[t] = "live"
  /\ suspended[t] = 0
  /\ turn' = t
  /\ bank' = t
  /\ UNCHANGED <<life, suspended>>

GiveTurn(t) ==
  /\ turn = t
  /\ turn' = NoThread
  /\ UNCHANGED <<bank, life, suspended>>

(* A thread on its way to a suspend it has not noticed yet may bind its    *)
(* bank without ever running.                                              *)
Bind(t) ==
  /\ turn = NoThread
  /\ bank' = t
  /\ UNCHANGED <<turn, life, suspended>>

Suspend(t, u) ==
  /\ turn = t
  /\ life[u] # "free"
  /\ suspended[u] < MaxSuspend
  /\ suspended' = [suspended EXCEPT ![u] = @ + 1]
  /\ turn' = IF u = t THEN NoThread ELSE t
  /\ UNCHANGED <<bank, life>>

Resume(t, u) ==
  /\ turn = t
  /\ life[u] # "free"
  /\ suspended[u] > 0
  /\ suspended' = [suspended EXCEPT ![u] = @ - 1]
  /\ UNCHANGED <<turn, bank, life>>

Create(t, s) ==
  /\ turn = t
  /\ life[s] = "free"
  /\ life' = [life EXCEPT ![s] = "live"]
  /\ \E n \in {0, 1} : suspended' = [suspended EXCEPT ![s] = n]
  /\ UNCHANGED <<turn, bank>>

Exit(t) ==
  /\ t \in Slots
  /\ turn = t
  /\ turn' = NoThread
  /\ life' = [life EXCEPT ![t] = "finished"]
  /\ UNCHANGED <<bank, suspended>>

Reap(t, s) ==
  /\ turn = t
  /\ life[s] = "finished"
  /\ life' = [life EXCEPT ![s] = "free"]
  /\ UNCHANGED <<turn, bank, suspended>>

Next ==
  \E t \in Threads :
    \/ TakeTurn(t) \/ GiveTurn(t) \/ Bind(t) \/ Exit(t)
    \/ \E u \in Threads : Suspend(t, u) \/ Resume(t, u)
    \/ \E s \in Slots : Create(t, s) \/ Reap(t, s)

Spec == Init /\ [][Next]_vars
=============================================================================
