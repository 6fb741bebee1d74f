--------------------------- MODULE LanRendezvous ----------------------------
(***************************************************************************)
(* Pairing two game sockets on one LAN: src/src/net/lan_rendezvous.cpp     *)
(* (the exchange) and src/src/native/lan_nat_negotiation.cpp (the game's   *)
(* side of it), over the broadcast of src/src/net/lan_presence.cpp.        *)
(*                                                                         *)
(* Both machines of a pair begin the same cookie.  Each says where its     *)
(* socket is until it has heard the other and the other has said that it   *)
(* heard; its game is answered once, with the partner or with none.  A     *)
(* message can be lost, late or delivered again, and a machine may not     *)
(* poll for a while.  A machine has one game socket, so that "found" says  *)
(* which endpoint was heard.                                               *)
(*                                                                         *)
(* An answer runs guest code, which can begin or cancel pairings and poll  *)
(* again while other answers wait.  Time is counted in resends.            *)
(*                                                                         *)
(* Name_Mistake is Name with that mistake; no specification uses it.       *)
(***************************************************************************)
EXTENDS Naturals, FiniteSets, Sequences, SequencesExt

CONSTANTS
  Machines,
  Cookies,
  Pair,          \* Pair[c]: the two machines that the host gave cookie c
  PartnerTicks,  \* kPartnerSeconds
  ResendTicks,   \* kResendSeconds
  Slack,         \* ticks between two beginnings of a pair, in the properties
  Losses,        \* messages and polls missed by a pair, in the properties
  MaxTries       \* bound on the beginnings of a cookie by a machine

ASSUME MachinesAreFinite == IsFiniteSet(Machines)
ASSUME CookiesAreFinite == IsFiniteSet(Cookies)
ASSUME PairsAreTwo ==
  Pair \in [Cookies -> SUBSET Machines] /\ \A c \in Cookies : Cardinality(Pair[c]) = 2
ASSUME TimesAreTicks == PartnerTicks \in Nat \ {0} /\ ResendTicks \in Nat \ {0}
ASSUME RendezvousBounds == {Slack, Losses, MaxTries} \subseteq Nat

NoPairing == [left |-> 0, wait |-> 0, found |-> FALSE, reported |-> TRUE,
              heardUs |-> TRUE, told |-> TRUE]

VARIABLES
  begun,     \* begun[m]: cookies of begun_
  game,      \* game[m]: cookies of game_
  table,     \* table[m][c]: RendezvousTable::Pairing, or NoPairing
  ended,     \* ended[m]: outcomes that the game has not been told of
  calling,   \* machines whose game runs an answer while others wait
  air,       \* air[m]: messages on their way to m
  polled,    \* machines that polled since the last tick
  tries,     \* tries[m][c]: beginnings so far
  outcomes,  \* history: outcomes of the table for the last of them
  answer,    \* history: the outcome taken up for the game, of the last of them
  unheard,   \* history: sides whose game could not be told that outcome
  gaveUp,    \* history: sides whose game cancelled the last of them
  gap,       \* history: ticks between the beginnings of a pair
  misses     \* history: what a pair missed

side    == <<begun, game, table, ended, calling, answer, unheard, outcomes>>
history == <<tries, gaveUp, gap, misses>>
vars    == <<side, history, air, polled>>

Partner(m, c) == CHOOSE p \in Pair[c] : p # m
Sides == {mc \in Machines \X Cookies : mc[1] \in Pair[mc[2]]}

(* n more, of a history that counts no further than to limit + 1.          *)
UpTo(limit, n) == IF n > limit THEN limit + 1 ELSE n

-----------------------------------------------------------------------------
(* Guest code of m runs: outside of the poll, or in an answer.             *)
GuestRuns(m) == ended[m] = <<>> \/ m \in calling

(* NatNegotiation::begin.  The pairing starts with the next poll.          *)
Begin(m, c) ==
  /\ GuestRuns(m) /\ m \in Pair[c] /\ tries[m][c] < MaxTries
  /\ begun' = [begun EXCEPT ![m] = @ \cup {c}]
  /\ game' = [game EXCEPT ![m] = @ \cup {c}]
  /\ tries' = [tries EXCEPT ![m][c] = @ + 1]
  /\ answer' = [answer EXCEPT ![m][c] = "none"]
  /\ unheard' = unheard \ {<<m, c>>}
  /\ outcomes' = [outcomes EXCEPT ![m][c] = 0]
  /\ gaveUp' = gaveUp \ {<<m, c>>}
  /\ UNCHANGED <<table, ended, calling, gap, misses, air, polled>>

(* NatNegotiation::cancel.                                                 *)
Cancel(m, c) ==
  /\ GuestRuns(m) /\ m \in Pair[c] /\ tries[m][c] > 0 /\ answer[m][c] # "cancelled"
  /\ begun' = [begun EXCEPT ![m] = @ \ {c}]
  /\ game' = [game EXCEPT ![m] = @ \ {c}]
  /\ table' = [table EXCEPT ![m][c] = NoPairing]
  /\ answer' = [answer EXCEPT ![m][c] = "cancelled"]
  /\ unheard' = unheard \ {<<m, c>>}
  /\ gaveUp' = gaveUp \cup {<<m, c>>}
  /\ UNCHANGED <<ended, calling, outcomes, tries, gap, misses, air, polled>>

-----------------------------------------------------------------------------
(* RendezvousTable::begin.                                                 *)
Fresh == [left |-> PartnerTicks, wait |-> 0, found |-> FALSE,
          reported |-> FALSE, heardUs |-> FALSE, told |-> FALSE]

(* RendezvousTable::heard, of messages with these partner_heard flags.     *)
Heard(p, flags) ==
  IF p = NoPairing \/ flags = {} THEN p
  ELSE [p EXCEPT !.found = TRUE,
                 !.wait = IF p.found THEN @ ELSE 0,
                 !.heardUs = @ \/ TRUE \in flags]

(* RendezvousTable::due.                                                   *)
IsDue(p) == p # NoPairing /\ ~(p.heardUs /\ p.told) /\ p.wait = 0

Sent(p) ==
  IF IsDue(p) THEN [p EXCEPT !.wait = ResendTicks, !.told = @ \/ p.found] ELSE p

(* RendezvousTable::take_outcomes: what is reported, and what is left.     *)
Expired(p) == p.left = 0

Reports_Again(p) == p # NoPairing /\ (p.found \/ Expired(p))
Reports_NotLate(p) == p # NoPairing /\ p.found /\ ~p.reported
Reports(p) ==
  p # NoPairing /\ (IF p.found THEN ~p.reported ELSE Expired(p))

Stops_Told(p) == p.found /\ p.told
Stops(p) == p.found /\ p.heardUs /\ p.told

Left(p) ==
  IF Expired(p) \/ Stops(p) THEN NoPairing
  ELSE [p EXCEPT !.reported = p.found]

-----------------------------------------------------------------------------
(* NatNegotiation::poll, after Presence::receive got some of the messages. *)
(* Outcomes of a poll inside an answer go before those that wait already.  *)
Poll(m) ==
  GuestRuns(m) /\ \E got \in SUBSET air[m], kept \in SUBSET air[m] :
    LET after == [c \in Cookies |->
                    Heard(IF c \in begun[m] THEN Fresh ELSE table[m][c],
                          {x.heard : x \in {y \in got : y.cookie = c}})]
        due == {c \in Cookies : IsDue(after[c])}
        sent == [c \in Cookies |-> Sent(after[c])]
        out == {c \in Cookies : Reports(sent[c])}
        result(c) == IF sent[c].found THEN "paired" ELSE "deadbeat"
    IN
    /\ begun' = [begun EXCEPT ![m] = {}]
    /\ table' = [table EXCEPT ![m] = [c \in Cookies |-> Left(sent[c])]]
    /\ outcomes' = [outcomes EXCEPT ![m] =
                      [c \in Cookies |-> IF c \in out THEN UpTo(1, @[c] + 1) ELSE @[c]]]
    /\ game' = [game EXCEPT ![m] = @ \ out]
    /\ ended' = [ended EXCEPT ![m] =
                   SetToSeq({[cookie |-> c, result |-> result(c)] :
                               c \in out \cap game[m]}) \o @]
    /\ calling' = IF out \cap game[m] = {} THEN calling ELSE calling \ {m}
    /\ air' = [n \in Machines |->
                 (IF n = m THEN kept ELSE air[n]) \cup
                 {[cookie |-> c, heard |-> after[c].found] :
                    c \in {d \in due : Pair[d] = {m, n}}}]
    /\ misses' = UpTo(Losses, misses + Cardinality(air[m] \ got))
    /\ polled' = polled \cup {m}
    /\ UNCHANGED <<tries, gaveUp, gap, answer, unheard>>

(* NatNegotiation::complete: the game's callback, which is guest code.     *)
(* Without guest memory for the address the outcome is dropped; a callback *)
(* that polled, if this is its poll, goes on.                              *)
Answer(m) ==
  /\ ended[m] # <<>>
  /\ LET o == Head(ended[m])
         called == IF ended'[m] = <<>> THEN calling \ {m} ELSE calling \cup {m}
     IN /\ answer' = [answer EXCEPT ![m][o.cookie] = o.result]
        /\ ended' = [ended EXCEPT ![m] = Tail(@)]
        /\ \/ unheard' = unheard /\ calling' = called
           \/ /\ unheard' = unheard \cup {<<m, o.cookie>>}
              /\ calling' \in {calling \ {m}, called}
  /\ UNCHANGED <<begun, game, table, outcomes, history, air, polled>>

Less(n) == IF n = 0 THEN 0 ELSE n - 1

(* Time passes.  A machine that has not polled has missed something.       *)
Tick ==
  /\ table' = [m \in Machines |-> [c \in Cookies |->
                 [table[m][c] EXCEPT !.left = Less(@), !.wait = Less(@)]]]
  /\ gap' = [c \in Cookies |->
               IF Cardinality({m \in Pair[c] : tries[m][c] > 0}) = 1
               THEN UpTo(Slack, gap[c] + 1) ELSE gap[c]]
  /\ misses' = UpTo(Losses, misses + Cardinality(Machines \ polled))
  /\ polled' = {}
  /\ UNCHANGED <<begun, game, ended, calling, answer, unheard, outcomes, tries,
                 gaveUp, air>>

-----------------------------------------------------------------------------
Init ==
  /\ begun = [m \in Machines |-> {}] /\ game = [m \in Machines |-> {}]
  /\ table = [m \in Machines |-> [c \in Cookies |-> NoPairing]]
  /\ ended = [m \in Machines |-> <<>>] /\ air = [m \in Machines |-> {}]
  /\ polled = {} /\ calling = {}
  /\ tries = [m \in Machines |-> [c \in Cookies |-> 0]]
  /\ outcomes = tries
  /\ answer = [m \in Machines |-> [c \in Cookies |-> "none"]]
  /\ unheard = {} /\ gaveUp = {} /\ gap = [c \in Cookies |-> 0] /\ misses = 0

Next ==
  \/ \E m \in Machines : Poll(m) \/ Answer(m)
  \/ \E m \in Machines, c \in Cookies : Begin(m, c) \/ Cancel(m, c)
  \/ Tick

Spec == Init /\ [][Next]_vars

(* The clock goes on, the game polls now and then, and its callbacks       *)
(* return.                                                                 *)
FairSpec ==
  /\ Spec /\ WF_vars(Tick)
  /\ \A m \in Machines : WF_vars(Answer(m)) /\ []<>(m \in polled)

-----------------------------------------------------------------------------
(* "Each pairing's end, reported once" (lan_rendezvous.hpp): the table     *)
(* never reports two ends of one beginning, a partner and then a timeout   *)
(* among them.                                                             *)
ReportedOnce == \A mc \in Sides : outcomes[mc[1]][mc[2]] <= 1

(* Both sides have begun c once at most, and their games wait for its end. *)
Alone(c) == \A m \in Pair[c] : tries[m][c] <= 1 /\ <<m, c>> \notin gaveUp

Knows(m, c) ==
  \/ table[m][c] # NoPairing /\ table[m][c].found
  \/ answer[m][c] = "paired"
  \/ \E i \in DOMAIN ended[m] : ended[m][i] = [cookie |-> c, result |-> "paired"]

(* A side that stops before its time is up leaves no partner behind: the   *)
(* other side has found it, however messages were lost or overtaken.       *)
StopsWhenKnown ==
  [][\A mc \in Sides : LET m == mc[1] c == mc[2] IN
       /\ table[m][c] # NoPairing /\ table[m][c].left > 0
       /\ table'[m][c] = NoPairing
       /\ Alone(c)'
       => Knows(Partner(m, c), c)]_vars

(* When both sides of a pair begin within Slack of each other and miss no  *)
(* more than Losses between them, neither is told that nobody answered:    *)
(* the last message of an exchange does not have to arrive.                *)
PairsDespiteLosses ==
  \A c \in Cookies :
    /\ Alone(c) /\ gap[c] <= Slack /\ misses <= Losses
    /\ \A m \in Pair[c] : tries[m][c] = 1
    => \A m \in Pair[c] : answer[m][c] # "deadbeat"

(* A game that began a pairing is told its end (NatNegotiation::poll and   *)
(* complete), unless it cancels the pairing or, the one way for a          *)
(* beginning to go unanswered, no guest memory is left for the answer.     *)
HasHeard(m, c)    == answer[m][c] # "none" /\ <<m, c>> \notin unheard
OutOfMemory(m, c) == <<m, c>> \in unheard
EveryBeginEnds ==
  \A mc \in Sides : LET m == mc[1] c == mc[2] IN
    c \in game[m] /\ answer[m][c] = "none" ~> HasHeard(m, c) \/ OutOfMemory(m, c)

(* "The game gave up on `cookie': nothing more is sent or reported for it" *)
(* (lan_rendezvous.hpp): a cancelled pairing is not answered.              *)
NothingAfterCancel ==
  [][\A mc \in Sides : LET m == mc[1] c == mc[2] IN
       answer[m][c] = "cancelled" => answer'[m][c] \in {"cancelled", "none"}]_vars
=============================================================================
