---------------------------- MODULE LanSessions -----------------------------
(***************************************************************************)
(* Dropping in to a game on the LAN: src/src/native/lan_coordinator.cpp    *)
(* with the scripts of src/src/native/lan_session_director.cpp, what a     *)
(* machine announces and hears (src/src/net/lan_presence.cpp and           *)
(* lan_presence_policy.cpp).                                               *)
(*                                                                         *)
(* A host that is asked to takes its game back through the lobby; whoever  *)
(* asked, and whoever lost that host, walks in once the lobby is heard of. *)
(* Announcements and requests are lost, late or delivered again.  Every    *)
(* time limit may end at any time.                                         *)
(*                                                                         *)
(* The title's front end and its network session are external: `place',    *)
(* `link' and `members' say what the code above reads of them, and a       *)
(* script's key presses have an effect some time after.                    *)
(*                                                                         *)
(* Name_Mistake is Name with that mistake; no specification uses it.       *)
(***************************************************************************)
EXTENDS Naturals, FiniteSets

CONSTANTS
  Nodes,         \* the machines
  Campaigners,   \* those that start a campaign alone
  NoOne,         \* no machine
  Seats,         \* kMaxPlayers
  MaxTurns       \* bound on what players do and links break

ASSUME NodesAreFinite == IsFiniteSet(Nodes)
ASSUME CampaignersAreNodes == Campaigners \subseteq Nodes
ASSUME NoOneIsNew == NoOne \notin Nodes
ASSUME SeatsForTwo == Seats \in Nat \ {0, 1}

ASSUME TurnsAreNat == MaxTurns \in Nat

VARIABLES
  place,     \* external: "main", "level", "host" (menu), "join" (menu) or,
             \* of a player that is Ready in it, "ready"
  link,      \* external: the host of the session that a machine is in
  members,   \* external: members[h], the players of h's session
  news,      \* news[p]: the last announcement of p
  peers,     \* peers[m][p]: what m's PeerTable holds of p
  asked,     \* asked[h]: machines whose JoinRequest is on its way to h
  co,        \* co[m]: the fields of the Coordinator
  job,       \* job[m]: those of the SessionDirector
  quit,      \* history: the player of m chose to leave, and nothing since
  turns,     \* counts to MaxTurns
  due        \* the machine that has just polled with its time limits past

title       == <<place, link, members>>
sessionVars == <<title, news, peers, asked, co, job, quit, turns, due>>

Turn == turns < MaxTurns /\ turns' = turns + 1

Silence == [phase |-> "none", full |-> FALSE]
Idle == [requested |-> "no", role |-> "Host", stage |-> "none", expected |-> 0,
         pressed |-> FALSE]

Players(m) ==
  IF link[m] = NoOne THEN 0 ELSE Cardinality(members[link[m]] \cup {m})

Directing(j) == j.stage # "none"
Hosting(j) ==
  IF j.requested # "no" THEN j.requested = "Host" ELSE Directing(j) /\ j.role = "Host"
Larger(a, b) == IF a > b THEN a ELSE b

-----------------------------------------------------------------------------
(* SessionDirector::request and begin.                                     *)
Accepts(j) == j.requested = "no" /\ ~Directing(j)

Requested(j, role, expected) ==
  [Idle EXCEPT !.requested = role, !.expected = Larger(expected, 2)]

(* The stage after one whose menu is on the screen, "none" at the end.     *)
Following(j, menu) ==
  CASE j.stage = "leave" /\ menu = "main" -> "menus"
    [] j.stage = "menus" /\ j.role = "Host" /\ menu = "host" -> "lobby"
    [] j.stage = "menus" /\ j.role = "Join" /\ menu = "join" -> "ready"
    [] j.stage = "ready" /\ menu = "ready" -> "wait"
    [] j.stage \in {"lobby", "wait"} /\ menu = "level" -> "none"
    [] OTHER -> j.stage

(* The menu that a stage cannot go on without has closed.                  *)
Fails(j, menu) ==
  \/ j.stage = "lobby" /\ menu \notin {"host", "level"}
  \/ j.stage = "ready" /\ menu \notin {"join", "ready"}
  \/ j.stage = "wait" /\ menu \notin {"join", "ready", "level"}

WaitsOnPlayers(j) == j.stage \in {"lobby", "wait"}

(* start_when_ready: every player Ready, and all that are expected, or a   *)
(* while gone by.                                                          *)
AllReady(h) ==
  /\ Cardinality(members[h]) >= 2
  /\ \A c \in members[h] \ {h} : place[c] = "ready"

MayStart_Strict(h, j, late) == AllReady(h) /\ Cardinality(members[h]) >= j.expected
MayStart(h, j, late) ==
  AllReady(h) /\ (Cardinality(members[h]) >= j.expected \/ late)

Begun(j) ==
  IF j.requested = "no" THEN j
  ELSE [j EXCEPT !.requested = "no", !.role = j.requested, !.stage = "leave",
                 !.pressed = FALSE]

(* SessionDirector::poll; `late' when the time of the stage has run out.   *)
Directed(m, late) ==
  LET j == Begun(job[m])
      n == [j EXCEPT !.stage = Following(j, place[m])]
      same == n = job[m]
  IN
  IF Fails(n, place[m]) THEN Idle
  ELSE IF n.stage = "lobby" /\ MayStart(m, n, same /\ late)
  THEN [n EXCEPT !.pressed = TRUE]
  ELSE IF same /\ late /\ ~WaitsOnPlayers(j) THEN Idle
  ELSE IF n.stage = "none" THEN Idle
  ELSE n

-----------------------------------------------------------------------------
(* read_facts: which lobby menu this machine last passed through.          *)
RoleRead(m) ==
  CASE place[m] = "host" -> "Host"
    [] place[m] \in {"join", "ready"} -> "Client"
    [] OTHER -> co[m].role

(* should_follow_host.                                                     *)
ShouldFollow_Anyway(m, k, j) ==
  place[m] = "level" /\ k.role = "Client" /\ k.joined # NoOne
  /\ k.pending = NoOne /\ ~Directing(j)
ShouldFollow(m, k, j) == ShouldFollow_Anyway(m, k, j) /\ ~k.left

(* follow_lost_host: the session has emptied.                              *)
Followed(m, j) ==
  LET now == [co[m] EXCEPT !.role = RoleRead(m)]
      k == IF Hosting(j) THEN now ELSE [now EXCEPT !.requesters = {}, !.present = 1]
  IN
  IF Players(m) # 0 THEN k
  ELSE LET forgot == [k EXCEPT !.role = "None", !.left = FALSE] IN
       IF ShouldFollow(m, k, j)
       THEN [forgot EXCEPT !.pending = k.joined, !.asks = FALSE]
       ELSE forgot

(* local_announce.                                                         *)
Busy_NotWaiting(k, j) == Directing(j)
Busy(k, j) == Directing(j) \/ k.pending # NoOne

Local(m, k, j) ==
  LET Of(phase) == [phase |-> phase, full |-> Players(m) >= Seats] IN
  IF j.stage = "lobby" THEN Of("Lobby")
  ELSE IF Busy(k, j) \/ place[m] # "level" THEN Silence
  ELSE IF Players(m) = 0 THEN Of("Playing")
  ELSE IF RoleRead(m) = "Client" THEN Silence
  ELSE Of("NetworkGame")

(* answer_join_requests: the coordinator and the director after it.        *)
Asked(k, j, got, local, players) ==
  IF got = {} THEN [co |-> k, job |-> j]
  ELSE IF Hosting(j)
  THEN LET all == k.requesters \cup got IN
       [co |-> [k EXCEPT !.requesters = all],
        job |-> [j EXCEPT !.expected = Larger(@, k.present + Cardinality(all))]]
  ELSE IF local = Silence \/ ~Accepts(j) THEN [co |-> k, job |-> j]
  ELSE LET present == IF local.phase = "NetworkGame" THEN players ELSE 1 IN
       [co |-> [k EXCEPT !.requesters = got, !.present = present],
        job |-> Requested(j, "Host", present + Cardinality(got))]

(* follow_pending_join.                                                    *)
Abandoned_WhenAsking(k) == k.asks
Abandoned(k) == TRUE

Joined(k, j, known, giveUp) ==
  IF k.pending = NoOne THEN [co |-> k, job |-> j]
  ELSE IF known[k.pending].phase = "Lobby"
  THEN IF Accepts(j)
       THEN [co |-> [k EXCEPT !.joined = k.pending, !.pending = NoOne],
             job |-> Requested(j, "Join", 0)]
       ELSE [co |-> k, job |-> j]
  ELSE IF giveUp /\ Abandoned(k)
  THEN [co |-> [k EXCEPT !.pending = NoOne], job |-> j]
  ELSE [co |-> k, job |-> j]

(* Coordinator::poll.  What it receives is newer than what it knew, or     *)
(* repeats a request; `gone' has been silent for too long.                 *)
CoordinatorPoll(m, late, giveUp) ==
  \E heard \in SUBSET {p \in Nodes \ {m} : news[p] \notin {Silence, peers[m][p]}} :
  \E gone \in SUBSET {p \in Nodes \ heard : peers[m][p] # Silence} :
  \E got \in SUBSET asked[m], rest \in SUBSET asked[m] :
    LET j1 == Directed(m, late)
        k1 == Followed(m, j1)
        local == Local(m, k1, j1)
        known == [p \in Nodes |->
                    IF p \in gone THEN Silence
                    ELSE IF p \in heard THEN news[p]
                    ELSE peers[m][p]]
        s1 == Asked(k1, j1, got, local, Players(m))
        s2 == Joined(s1.co, s1.job, known, giveUp)
        asks == s2.co.pending # NoOne /\ s2.co.asks
    IN
    /\ peers' = [peers EXCEPT ![m] = known]
    /\ news' = IF local = Silence THEN news ELSE [news EXCEPT ![m] = local]
    /\ asked' = [h \in Nodes |->
                   IF h = m THEN rest
                   ELSE IF asks /\ h = s2.co.pending THEN asked[h] \cup {m}
                   ELSE asked[h]]
    /\ co' = [co EXCEPT ![m] = s2.co]
    /\ job' = [job EXCEPT ![m] = s2.job]
    /\ UNCHANGED <<title, quit, turns>>

-----------------------------------------------------------------------------
(* The player of m.                                                        *)
StartCampaign(m) ==
  /\ m \in Campaigners /\ place[m] = "main" /\ ~Directing(job[m])
  /\ place' = [place EXCEPT ![m] = "level"]
  /\ quit' = [quit EXCEPT ![m] = FALSE]
  /\ Turn
  /\ UNCHANGED <<link, members, news, peers, asked, co, job>>

(* join_chosen: the Join row of the main menu.                             *)
JoinChosen(m) ==
  \E p \in Nodes :
    /\ place[m] = "main"
    /\ peers[m][p] # Silence /\ ~peers[m][p].full
    /\ co' = [co EXCEPT ![m].pending = p, ![m].asks = TRUE]
    /\ quit' = [quit EXCEPT ![m] = FALSE]
    /\ Turn
    /\ UNCHANGED <<title, news, peers, asked, job>>

(* m's session ends, for it; a host's, for everyone who notices.           *)
LeavesSession(m) ==
  /\ link' = [link EXCEPT ![m] = NoOne]
  /\ members' = [h \in Nodes |-> IF h = m THEN {} ELSE members[h] \ {m}]

(* The quit dialog's Yes, with Coordinator::left_by_choice before it.      *)
Quit(m) ==
  /\ place[m] = "level" /\ link[m] # NoOne
  /\ LeavesSession(m)
  /\ co' = [co EXCEPT ![m].left = TRUE]
  /\ quit' = [quit EXCEPT ![m] = TRUE]
  /\ Turn
  /\ UNCHANGED <<place, news, peers, asked, job>>

ClosesLobby(m) ==
  /\ place[m] = "host"
  /\ place' = [place EXCEPT ![m] = "main"]
  /\ LeavesSession(m)
  /\ Turn
  /\ UNCHANGED <<news, peers, asked, co, job, quit>>

-----------------------------------------------------------------------------
(* The title, external.  A level without a session is left for the main    *)
(* menu; a script's command ends the session first.                        *)
Exits(m) ==
  /\ job[m].stage = "leave" /\ place[m] # "main" /\ link[m] # NoOne
  /\ LeavesSession(m)
  /\ place' = [place EXCEPT ![m] = IF @ = "level" THEN "level" ELSE "main"]
  /\ UNCHANGED <<news, peers, asked, co, job, quit, turns>>

ToMain(m) ==
  /\ place[m] = "level" /\ link[m] = NoOne
  /\ place' = [place EXCEPT ![m] = "main"]
  /\ UNCHANGED <<link, members, news, peers, asked, co, job, quit, turns>>

(* A client loses its host, or the link to it.                             *)
Dropped(m) ==
  /\ link[m] \notin {NoOne, m}
  /\ LeavesSession(m)
  /\ place' = [place EXCEPT ![m] = IF @ = "level" THEN "level" ELSE "main"]
  /\ Turn
  /\ UNCHANGED <<news, peers, asked, co, job, quit>>

(* Post Game.                                                              *)
Posts(m) ==
  /\ job[m].stage = "menus" /\ job[m].role = "Host" /\ place[m] = "main"
  /\ place' = [place EXCEPT ![m] = "host"]
  /\ link' = [link EXCEPT ![m] = m]
  /\ members' = [members EXCEPT ![m] = {m}]
  /\ quit' = [quit EXCEPT ![m] = FALSE]
  /\ UNCHANGED <<news, peers, asked, co, job, turns>>

(* Join Game, of a game that the browser lists.                            *)
Enters(m, h) ==
  /\ job[m].stage = "menus" /\ job[m].role = "Join" /\ place[m] = "main"
  /\ place[h] = "host" /\ Cardinality(members[h]) < Seats
  /\ place' = [place EXCEPT ![m] = "join"]
  /\ link' = [link EXCEPT ![m] = h]
  /\ members' = [members EXCEPT ![h] = @ \cup {m}]
  /\ quit' = [quit EXCEPT ![m] = FALSE]
  /\ UNCHANGED <<news, peers, asked, co, job, turns>>

BecomesReady(m) ==
  /\ job[m].stage = "ready" /\ place[m] = "join"
  /\ place' = [place EXCEPT ![m] = "ready"]
  /\ UNCHANGED <<link, members, news, peers, asked, co, job, quit, turns>>

(* Start Game is taken: host and players load the level.                   *)
Starts(h) ==
  /\ job[h].stage = "lobby" /\ job[h].pressed /\ place[h] = "host"
  /\ AllReady(h)
  /\ place' = [m \in Nodes |-> IF m \in members[h] THEN "level" ELSE place[m]]
  /\ UNCHANGED <<link, members, news, peers, asked, co, job, quit, turns>>

-----------------------------------------------------------------------------
SessionsInit ==
  /\ place = [m \in Nodes |-> "main"]
  /\ link = [m \in Nodes |-> NoOne] /\ members = [m \in Nodes |-> {}]
  /\ news = [m \in Nodes |-> Silence]
  /\ peers = [m \in Nodes |-> [p \in Nodes |-> Silence]]
  /\ asked = [m \in Nodes |-> {}]
  /\ co = [m \in Nodes |->
             [role |-> "None", left |-> FALSE, pending |-> NoOne, asks |-> FALSE,
              joined |-> NoOne, requesters |-> {}, present |-> 1]]
  /\ job = [m \in Nodes |-> Idle]
  /\ quit = [m \in Nodes |-> FALSE] /\ turns = 0 /\ due = NoOne

Title(m) ==
  \/ Exits(m) \/ ToMain(m) \/ Posts(m) \/ BecomesReady(m)
  \/ Starts(m) \/ \E h \in Nodes : Enters(m, h)

Player(m) ==
  StartCampaign(m) \/ JoinChosen(m) \/ Quit(m) \/ ClosesLobby(m) \/ Dropped(m)

SessionsNext ==
  \E m \in Nodes :
    \/ \E late \in {FALSE, Directing(job[m])},
          giveUp \in {FALSE, co[m].pending # NoOne} :
         /\ CoordinatorPoll(m, late, giveUp)
         /\ due' = IF late = Directing(job[m]) /\ giveUp = (co[m].pending # NoOne)
                   THEN m ELSE NoOne
    \/ (Title(m) \/ Player(m)) /\ due' = NoOne

SessionsSpec == SessionsInit /\ [][SessionsNext]_sessionVars

(* Every machine goes on polling, and its time limits end; the title does  *)
(* what a script's keys ask of it.                                         *)
Fairness ==
  \A m \in Nodes :
    /\ []<>(due = m)
    /\ WF_sessionVars(Starts(m) /\ due' = NoOne)

SessionsFairSpec == SessionsSpec /\ Fairness

-----------------------------------------------------------------------------
(* "A player who chose to quit stays at the main menu"                     *)
(* (lan_presence_policy.hpp): no lost session makes that machine wait for  *)
(* a host until its player does something else, whatever it had joined.    *)
ChoiceIsFinal ==
  [][\A m \in Nodes :
       quit[m] /\ quit'[m] /\ co[m].pending = NoOne => co'[m].pending = NoOne]_sessionVars

(* A machine that waits for another's lobby is not asked away to open its  *)
(* own: machines that lost the same host do not re-form each other.        *)
WaitersDoNotHost ==
  [][\A m \in Nodes :
       job'[m].requested = "Host" /\ job[m].requested # "Host"
       => co[m].pending = NoOne]_sessionVars

(* A lobby whose players are all Ready starts, though some of those it     *)
(* waits for never come, or stops being such a lobby.                      *)
LobbyStarts ==
  \A m \in Nodes :
    LET Waiting == job[m].stage = "lobby" /\ place[m] = "host" /\ AllReady(m)
    IN  Waiting ~> ~Waiting

(* A machine does not wait forever for a host, asked or lost, that opens   *)
(* no lobby: it joins, gives up, or is at another script.                  *)
PendingEnds ==
  \A m \in Nodes :
    co[m].pending # NoOne ~> co[m].pending = NoOne \/ ~Accepts(job[m])
=============================================================================
