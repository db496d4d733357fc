------------------------------- MODULE Server -------------------------------
(***************************************************************************)
(* The game server (server.cpp): the pool of connections, the players they *)
(* added, the one game, and the timer that drives it.  Everything runs on  *)
(* one io_service, so a handler is one step; what interleaves is the order *)
(* of handlers: messages of the clients, ends of connections, expiries of  *)
(* the timer, and the signal.                                              *)
(*                                                                         *)
(* The game itself is seen through what Server::tick does with its result: *)
(* play goes on, the level starts again, or the game is over (Game.tla has *)
(* the rules).  Of a player's turn queue (Steering.tla) only its length    *)
(* and the axis of the last turn taken are kept: whether a turn is         *)
(* accepted depends on its axis alone.                                     *)
(***************************************************************************)
EXTENDS Integers, Sequences, FiniteSets, Functions

CONSTANTS
  Names,        \* player names
  Countdown,    \* options_.countdown
  Starts,       \* snakes the levels of the pack have starts for
  Buckets,      \* buckets of the hashed index of players_, 53 in the build
  MaxClients,   \* bound: connections accepted in a behaviour
  MaxAdds,      \* bound: addPlayer messages in a behaviour
  MaxTurns      \* bound: turns waiting for one player

ASSUME ServerAssumption == /\ Countdown \in Nat
                           /\ Starts \in Nat
                           /\ Buckets \in Nat \ {0}
                           /\ MaxClients \in Nat
                           /\ MaxAdds \in Nat
                           /\ MaxTurns \in Nat

VARIABLES
  listening,     \* the acceptor is open
  conns,         \* connectionPool_: client id -> ready()
  nextClientId,
  players,       \* players_: player id -> RemotePlayer
  nextPlayerId,
  game,          \* game_ is not null
  scorer,        \* scorer_: the ids it has scores for
  pausing,
  paused,
  timer,         \* the countdown bound to the pending wait, or Idle
  queued,        \* completed waits whose handlers have yet to run, in order
  fault          \* what stopped the process, "none" while it runs

vars == << listening, conns, nextClientId, players, nextPlayerId, game, scorer,
           pausing, paused, timer, queued, fault >>

Idle == -1

ClientId == 0 .. MaxClients - 1
PlayerId == 0 .. MaxAdds - 1
Axis == {"vertical", "horizontal"}

\* A RemotePlayer; nominal is the axis of nominalDirection_, "none" for max.
PlayerType == [name : Names, client : ClientId,
               nominal : Axis \cup {"none"}, turns : 0 .. MaxTurns]

Fault == {"none",
          "no game",        \* tick dereferences game_ and it is null
          "score twice",    \* the assertion in ScoreTracker::add
          "no score",       \* the assertion in ScoreTracker::getScore
          "moves unsorted", \* the assertion in Level::tick
          "too few starts"} \* the exception of Level::initSnakes

\* The functions with a part of K for their domain.
IsPartial(f, K, V) == DOMAIN f \subseteq K /\ f \in [DOMAIN f -> V]

Put(f, k, v) == [x \in DOMAIN f \cup {k} |-> IF x = k THEN v ELSE f[x]]

Init == /\ listening = TRUE
        /\ conns = [c \in {} |-> FALSE]
        /\ nextClientId = 0
        /\ players = [p \in {} |-> 0]
        /\ nextPlayerId = 0
        /\ game = FALSE
        /\ scorer = {}
        /\ pausing = FALSE
        /\ paused = FALSE
        /\ timer = Idle
        /\ queued = << >>
        /\ fault = "none"

\* A handler of the process runs only while the process does.
Up == fault = "none"

\* RemotePlayer::reset for every player.
AllReset(ps) ==
  [p \in DOMAIN ps |-> [ps[p] EXCEPT !.nominal = "none", !.turns = 0]]

\* RemotePlayer::dequeue for every player.
AllDequeued(ps) ==
  [p \in DOMAIN ps |->
     [ps[p] EXCEPT !.turns = IF ps[p].turns = 0 THEN 0 ELSE ps[p].turns - 1]]

Movers(ps) == {p \in DOMAIN ps : ps[p].turns > 0}

\* The moves of a tick are listed in the order of the hashed index, bucket by
\* bucket, and Level::tick asserts that they come sorted by player.
MovesSorted(ps) ==
  \A p, q \in Movers(ps) : p < q => p % Buckets <= q % Buckets

\* cancel() and expires_from_now() complete the pending wait with an error.  A
\* wait that has completed already is out of their reach.
Cancelled(q) == IF timer = Idle THEN q
                                ELSE Append(q, [countdown |-> timer, error |-> TRUE])

-----------------------------------------------------------------------------
(* Server::tick.  The operators take the state the handler has built up so *)
(* far: cs connections, ps players, sc scores, q completed waits.          *)

Crash(what) == /\ fault' = what
               /\ UNCHANGED << conns, players, game, scorer, pausing, paused,
                               timer, queued >>

\* A tick that does not end the game.
GameGoesOn(cs, sc) == /\ conns' = cs /\ game' = TRUE /\ scorer' = sc
                      /\ UNCHANGED fault

\* Mutant of GameEnd: readiness is kept for the next game.
GameEnd_KeepsReady(cs, ps, sc) ==
  /\ DOMAIN ps \subseteq sc
  /\ conns' = cs /\ players' = ps /\ game' = FALSE /\ scorer' = {}
  /\ UNCHANGED fault

\* Server::gameEnd.
GameEnd(cs, ps, sc) ==
  IF DOMAIN ps \subseteq sc
  THEN /\ conns' = [c \in DOMAIN cs |-> FALSE]
       /\ players' = ps
       /\ game' = FALSE
       /\ scorer' = {}
       /\ UNCHANGED fault
  ELSE /\ fault' = "no score"
       /\ conns' = cs /\ players' = ps /\ game' = TRUE /\ scorer' = sc

\* Mutant of CountdownTick: the countdown is not counted down.
CountdownTick_Stays(n, cs, ps, sc) ==
  /\ players' = AllReset(ps)
  /\ timer' = n
  /\ GameGoesOn(cs, sc)

\* The part of tick behind expires_from_now, for a countdown still to be shown.
CountdownTick(n, cs, ps, sc) ==
  /\ players' = AllReset(ps)
  /\ timer' = n - 1
  /\ GameGoesOn(cs, sc)

\* Mutant of PlayTick: a reset level returns before the next wait is started.
PlayTick_Forgets(cs, ps, sc) ==
  \/ /\ players' = AllReset(ps)
     /\ timer' = Idle
     /\ GameGoesOn(cs, sc)
  \/ /\ GameEnd(cs, AllDequeued(ps), sc)
     /\ timer' = Idle

\* The same for a tick of play, by its result.
PlayTick(cs, ps, sc) ==
  \/ \* none, number
     /\ players' = AllDequeued(ps)
     /\ timer' = 0
     /\ GameGoesOn(cs, sc)
  \/ \* advanceLevel, dead: the level is reset
     /\ players' = AllReset(ps)
     /\ timer' = Countdown
     /\ GameGoesOn(cs, sc)
  \/ \* gameOver
     /\ GameEnd(cs, AllDequeued(ps), sc)
     /\ timer' = Idle

\* tick(countdown) with no error; on is game_, stopped is paused_.
Tick(countdown, on, stopped, cs, ps, sc, q) ==
  LET n == IF pausing THEN 0 ELSE countdown
  IN  IF pausing /\ countdown = 0
      THEN /\ pausing' = FALSE
           /\ paused' = TRUE
           /\ conns' = cs /\ players' = ps /\ game' = on /\ scorer' = sc
           /\ queued' = q
           /\ UNCHANGED << timer, fault >>
      ELSE IF ~on THEN Crash("no game")
      ELSE IF n = 0 /\ ~MovesSorted(ps) THEN Crash("moves unsorted")
      ELSE /\ pausing' = FALSE
           /\ paused' = stopped
           /\ queued' = Cancelled(q)
           /\ IF n > 0 THEN CountdownTick(n, cs, ps, sc)
                       ELSE PlayTick(cs, ps, sc)

\* Mutant of CanStart: a game starts with nobody to play it.
CanStart_Empty(cs, ps) == /\ ~game
                          /\ DOMAIN cs # {}
                          /\ \A c \in DOMAIN cs : cs[c]

\* Server::checkForGameStart.
CanStart(cs, ps) == /\ ~game
                    /\ DOMAIN cs # {}
                    /\ DOMAIN ps # {}
                    /\ \A c \in DOMAIN cs : cs[c]

CheckForGameStart(cs, ps) ==
  IF ~CanStart(cs, ps)
  THEN /\ conns' = cs
       /\ players' = ps
       /\ UNCHANGED << game, scorer, pausing, paused, timer, queued, fault >>
  ELSE IF DOMAIN ps \cap scorer # {} THEN Crash("score twice")
  ELSE IF Cardinality(DOMAIN ps) > Starts THEN Crash("too few starts")
  ELSE Tick(Countdown, TRUE, paused, cs, AllReset(ps), scorer \cup DOMAIN ps,
            queued)

-----------------------------------------------------------------------------
(* The handlers. *)

\* Server::addConnection.  With a game on, the connection is closed and nothing
\* is changed.  The first read of a connection starts here, behind the handlers
\* that are queued already: it is as if the connection came after they have run.
AddConnection ==
  /\ Up /\ listening /\ ~game
  /\ nextClientId < MaxClients
  /\ queued = << >>
  /\ conns' = Put(conns, nextClientId, FALSE)
  /\ nextClientId' = nextClientId + 1
  /\ UNCHANGED << listening, players, nextPlayerId, game, scorer, pausing,
                  paused, timer, queued, fault >>

\* addPlayer: the id is used up even when the name is taken.
AddPlayer(c, name) ==
  /\ Up /\ nextPlayerId < MaxAdds
  /\ nextPlayerId' = nextPlayerId + 1
  /\ LET fresh == [name |-> name, client |-> c, nominal |-> "none", turns |-> 0]
         taken == \E p \in DOMAIN players : players[p].name = name
     IN  CheckForGameStart(conns, IF taken THEN players
                                  ELSE Put(players, nextPlayerId, fresh))
  /\ UNCHANGED << listening, nextClientId >>

\* Mutant of SetReadiness: it does not check for the start of a game.
SetReadiness_NoCheck(c, ready) ==
  /\ Up
  /\ conns' = [conns EXCEPT ![c] = ready]
  /\ UNCHANGED << listening, nextClientId, players, nextPlayerId, game, scorer,
                  pausing, paused, timer, queued, fault >>

SetReadiness(c, ready) ==
  /\ Up
  /\ CheckForGameStart([conns EXCEPT ![c] = ready], players)
  /\ UNCHANGED << listening, nextClientId, nextPlayerId >>

\* A command is obeyed if its player is one of the sender's.
Owns(c, p) == players[p].client = c

\* RemotePlayer::queueTurn; a turn along the nominal axis is dropped.
QueueTurn(c, p, axis) ==
  /\ Up /\ Owns(c, p)
  /\ axis # players[p].nominal
  /\ players[p].turns < MaxTurns
  /\ players' = [players EXCEPT ![p].nominal = axis, ![p].turns = @ + 1]
  /\ UNCHANGED << listening, conns, nextClientId, nextPlayerId, game, scorer,
                  pausing, paused, timer, queued, fault >>

\* Command::pause, Server::togglePaused.
TogglePaused(c, p) ==
  /\ Up /\ Owns(c, p)
  /\ IF paused
     THEN Tick(0, game, FALSE, conns, AllReset(players), scorer, queued)
     ELSE /\ pausing' = TRUE
          /\ UNCHANGED << conns, players, game, scorer, paused, timer, queued,
                          fault >>
  /\ UNCHANGED << listening, nextClientId, nextPlayerId >>

\* Mutant of DeleteConnection: the players stay.
DeleteConnection_KeepsPlayers(c) ==
  /\ Up /\ DOMAIN conns # {c}
  /\ conns' = Restrict(conns, DOMAIN conns \ {c})
  /\ UNCHANGED << listening, nextClientId, players, nextPlayerId, game, scorer,
                  pausing, paused, timer, queued, fault >>

\* Server::deleteConnection, when a read fails.
DeleteConnection(c) ==
  LET stay == DOMAIN conns \ {c}
      abort == stay = {} /\ game
  IN  /\ Up
      /\ conns' = Restrict(conns, stay)
      /\ players' = Restrict(players,
                             {p \in DOMAIN players : players[p].client # c})
      /\ IF abort
         THEN /\ scorer' = {}
              /\ game' = FALSE
              /\ queued' = Cancelled(queued)
              /\ timer' = Idle
         ELSE UNCHANGED << game, scorer, timer, queued >>
      /\ UNCHANGED << listening, nextClientId, nextPlayerId, pausing, paused,
                      fault >>

\* The wait completes: its handler is queued behind those that are.
TimerExpires ==
  /\ Up /\ timer # Idle
  /\ queued' = Append(queued, [countdown |-> timer, error |-> FALSE])
  /\ timer' = Idle
  /\ UNCHANGED << listening, conns, nextClientId, players, nextPlayerId, game,
                  scorer, pausing, paused, fault >>

\* tick as the handler of a wait that was cancelled, and of one that was not.
Interrupted ==
  /\ Up /\ queued # << >> /\ Head(queued).error
  /\ queued' = Tail(queued)
  /\ UNCHANGED << listening, conns, nextClientId, players, nextPlayerId, game,
                  scorer, pausing, paused, timer, fault >>

TimerTick ==
  /\ Up /\ queued # << >> /\ ~Head(queued).error
  /\ Tick(Head(queued).countdown, game, paused, conns, players, scorer,
          Tail(queued))
  /\ UNCHANGED << listening, nextClientId, nextPlayerId >>

\* Server::shutdown, posted by the signal handler.
Shutdown ==
  /\ Up /\ listening
  /\ listening' = FALSE
  /\ queued' = Cancelled(queued)
  /\ timer' = Idle
  /\ conns' = Restrict(conns, {})
  /\ UNCHANGED << nextClientId, players, nextPlayerId, game, scorer, pausing,
                  paused, fault >>

Messages ==
  \E c \in DOMAIN conns :
    \/ \E name \in Names : AddPlayer(c, name)
    \/ \E ready \in BOOLEAN : SetReadiness(c, ready)
    \/ \E p \in DOMAIN players : \/ \E axis \in Axis : QueueTurn(c, p, axis)
                                 \/ TogglePaused(c, p)
    \/ DeleteConnection(c)

Next == AddConnection \/ Messages \/ TimerExpires \/ Interrupted \/ TimerTick
          \/ Shutdown

Spec == Init /\ [][Next]_vars

\* The operating system lets waits complete and the io_service runs handlers.
Fairness == WF_vars(TimerExpires) /\ WF_vars(Interrupted \/ TimerTick)

FairSpec == Spec /\ Fairness

\* What the clients see of all this.
Roster(ps) ==
  [p \in DOMAIN ps |-> [name |-> ps[p].name, client |-> ps[p].client]]

Lobby == INSTANCE Match
           WITH up <- Up, open <- listening, players <- Roster(players)

-----------------------------------------------------------------------------
(* Properties. *)

Wait == [countdown : 0 .. Countdown, error : BOOLEAN]

TypeOK == /\ listening \in BOOLEAN
          /\ IsPartial(conns, ClientId, BOOLEAN)
          /\ nextClientId \in 0 .. MaxClients
          /\ IsPartial(players, PlayerId, PlayerType)
          /\ nextPlayerId \in 0 .. MaxAdds
          /\ game \in BOOLEAN
          /\ scorer \in SUBSET PlayerId
          /\ pausing \in BOOLEAN
          /\ paused \in BOOLEAN
          /\ timer \in (0 .. Countdown) \cup {Idle}
          /\ queued \in Seq(Wait)
          /\ fault \in Fault

\* A RemotePlayer holds a bare pointer to its Connection, and clientId() follows
\* it: no player outlives his connection, but for the end of the server.
PlayersConnected ==
  listening => \A p \in DOMAIN players : players[p].client \in DOMAIN conns

\* Between games nothing is left of the last one that the next would trip over
\* (ScoreTracker::add asserts that a player is new), and a game has somebody to
\* play to: addConnection turns everybody away while it lasts.
NothingLeftOver == /\ ~game => scorer = {}
                   /\ game /\ listening => DOMAIN conns # {}

ScoresFresh == fault # "score twice"

\* The players, the scores, the game and the pool never tell different stories,
\* whoever comes and goes in mid-game.
BooksBalance == PlayersConnected /\ NothingLeftOver /\ ScoresFresh

\* A wait that will tick the game when it completes, or has completed.
Ticking == \/ timer # Idle
           \/ \E i \in DOMAIN queued : ~queued[i].error

\* A game never stalls: unless it is paused something is going to tick it (the
\* waits are cancelled and started at five places).
NeverStalls == Up /\ game /\ listening => Ticking \/ paused

\* Nobody's consent outlives the game he gave it for: after a game nobody is
\* ready, so that the next one starts when everybody has said so again.
ConsentExpires ==
  [][ game /\ ~game' => \A c \in DOMAIN conns' : ~conns'[c] ]_vars

\* All are ready and somebody plays, and yet no game: only the departure of a
\* connection leaves the lobby like that (deleteConnection does not look whether
\* it was the last one the others were waiting for); nothing else does.
AllReady == DOMAIN conns # {} /\ \A c \in DOMAIN conns : conns[c]

WaitingForNobody == Up /\ ~game /\ DOMAIN players # {} /\ AllReady

StallsOnlyByDeparture ==
  [][ ~WaitingForNobody /\ WaitingForNobody'
        => \E c \in DOMAIN conns : c \notin DOMAIN conns' ]_vars

\* The server is the match of Match.tla, whatever its timer, its pauses and its
\* queue of completed waits are doing: until a fault, a game starts when and only
\* when a message leaves all ready, and ends with everybody unready or gone.
ServesMatch == Lobby!Spec

\* The countdown ends, however often players press keys, come and go: in play,
\* with the game, or because somebody pauses, which cuts it short with a tick of
\* play (that may reset the level and so start the next countdown).  It is out of
\* the question while two waits are under way and start each other's countdown
\* again: resuming with paused_ left over from another game starts a second one.
Doubled ==
  \E i \in DOMAIN queued :
    /\ ~queued[i].error
    /\ timer # Idle \/ \E j \in DOMAIN queued \ {i} : ~queued[j].error

CountingDown == game /\ \/ timer > 0
                        \/ \E i \in DOMAIN queued : /\ ~queued[i].error
                                                   /\ queued[i].countdown > 0

CountdownEnds ==
  []<>(~CountingDown \/ Doubled \/ ~Up) \/ []<><< pausing /\ ~pausing' >>_vars
=============================================================================
