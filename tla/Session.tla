------------------------------ MODULE Session ------------------------------
(***************************************************************************)
(* A client program (bin/gtk/ui) and the server: the program's state       *)
(* machine, its connection and the messages on their way.                  *)
(*                                                                         *)
(* The server is the match of Match.tla, which Server.tla implements; here *)
(* its steps also say what they send.  The other programs connected to it  *)
(* do whatever they like, whenever they like: of this program's            *)
(* connections only the present one has messages under way, and those that *)
(* broke are with the others until the server notices.                     *)
(*                                                                         *)
(* A connection delivers in order until it breaks, and what was on its way *)
(* then may be lost: the program may notice with messages unread.  Left    *)
(* out are the messages that change nothing kept here: updateReadiness,    *)
(* countdown, newNumber and the commands.                                  *)
(***************************************************************************)
EXTENDS Naturals, Sequences, FiniteSets, Functions, SequencesExt

CONSTANTS
  Names,       \* names of players
  Mine,        \* the names in the program's player file
  Options,     \* what it may be started with: --players and --ready
  MaxClients,  \* bound: connections made in a behaviour
  MaxAdds,     \* bound: addPlayer messages handled in a behaviour
  MaxSent,     \* bound: messages on their way to the server
  MaxTold      \* bound: messages on their way from it when the game steps

ASSUME SessionAssumption == /\ Mine \subseteq Names
                            /\ IsFiniteSet(Mine)
                            /\ Options \subseteq [players : SUBSET Mine,
                                                  ready : BOOLEAN]
                            /\ MaxClients \in Nat /\ MaxAdds \in Nat
                            /\ MaxSent \in Nat /\ MaxTold \in Nat

VARIABLES
  up, open, conns, players, nextClientId, nextPlayerId, game,  \* the server
  cast,      \* the players of the game, in order
  toServer,  \* messages on their way to the server
  toClient,  \* messages on their way from it
  options,   \* what the program was started with
  ui,        \* the state of the machine's orthogonal region 0
  link,      \* its connection, or None: region 1
  broken,    \* the connection is over
  remote,    \* remotePlayers(), in order of arrival
  level,     \* level_ of Playing, << >> while it is null
  check,     \* the ready box
  missed,    \* history: ids the program was told of when it did not listen
  overtaken  \* history: the end of a game overtook its readiness

server == << up, open, conns, players, nextClientId, nextPlayerId, game, cast >>
client == << options, ui, link, broken, remote, level, check >>
history == << missed, overtaken >>
vars == << server, toServer, toClient, client, history >>

Match == INSTANCE Match

None == -1
Linked == link # None
Talking == Linked /\ ~broken

Init == /\ Match!Init
        /\ cast = << >> /\ toServer = << >> /\ toClient = << >>
        /\ options \in Options
        /\ ui = "configuring"
        /\ link = None
        /\ broken = FALSE
        /\ remote = << >>
        /\ level = << >>
        /\ check = options.ready
        /\ missed = {}
        /\ overtaken = FALSE

-----------------------------------------------------------------------------
(* Messages. *)

PlayerAdded(p, name, late) ==
  [type |-> "playerAdded", id |-> p, name |-> name, late |-> late]
GameStart == [type |-> "gameStart"]
LevelStart(ps) == [type |-> "levelStart", cast |-> ps]
Tick == [type |-> "tick"]
GameOver == [type |-> "gameOver"]
AddMessage(name) == [type |-> "addPlayer", name |-> name]
ReadyMessage(ready) == [type |-> "setReadiness", ready |-> ready]

\* What the program finds in toClient after sendToAll.
Told(ms) == toClient' = IF Talking THEN toClient \o ms ELSE toClient

MayTell == Len(toClient) <= MaxTold

\* Client::postMessage; without a connection there is nothing to send to.
Posted(ms) == toServer' = IF Talking THEN toServer \o ms ELSE toServer

MayPost == Len(toServer) < MaxSent

\* Players in the order they were added, which is the order of players_ by
\* sequence; by id, the order sendStateToConnection uses, it is the same while
\* the ids are below the number of buckets.
InOrder(ids) == [i \in 1 .. Cardinality(ids) |->
                   CHOOSE p \in ids : Cardinality({q \in ids : q <= p}) = i]

-----------------------------------------------------------------------------
(* The server. *)

\* What the start of a game is announced with, when a message leaves cs and ps.
Opening(cs, ps) ==
  IF ~Match!MayStart(cs, ps) THEN << >>
  ELSE << GameStart, LevelStart(InOrder(DOMAIN ps)) >>
         \o IF game' THEN << >> ELSE << Tick, GameOver >>

\* The end of a game finds readiness on its way, or the start of the game.
Overtakes == \/ \E i \in DOMAIN toServer : toServer[i].type = "setReadiness"
             \/ \E i \in DOMAIN toClient : toClient[i].type = "gameStart"

\* Mutant of Settled: the game starts before the news that led to it.
Settled_Early(news, cs, ps) ==
  /\ Match!MayStart(cs, ps) => MayTell
  /\ Told(Opening(cs, ps) \o news)
  /\ cast' = IF game' /\ ~game THEN InOrder(DOMAIN ps) ELSE cast
  /\ overtaken' = (overtaken \/ (Match!MayStart(cs, ps) /\ ~game'))
  /\ UNCHANGED << client, missed >>

\* A message left the server with cs and ps: news of it, then maybe a game.
Settled(news, cs, ps) ==
  /\ Match!MayStart(cs, ps) => MayTell
  /\ Told(news \o Opening(cs, ps))
  /\ cast' = IF game' /\ ~game THEN InOrder(DOMAIN ps) ELSE cast
  /\ overtaken' = (overtaken \/ (Match!MayStart(cs, ps) /\ ~game'))
  /\ UNCHANGED << client, missed >>

AddPlayer(c, name) ==
  /\ nextPlayerId < MaxAdds
  /\ Match!AddPlayer(c, name)
  /\ Settled(IF nextPlayerId \in DOMAIN players'
             THEN << PlayerAdded(nextPlayerId, name, game) >> ELSE << >>,
             conns, players')

SetReadiness(c, ready) ==
  /\ Match!SetReadiness(c, ready)
  /\ Settled(<< >>, [conns EXCEPT ![c] = ready], players)

\* A message of the program.
Handle ==
  /\ Talking /\ toServer # << >>
  /\ LET m == Head(toServer)
     IN  \/ m.type = "addPlayer" /\ AddPlayer(link, m.name)
         \/ m.type = "setReadiness" /\ SetReadiness(link, m.ready)
  /\ toServer' = Tail(toServer)

\* The others: they come, and their messages; the read of one fails.
OtherJoins ==
  /\ nextClientId < MaxClients
  /\ Match!Join
  /\ UNCHANGED << cast, toServer, toClient, client, history >>

Others == DOMAIN conns \ (IF Talking THEN {link} ELSE {})

OtherHandled(c) ==
  /\ \/ \E name \in Names : AddPlayer(c, name)
     \/ \E ready \in BOOLEAN : SetReadiness(c, ready)
  /\ UNCHANGED toServer

OtherLeaves(c) ==
  /\ Match!Leave(c)
  /\ UNCHANGED << cast, toServer, toClient, client, history >>

\* A tick of the game, which may start a level, the same again or the next.
PlayOn ==
  /\ up /\ game /\ MayTell
  /\ \E ms \in {<< Tick >>, << Tick, LevelStart(cast) >>} : Told(ms)
  /\ UNCHANGED << server, toServer, client, history >>

\* Mutant of EndGame: nobody is told.
EndGame_Silent ==
  /\ MayTell
  /\ Match!GameOver
  /\ Told(<< Tick >>)
  /\ overtaken' = (overtaken \/ Overtakes)
  /\ UNCHANGED << cast, toServer, client, missed >>

EndGame ==
  /\ MayTell
  /\ Match!GameOver
  /\ Told(<< Tick, GameOver >>)
  /\ overtaken' = (overtaken \/ Overtakes)
  /\ UNCHANGED << cast, toServer, client, missed >>

\* The connection is over.
Break ==
  /\ Talking
  /\ broken' = TRUE
  /\ toServer' = << >>
  /\ UNCHANGED << server, toClient, options, ui, link, remote, level, check,
                  history >>

\* Server::shutdown, or a fault of the server, and with it every connection.
Stop ==
  /\ \/ Match!Close
     \/ Match!Die /\ UNCHANGED << open, conns, players, nextClientId,
                                  nextPlayerId, game >>
  /\ broken' = Linked
  /\ toServer' = << >>
  /\ UNCHANGED << cast, toClient, options, ui, link, remote, level, check,
                  history >>

-----------------------------------------------------------------------------
(* The program: Configuring, Playing and HighScoreView beside NotConnected  *)
(* and Connected.                                                           *)

\* Server::sendStateToConnection
SentState == LET ids == InOrder(DOMAIN players)
             IN  [i \in DOMAIN ids |->
                    PlayerAdded(ids[i], players[ids[i]].name, FALSE)]

\* Configuring::Impl::connected: the players to be added automatically, and the
\* ready box.
SaidFirst == LET names == SetToSeq(options.players)
             IN  [i \in DOMAIN names |-> AddMessage(names[i])]
                   \o IF check THEN << ReadyMessage(TRUE) >> ELSE << >>

\* events::Connect: the server takes the connection, and both sides speak.
Connect ==
  /\ ui = "configuring" /\ ~Linked
  /\ nextClientId < MaxClients
  /\ Match!Join
  /\ link' = nextClientId
  /\ broken' = FALSE
  /\ overtaken' = FALSE
  /\ toClient' = SentState
  /\ toServer' = SaidFirst
  /\ UNCHANGED << cast, options, ui, remote, level, check, missed >>

\* With a game on the server closes the connection at once: Connected comes,
\* then Disconnect.
Refused ==
  /\ ui = "configuring" /\ ~Linked
  /\ up /\ open /\ game
  /\ remote' = << >>
  /\ UNCHANGED << server, toServer, toClient, options, ui, link, broken, level,
                  check, history >>

ReadinessChange ==
  /\ ui = "configuring" /\ MayPost
  /\ check' = ~check
  /\ Posted(<< ReadyMessage(check') >>)
  /\ UNCHANGED << server, toClient, options, ui, link, broken, remote, level,
                  history >>

AddPlayerClicked ==
  /\ ui = "configuring" /\ Talking /\ MayPost
  /\ \E name \in Mine : Posted(<< AddMessage(name) >>)
  /\ UNCHANGED << server, toClient, client, history >>

\* Mutant of Listed: the container takes everything.
Listed_Any(rs, m) == Append(rs, [id |-> m.id, name |-> m.name])

\* Configuring::Impl::playerAdded: the container takes no second entry with the
\* same id or name.
Listed(rs, m) ==
  IF \E i \in DOMAIN rs : rs[i].id = m.id \/ rs[i].name = m.name
  THEN rs ELSE Append(rs, [id |-> m.id, name |-> m.name])

Ids(rs) == [i \in DOMAIN rs |-> rs[i].id]

\* Mutant of Configure: the first tick does for the start of the game.
Configure_Late(m) ==
  /\ ui = "configuring"
  /\ \/ /\ m.type = "playerAdded"
        /\ remote' = Listed(remote, m)
        /\ UNCHANGED ui
     \/ m.type = "tick" /\ ui' = "playing" /\ UNCHANGED remote
     \/ m.type \notin {"playerAdded", "tick"} /\ UNCHANGED << ui, remote >>
  /\ UNCHANGED << level, missed >>

\* The reactions of Configuring.
Configure(m) ==
  /\ ui = "configuring"
  /\ \/ /\ m.type = "playerAdded"
        /\ remote' = Listed(remote, m)
        /\ UNCHANGED ui
     \/ m.type = "gameStart" /\ ui' = "playing" /\ UNCHANGED remote
     \/ m.type \notin {"playerAdded", "gameStart"} /\ UNCHANGED << ui, remote >>
  /\ UNCHANGED << level, missed >>

\* Playing::Impl::levelStart.
Level(theirs) == [mine |-> Ids(remote), theirs |-> theirs,
                  lastLifeGone |-> level # << >> /\ level.lastLifeGone]

\* Level::tick on the program's copy of the level.  If that has not the snakes of
\* the server's, somebody may die of what did not happen there, and again after
\* his last life, which the ScoreTracker asserts he does not.
Ticked ==
  \/ level = << >> /\ ui' = "levelless" /\ UNCHANGED level
  \/ level # << >> /\ UNCHANGED << ui, level >>
  \/ /\ level # << >> /\ level.mine # level.theirs
     /\ \/ /\ ~level.lastLifeGone
           /\ level' = [level EXCEPT !.lastLifeGone = TRUE]
           /\ UNCHANGED ui
        \/ level.lastLifeGone /\ ui' = "lifeless" /\ UNCHANGED level

\* The reactions of Playing.  A player added during a game is missed.
Play(m) ==
  /\ ui = "playing"
  /\ \/ m.type = "levelStart" /\ level' = Level(m.cast) /\ UNCHANGED << ui, missed >>
     \/ m.type = "tick" /\ Ticked /\ UNCHANGED missed
     \/ m.type = "gameOver" /\ ui' = "scores" /\ level' = << >> /\ UNCHANGED missed
     \/ /\ m.type = "playerAdded"
        /\ missed' = IF m.late THEN missed \cup {m.id} ELSE missed
        /\ UNCHANGED << ui, level >>
     \/ m.type = "gameStart" /\ UNCHANGED << ui, level, missed >>
  /\ UNCHANGED remote

\* HighScoreView reacts to no message.
ViewScores(m) ==
  /\ ui = "scores"
  /\ missed' = IF m.type = "playerAdded" THEN missed \cup {m.id} ELSE missed
  /\ UNCHANGED << ui, remote, level >>

\* UI::Impl::handleNetMessage
Receive ==
  /\ toClient # << >>
  /\ LET m == Head(toClient) IN Configure(m) \/ Play(m) \/ ViewScores(m)
  /\ toClient' = Tail(toClient)
  /\ UNCHANGED << server, toServer, options, link, broken, check, overtaken >>

\* A key bound to a player of the list is pressed without a connection.
KeyPress ==
  /\ ui = "playing" /\ ~Linked
  /\ \E i \in DOMAIN remote : remote[i].name \in Mine
  /\ ui' = "unplugged"
  /\ UNCHANGED << server, toServer, toClient, options, link, broken, remote,
                  level, check, history >>

\* Mutant of HighScoreOk: the ready box keeps its tick.
HighScoreOk_Ticked ==
  /\ ui = "scores"
  /\ ui' = "configuring"
  /\ UNCHANGED << server, toServer, toClient, options, link, broken, remote,
                  level, check, history >>

\* Back to a new Configuring: the box is cleared before its signal is connected
\* and set after, so that the server hears of it if it is set.
HighScoreOk ==
  /\ ui = "scores"
  /\ ui' = "configuring"
  /\ check' = options.ready
  /\ Posted(IF options.ready THEN << ReadyMessage(TRUE) >> ELSE << >>)
  /\ UNCHANGED << server, toClient, options, link, broken, remote, level,
                  history >>

\* events::Disconnect, when the read fails: only Configuring clears the list.
Disconnect ==
  /\ broken
  /\ ui \in {"configuring", "playing", "scores"}
  /\ link' = None
  /\ broken' = FALSE
  /\ toClient' = << >>
  /\ remote' = IF ui = "configuring" THEN << >> ELSE remote
  /\ UNCHANGED << server, toServer, options, ui, level, check, history >>

\* The program ends, one way or another, and is started again.
Restart ==
  /\ options' \in Options
  /\ ui' = "configuring"
  /\ link' = None
  /\ broken' = FALSE
  /\ toServer' = << >> /\ toClient' = << >>
  /\ remote' = << >>
  /\ level' = << >>
  /\ check' = options'.ready
  /\ missed' = {}
  /\ overtaken' = FALSE
  /\ UNCHANGED server

-----------------------------------------------------------------------------
Next ==
  \/ Handle \/ OtherJoins \/ PlayOn \/ EndGame \/ Break \/ Stop
  \/ \E c \in Others : OtherHandled(c) \/ OtherLeaves(c)
  \/ Connect \/ Refused \/ ReadinessChange \/ AddPlayerClicked \/ Receive
  \/ KeyPress \/ HighScoreOk \/ Disconnect \/ Restart

Spec == Init /\ [][Next]_vars

\* The network delivers, and the program's event loop runs.
Fairness == WF_vars(Receive) /\ WF_vars(Disconnect)

FairSpec == Spec /\ Fairness

-----------------------------------------------------------------------------
(* Properties. *)

ClientId == 0 .. MaxClients - 1
PlayerId == 0 .. MaxAdds - 1

ToServer == [type : {"addPlayer"}, name : Names]
              \cup [type : {"setReadiness"}, ready : BOOLEAN]

Cast == {ps \in Seq(PlayerId) : IsInjective(ps)}

ToClient == [type : {"gameStart", "tick", "gameOver"}]
              \cup [type : {"levelStart"}, cast : Cast]
              \cup [type : {"playerAdded"}, id : PlayerId, name : Names,
                    late : BOOLEAN]

State == {"configuring", "playing", "scores",
          "levelless",  \* tick without level
          "lifeless",   \* the assertion in ScoreTracker::deductLife
          "unplugged"}  \* playing but not connected

TypeOK ==
  /\ {up, open, game} \subseteq BOOLEAN
  /\ DOMAIN conns \subseteq ClientId /\ Range(conns) \subseteq BOOLEAN
  /\ DOMAIN players \subseteq PlayerId
  /\ Range(players) \subseteq [name : Names, client : ClientId]
  /\ nextClientId \in 0 .. MaxClients /\ nextPlayerId \in 0 .. MaxAdds
  /\ cast \in Cast
  /\ Range(toServer) \subseteq ToServer /\ Range(toClient) \subseteq ToClient
  /\ {broken, check, overtaken} \subseteq BOOLEAN
  /\ ui \in State
  /\ link \in ClientId \cup {None} /\ options \in Options
  /\ Ids(remote) \in Cast
  /\ level \in [mine : Cast, theirs : Cast, lastLifeGone : BOOLEAN] \cup {<< >>}
  /\ missed \in SUBSET PlayerId

\* A tick never comes before the level it is a tick of.
LevelBeforeTick == ui # "levelless"

\* The snakes the program has in its level and the server has not are of players
\* the server has forgotten; those it lacks are of players it was told of while
\* it played or showed scores, or whose name it still has from another session.
SnakesAccounted ==
  ui = "playing" /\ level # << >> =>
    LET mine == Range(level.mine)
        theirs == Range(level.theirs)
    IN  /\ (mine \ theirs) \cap DOMAIN players = {}
        /\ \A p \in (theirs \ mine) \cap DOMAIN players :
             \/ p \in missed
             \/ \E i \in DOMAIN remote : remote[i].name = players[p].name

\* In the pool, and up to date with what the server sent.
UpToDate == Talking /\ link \in DOMAIN conns /\ toClient = << >>

\* While a game is on the connected program plays it, unless the end of another
\* overtook its readiness and it is taken for ready ever since.
ConnectedPlays ==
  game /\ UpToDate /\ ~overtaken => ui \in {"playing", "lifeless", "levelless"}

\* In the lobby the ready box shows what the server knows, with that exception.
BoxIsTold ==
  UpToDate /\ ~overtaken /\ toServer = << >> /\ ui = "configuring"
    => conns[link] = check

\* When the game is over the connected program stops to show it.
GameOverShown ==
  ui = "playing" /\ Linked /\ ~game ~> ui # "playing" \/ ~Linked

\* scoretracker.cpp:43: a life is deducted from who has one.  A player who leaves
\* stays in the lists of the programs that know him ("TODO: inform of player
\* removal", server.cpp:123) and his snake in their levels.
LivesLast == ui # "lifeless"
=============================================================================
