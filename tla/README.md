# Nibbles: a TLA+ development

Nibbles is a networked snake game: a server (`bin/server`) that keeps a lobby,
plays the game and sends every client the inputs of each tick; GTK clients
(`bin/gtk`) that replay the game from those inputs; a library of rules and
messages they share (`nibbles`); and a generator of level packs (`bin/levels`).
This directory models the parts whose order of events or bookkeeping can go wrong,
checks them with TLC on small instances, and proves the main results for
every size with TLAPS.

To run: `tlc -config X.cfg M` for a row of the table of runs,
`tlapm M.tla` for a module of proofs.

## 1. The system

### Components, their state and operations

| Component | State | Operations | Module |
|---|---|---|---|
| Board, directions, number blocks (`board.cpp`, `direction.hpp`, `block.hpp`) | the state of each cell | neighbours, with wrap-around; the frame; the blocks a number can lie on | `Directions`, `Grid` |
| Level (`level.cpp`, `level.hpp`, `snake.cpp`) | snakes (points, direction, pending growth), board, number | one tick with the players' moves; next number; snakes on their starts | `Level` |
| Game (`game.cpp`, `scoretracker.cpp`) | level, level id, lives | start, tick: play on, number eaten, next level, life lost, over | `Game`, `MCGame` |
| Server (`server.cpp`, `remoteplayer.cpp`) | connections and their readiness, players, game, scores, pause flags, timer | accept, addPlayer, setReadiness, command, disconnect, tick, signal | `Server`, abstractly `Match` |
| Turn queue (`remoteplayer.cpp`) | queued turns, nominal direction | queueTurn, dequeue, reset | `Steering` |
| TcpServer (`tcpserver.cpp`) | acceptor, bind timer | bind with retries, accept, stop; signals and the end of the process | `Acceptor` |
| TcpSocket (`tcpsocket.cpp`) | read buffer, outgoing and writing buffers | send, handleRead, handleWrite | `Stream`, abstractly `Delivery` |
| Client (`bin/gtk/ui`) | state machine (Configuring, Playing, HighScoreView; NotConnected, Connected), remote players, readiness, replica of the level | user events, network messages, disconnection | `Session`, `MCSession` |
| CrossThreadSignal (`crossthreadsignal.hpp`) | pending calls, mutex | raise on one thread, flush on the other; the end of the program and its join | `Threads`, abstractly `Delivery` |
| HighScoreManager (`highscoremanager.cpp`) | sets of scores, their file | insert with report, save, load | `HighScores` |
| Local players (`configuring.cpp`) | the list, the form that shows it, the dialog for keys, the file | edit, load, save | `Players`, `Editor` |
| Level packs (`levels.cpp`) | none | coordinates to level definitions | `LevelPack` |
| Identifiers, messages, options, data classes, sound, rendering | | | not modelled |

### Who calls whom

* Clients and server exchange messages over TCP, one ordered stream each way per
  client. To the server: `addPlayer`, `setReadiness`, `command` (a turn or
  pause). From it: `playerAdded`, `updateReadiness`, `gameStart`, `levelStart`,
  `newNumber`, `tick` (the moves), `countdown`, `gameOver`.
* The server is one thread on one `io_service`. Each handler is atomic; what
  interleaves is their order. A wait that is cancelled after it has completed
  still runs its handler without an error, behind the handlers queued before.
* `Server::tick` hands one turn per player from `RemotePlayer` to `Game::tick`,
  which reports through a `GameEventHandler` (`EventForwarder` sends those events
  to all clients) and a `ScoreHandler` (`ScoreTracker`).
* A client runs the network on a thread of its own, and crosses to the GUI
  thread through `CrossThreadSignal`. It applies the server's `tick`s to its own
  `Level`, so that its picture is right only if its players, in their order, are
  those of the server.

### What is hard

The order of moves in one tick (heads before tails, one player after another); the
wiping of cells that a start, a wall and a number may share; two filters of turns that
must agree; waits of the timer against pauses, departures and aborts; consent to
a game that must not outlive it; messages and departures in the middle of a
game; replicas fed by messages; the lifetime of sockets under their handlers; and
files replaced in steps. `PROJECT.json` lists each hazard at its line, with the
properties that watch it.

### What makes each part correct

* *Rules*: the board shows the snakes and nothing else; bodies never overlap;
  walls and the number are never wiped; snakes stay connected; what was eaten is
  grown; nobody gains from his place in the list of players.
* *Server*: the books (connections, players, scores, readiness, game) agree
  after every handler; a game that is not paused is going to be ticked; a lobby
  where all are ready starts; consent ends with the game.
* *Steering*: no turn the snake would make is refused; no tick is spent on a turn
  it will not make; keys of a pause are forgotten.
* *Client*: its replica follows the server's level; no message arrives in a state
  that cannot take it.
* *Socket, scores*: messages arrive whole and in order; no handler outlives its
  socket; a report shows the score it is about, and a crash loses no score that was
  announced.
* *Start and end*: a server listens in the end and stops when told to; a client's
  threads lose no message between them and end together.
* *Local players*: what the form shows is the list, and the list survives the
  program.

## 2. Modules

### Rules of the game: `Directions`, `Grid`, `Level`, `Game`, `MCGame`

`Grid` has the board: cells, `Adjacent` with its wrap-around, the frame, and the
blocks of two cells a number lies on. `Level` is a pure module: a level is a record of
snakes, board and number, and `Moved(lv, turns)` is `Level::tick` on it, built as the code
is from turns, new heads, deaths, meals and tails. The code loops over the
snakes; the module gives the loop's result in closed form, and beside it the loop itself, as
a recursive function (`HeadLoop`, whose step is `AdvanceHead`), so that `Game` can ask in every state that
the two agree whatever the order of the players (`NobodyGoesFirst`). `MCGame` has a small pack,
lets the players fall asleep (`FallAsleep`) and the game go on without them (`Drift`). `Game` adds levels, lives and the results of
a tick; its actions are `Start`, and the disjuncts of `Tick` (`Move`, `EatNumber`,
`Advance`, `LoseLife`, `GameOver`, `Abort`), where `Abort` is the assertion in
`ScoreTracker::deductLife`.

Left out: scores, colours and the tick interval. A number is placed on any block
of free cells, as the random loop of `randomNumber` may, and the game stops where the
loop would not end.

### The server: `Server`

State is that of the class: `conns` (connectionPool_ with `ready()`), `players`,
`game`, `scorer`, `pausing`, `paused`, `timer` with the countdown bound to its
handler, and `queued`, the completed waits whose handlers wait for their turn. One action per handler: `AddConnection`, `AddPlayer`,
`SetReadiness`, `QueueTurn`, `TogglePaused`, `DeleteConnection`, `TimerExpires`,
`Interrupted` and `TimerTick` (the two ends of a wait), `Shutdown`. `CheckForGameStart` and `Tick` are operators
over the state a handler has built up, because handlers end in them. `fault` names
the assertion, exception or null pointer that ends the process, if any.

The game is seen through what `Server::tick` does with its result, which is a free
choice here. Of a turn queue only its length and the axis of the last turn matter.

### The turn queue: `Steering`

One player who stays, with his queue in full, the direction of his snake, and what
his client shows him (`shown`). Two history variables, `made` and `moved`, say how a
turn came into the queue and when the turn of the last tick was made; no
guard reads them.

### The match and the client program: `Match`, `Session`, `MCSession`

`Match` says what the server is to its clients, whatever drives its game: who is
connected and ready, who plays, when a game starts and ends. `Server` implements it
(`Server!ServesMatch`: the same names but for `up`, which is that no fault has
come, and `open`, that it listens).

`Session` puts one client program before that match. `Match`'s steps, of the program's
own connection and of any other programs, here also say what `sendToAll` sends;
the game is seen through its ticks, its levels (a list of snakes) and its end. The
program has the two orthogonal regions of the code's state machine: `ui`
(Configuring, Playing, HighScoreView, and three states for its fatal errors) and
`link` (NotConnected or Connected). `remote` is `remotePlayers()`, `check` the
ready box, `level` the level of `Playing` with two lists of snakes: those the
program made from its own list of players and those the server's level has.
`Receive` takes one message and gives it to the reactions of the state the machine is
in (`Configure`, `Play`, `ViewScores`); the other actions are the user's (`Connect`,
`ReadinessChange`, `AddPlayerClicked`, `KeyPress`, `HighScoreOk`), the network's
(`Disconnect`, `Break`) and the server's. Messages are queues in both directions;
a connection that breaks loses what is under way. `missed` and `overtaken` are history
variables, read by properties only.

### Connections: `Delivery`, `Stream`

`Delivery` is the promise: of the messages sent, those received are a prefix. `Stream`
is `TcpSocket` in one direction: packets of bytes, `outgoing` and `writing` strings, a
write that hands its buffer over piece by piece, a read of any size, the loop that takes
whole packets from the buffer, and the failures of both. A byte is its message and its
place in the packet, so that a wrong cut shows. An io_service runs handlers later than
it completes operations, so `write` and `ear` have states for a handler that is queued;
`alive` is the existence of the object, which the server gives up in the handler of
a failed read and the client later, on its GUI thread. `InOrder` is the refinement.

### High scores: `HighScores`

`gameEnd` is one handler, but the process may die within it: `Insert`, `Open`, `Write`,
`Rename`, `Announce` are its steps, `Dies` comes between any two, `Load` is the
next start. What a file may be is in `SavedFile`, which the players' file shares. `Report` is the loop of `insert`, with its early end; `ReportRight` is its
reference definition. `shown` remembers what clients were told.

### The server's start and end: `Acceptor`

The operations of the `io_service` are the state: the wait for the next bind
(`bindWait`), the accept, one read per connection (`reads`), and shutdowns that a signal has
posted. Each is waiting, or has completed, with an error or without, and its handler is
still to run; `close` and `cancel` reach what is waiting only. Handlers are actions
(`BindAgain`, `HandleAccept`, `DeleteConnection`, `Shutdown`, ...), and so is what completes
an operation (`FiveSecondsPass`, `ClientConnects`, `AcceptFails`, `ClientLeaves`).
`CallsNobody` is a failed read whose connection shutdown has destroyed, and `RunEnds` is `io_.run()` with
nothing left to wait for. Another program takes the port
and gives it back (`PortChanges`).

### Two threads: `Threads`

The GUI thread and the I/O thread of a client. A step is what a thread does between two points where the
other may see a difference, so that `CrossThreadSignal` is four: `Push` under the mutex, `Alert` after
it, `Flush` and `Flushed` around the calls, which run with the mutex held. `pending`
has the list of each of the three signals of `UI::Impl`; all dispatchers of a thread
share one pipe (`alerts`). `raising` is what a thread has still to raise before its
handler is over. On the GUI side are connecting (`Dial`, `Connect`, `ConnectFails`), what the
signals call (`WriteMessage`, `HandleNetMessage`, `Disconnect`, `HangUp`), and the end (`Quit`,
`Interrupt`, `Join`); on the other side the reads and `IoThread`'s timer, whose two lines, setting
and waiting again, `interrupt` can come between. `Delivers` says that between the
threads the messages pass as between programs: `Delivery` again.

### Local players: `Players`, `Editor`

`Players` declares the state and says what must hold of it; `Editor` changes it. The list of
players (`players`), the rows of the combo box, the selected row and the text are four
variables, as they are four copies in the code; each handler of the form is an action. `SetBinding` opens the dialog, whose main loop runs until it is closed: meanwhile the
user reaches nothing else, but a game may start (`GameStart`). `Open`, `Write`, `Remove` and
`Rename` are the steps of `saveLocalPlayers`, which the destructor of `Configuring`
runs first; `Dies` comes anywhere, and `Begin` is the next start. `settled` and `torn` are
history variables.

### Level packs: `LevelPack`

The packs are data, written down in the module as in the code, level by level, in the
coordinates of the old program, and corrected like there. `Spread` moves a head from
where it has just got to every cell it can turn to, so that `reached` is, at the
end, all a snake can reach from the first start.

`realise` makes a wall of each random cell of the Chaos levels or not, on its own (0.15). The model
draws nothing and takes them all for walls. That is enough for every draw, because what is asked only gets
harder with more walls: a cell that is reached here is reached whatever is drawn, and a start with nothing but free cells
before it has them whatever is drawn. `OnlyDrawsShutIn` asks that a snake reaches every start and every
place `randomNumber` may choose, and excepts a number that is among random cells with nothing but
random cells beside it: six of them can be drawn round it and nothing in the code prevents that,
so that nobody can eat it and the level cannot be passed. The property says that this is the only
way a number of a shipped level can be out of reach.

## 3. What the runs show

| Run | Module, configuration | Properties | Outcome |
|---|---|---|---|
| duel | MCGame, MCGame_duel | BoardFaithful NobodyGoesFirst SnakesConnected GrowthPaid UnattendedEnds (liveness) | holds |
| server | Server, Server_safety | BooksBalance NeverStalls ConsentExpires StallsOnlyByDeparture ServesMatch (refinement) CountdownEnds (liveness) | holds |
| session | MCSession, MCSession_lobby | TypeOK LevelBeforeTick SnakesAccounted ConnectedPlays BoxIsTold GameOverShown (liveness) | holds |
| lifeless | MCSession, MCSession_lifeless | LivesLast | violated: a departed player's snake uses up lives on a client |
| keys | Steering, Steering_keys | NoTurnRefused NoTurnWasted KeysOfPauseDropped | holds |
| stream | Stream, Stream_fifo | TypeOK NothingHeldBack InOrder (refinement) EverythingArrives (liveness) | holds |
| handlers | Stream, Stream_handlers | HandlersHaveSockets | violated: a write's handler outlives its socket |
| levels | LevelPack, LevelPack_shipped | TypeOK OnlyDrawsShutIn FirstTickKillsNobody | holds |
| highscores | HighScores, HighScores_crashes | TypeOK ShownIsKept UpToDate ReportRight | holds |
| threads | Threads, Threads_client | AllHandledBeforeNext Delivers (refinement) NothingForgotten QuitEnds (liveness) | holds |
| acceptor | Acceptor, Acceptor_restarts | OneComesLate StopsWhenTold ListensInTheEnd (liveness) | holds |
| editor | Editor, Editor_file | FormShowsPlayers PlayersRemembered | holds |

Every module has its type invariant `TypeOK`. Where it is proved (section 4) most runs do not repeat
it.
`BoardFaithful` and `BooksBalance` are conjunctions of named parts, each of which can be
checked alone.

Runs that are violated check one property each that the code itself states (an
assertion or a comment); `PROJECT.json` quotes it.

### Disagreements without a run

Met while modelling, and reachable in the modules:

* `--lives 0` is accepted, and the first death asserts that there is a life
  (`scoretracker.cpp:43`): `Game!Abort`.
* `cancel()` does not reach a wait that has completed: when the last connection goes
  at that moment "we should abort the game" (`server.cpp:132`), and the tick runs on
  the null game (`server.cpp:310`): the fault "no game".
* A player added while a game is on is unknown to the score tracker when it ends
  (`server.cpp:191`, `scoretracker.cpp:21`): the fault "no score" of `Server`.
* An abort leaves `paused_` and `pausing_` as they are (`server.cpp:131`): the next
  game is ticked although "paused" (`server.hpp:84`), and a pause command in the lobby ticks a game
  that is not there. `CountdownEnds` has to make an exception for it.
* Moves are to be sorted (`level.cpp:11`) but come in the order of a hashed index:
  the fault "moves unsorted", once ids have passed the number of buckets.
* More players than starts end the server (`server.cpp:288`): "too few starts".
* `interrupt` cancels a wait of the I/O thread, and finds none while the thread's
  handler is between two (`main.cpp:35-36`), or before the thread has started: then
  `join` waits for ever: in `Threads`, `gui` stays "joining".
* The destructor of `Configuring` disconnects "all the other signal handlers because they'll
  contain dangling pointers" (`configuring.cpp:319-322`), but not those of the dialog
  for keys; when a game starts below the dialog, the next key, and the rest of
  `setBinding`, run without their object: `dangling` in `Editor`.
* `shutdown` destroys the connections of its pool; the reads it aborts then raise the
  signals of sockets that are still bound to those of their connections ("TODO: should disconnect
  these on destruction", `connection.cpp:18`): `Acceptor!CallsNobody`.
* A failed accept, or a bind that fails for another reason than the address, is
  reported only; the process then runs on without listening (`tcpserver.cpp:59-61`,
  `85-88`): `Acceptor`, where the properties except it.
* Keys of the last countdown steer the first tick of play, against the comment at
  `server.cpp:315`: `Steering`, where `moved` becomes "countdown".
* A connection lost in play leaves the client in `Playing`; the next key of a
  local player is fatal ("unplugged" in `Session`).
* The list of players is cleared by a disconnection in the lobby only, so that a
  client that lost its connection while it showed scores refuses players
  in its next session whose id or name it has already.

### Bounds

* *duel*: 5 x 5 cells leave 3 x 3 inside the frame, enough for two snakes to meet
  head-on in one cell, to swap cells, to bite a body (their own too), a tail that leaves and one that stays,
  to eat in the tick of the other's death, to owe growth from two numbers, and, with two lives,
  two numbers and three levels, to lose a life and to advance. In the last level the
  snakes start on the frame and leave gaps in it, through which they travel round the edges.
* *server*: three clients and three addPlayer messages are enough for one to
  leave while two stay, for a name that is taken, and for a
  second game after an abort; a countdown of 2 has a tick that counts and one that
  does not; one waiting turn per player, as only its presence matters. Client and player
  ids are used up, so behaviours are finite but for ticks and pauses.
* *keys*: four waiting turns: two that agree, one that is pointless, one behind it.
* *session*: two connections, so that the program can come back or meet another;
  two players, with the program's own name and one of others; two messages to the
  server and one unread from it when the game steps (`MaxSent`, `MaxTold`), which
  together hold a readiness that crosses the end of a game. `Restart` uses up no
  bound, so that a program with every history meets a server with every history.
* *stream*: a packet's length takes two bytes, so that it can be cut; bodies are of one
  byte, of the longest that is allowed and of one more, which is refused; three messages
  are one that is written, one that waits and one that comes after.
* *highscores*: one kind of game (kinds share nothing but the file), two totals and three
  seconds make six distinct scores for a report of two ranks: the newest may be on the last rank,
  just behind it, further behind, or alike to an old one.
* *threads*: three messages, of which one read completes up to two, and three attempts
  to connect: a last message of one connection, one of the next, and calls that pile up on a list
  that is being flushed.
* *acceptor*: three clients and two signals, so that some are served while another comes
  late, and a second shutdown finds the one that came late; the port changes hands up to
  three times.
* *editor*: three players, the name of new ones, the empty one and another; two keys
  for one command (commands share nothing).
* *levels*: all fifty levels at their full size, 80 x 48; nothing is bounded. The random cells of the
  Chaos levels are walls, which is the worst that can be drawn.

Runs say `CHECK_DEADLOCK FALSE` where the system may stop: a game that is over,
a server that has failed or used up its ids, a connection that is down, a clock at
its bound, a level that is explored.

### Fairness

`Server!Fairness`: a pending wait completes (the operating system), and a completed wait's
handler runs (io_service runs what is queued). Nothing is assumed of clients: they
may never say anything again. With this a countdown ends, or players cut it short by
pausing, for ever. (One case is excepted: while two waits are under way, which takes the stale
`paused_` of an aborted game, each can start the other's countdown again; real time, which
the model does not have, lets one of the two cancel the other.) `MCGame!MCSpec` asks that a
game whose players are asleep is ticked, which is the server's timer again.

`Session!Fairness`: a message that has come is received, and a failed read is
noticed (both by the client's loop and its network thread). Nothing is assumed of
the user, of other clients or of the game. `Stream!Fairness`: the network takes what is written,
a queued handler of a write runs, a read completes when bytes are there. The connection
may break at any time; `EverythingArrives` is about one that does not.

`Threads!Fairness`: neither thread stops for ever where it could go on (weak fairness), and
handlers queued in the `io_service`, which runs them in turn, are not passed over for ever:
between two of them there is always another step of the timer, which disables them, so that
this is strong fairness. The second of a wait need not pass, nobody need quit, dial or send.
`Acceptor!Fairness`: queued handlers run and five seconds pass; nothing is assumed of
clients, signals and the port.

### What the models leave out

* `Acceptor` and `Server` share the signal, and are not composed: a tick that had
  completed when the server shut down plays on without connections, which no run has
  together with the sockets. `UnattendedEnds` says that such a game ends, on levels whose
  frame has no hole.
* `Session`: no two programs in detail at once, so nothing is said of two clients'
  pictures of each other but through the server; levels are compared by their
  lists of snakes only.
* `LevelPack`: what is drawn; which numbers are out of reach in a Chaos level that has been realised is not said.
* `Steering`: a key's way to the server; pressing and arriving are one step, so that a turn on its way while another
  client resumes the game counts as made after the pause.
* `Stream`: on the client, posted sends also hold the socket for a while; they make the
  object live longer, not shorter. `connect` is synchronous and not modelled.
* `HighScores`: the clock does not go back; a disk that is full when the temporary
  file is closed is not noticed by the code and would be renamed into place. So would `Editor`'s, and two programs
  with one players' file are not modelled either.
* `Threads`: the loop without threads (an option), and an end of the program by a fatal error.
  Of the machine only the connection is kept.
* `Editor`: colours, which go the way of keys. `set_text` is taken to report one change,
  as it does since GTK 2.18, not the deletion and the insertion.

## 4. What is proved

TLAPS checks, for every value of the constants under the assumptions named beside them.

### Rules of the game: `GameProofs`

Assumed are `GridAssumption` and `LevelDefs` as the level definitions: walls and starts as the
pack has them, starts apart.

* `TypeCorrect`, and `BoardStaysFaithful`, which joins
  `BoardIsRight`, `SnakesApart`, `WallsStay` and `NumberStays`. The invariants are not inductive alone: that a
  tail may wipe its cell rests on no other snake being there, which rests on
  the board showing every body when a head looks at it, except on starts. `IInv`
  therefore joins them all with the type of the level and the heads' existence.
* `SnakesStayConnected`. That the cell ahead is never the neck is kept with the connectedness, because
  the next head is that cell; and going back is the only turn that leads to the neck because the field has
  room for three cells on each axis (`Lines`, `FieldHasRoom`).
* `GrowthIsPaid`. The sum of what snakes have grown and owe, over a round, is the sum of what its
  numbers were worth. The numbers' sum grows by one term as `Triangle` does; a meal adds
  its worth to one snake only; a step moves growth from what is owed to what is there (`StepOwes`).
* `NobodyIsFirst`. The loop of `Level::tick`, in any order of the players, ends with the deaths and
  the meals that the closed form of `Level` has. `Come` says what the loop has found after
  the first k players (`LoopStep`), in terms that do not mention the order of those k.

### The server: `ServerProofs`

* `TypeCorrect`, `Balanced` (which joins `Connected`, `Emptied` and `Fresh`), `Driven`,
  `ConsentIsForOneGame`, `LobbyStarts`. `IInv` puts beside the type the agreement of
  the books (`Sound`), which is stated on the state a handler hands to `tick`, so that one
  lemma (`TickBooks`) serves the four handlers that end in it.
  `NeverStalls` is carried along: a handler of a cancelled wait removes no tick
  that is under way.
* `ServerIsMatch`, the refinement. One lemma per handler maps its step to a step of
  `Match` or to a stutter, on the same invariant; `TickSeen` and
  `StartSeen` do so once for `tick` and `checkForGameStart`, in which handlers end, and
  `RosterReset` and `RosterDequeued` say that loops over the players' queues change
  nothing of who plays.

### The turn queue: `SteeringProofs`

`TypeCorrect`, `EveryTurnHeard`, `NoTickWasted`, `PauseIsSafe`.
The invariant says that consecutive turns of the queue are on different axes, that
the last one is the nominal direction, and that when the queue is empty the
nominal direction, if any, is on the axis of the snake.

### A client before its server: `SessionProofs`

Assumed is that the program's file has finitely many names (`SessionAssumption`).

* `LevelComesFirst`, `PlaysWhileOn`, `BoxAndServerAgree`, `TypeCorrect`. These rest on one invariant.
  `InStep` says which of five stands the program can be in, by its state, whether the server has a
  game, which of `gameStart` and `gameOver` is under way, and what the last word to the
  server says of its readiness: in the lobby, about to hear of a game, in the
  game, about to hear of its end, at the scores. A message under way moves the program from one to
  the next, and the server's steps put those messages there. `Levels` adds that
  a level follows each start that is under way, with nothing between that ticks.
  `overtaken` excepts the programs for which the five are not all, and `PlaysWhileOn` and
  `BoxAndServerAgree` except them too; `LevelComesFirst` does not.
* `SnakesAreAccounted`. The two lists of players in a level are made at different times: the server's when
  it starts the level, the program's as messages reach it, some of them while it is in a state that does not
  listen. `Follows` therefore speaks of every way the program may handle what is under way (`Reaches`), including
  that its user leaves the scores before one of the messages: each `levelStart` finds a list that fits its own
  (`Fits`), and when all is handled, with the connection up, everybody in the server's table has been heard of (`InTouch`).
  `LevelFits` says of the level in play what was true when it was made, which players who come or go leave true
  (`Moves`). A step of the server has to be checked only on a program in touch with it (`Unsaid`, `Sent`, `Leads`);
  one of the program only shortens the ways (`Taken`, `Left`). `Accounted`, the two together, is kept by the
  steps from states of `IInv`. It quantifies over every sequence of the program's states, so that TLC
  evaluates it only in a form where they are enumerated.

### Connections: `StreamProofs`

* `SendIsEnough`. The code takes `writing_`, whether empty or not, for whether a write
  is under way; `WritingTells` says that this is right while the object exists, and
  that only a connection that is down leaves bytes behind. It needs that packets are never empty.
* `Delivers`, the refinement of `Delivery`, with `NothingLost`, `RoomToRead` and `TypeCorrect`. `Carries` says
  that buffers and wire, laid end to end (`Pipe`), are the packets of the messages not yet received, from the
  first byte `handleRead` has not taken, to their end while the link is up. That the loop
  over packets takes them as it should is by the least number of bytes for which it would not (`Smallest`).

### Files: `FilesProofs`

High scores first:

* `CrashCostsOneScore`, `FileStaysWhole`. `IInv` follows the temporary file
  to the rename: it is whole and the server's present scores when it replaces the file.
* `ShownStays`, `ReportIsRight`, `TypeCorrect`. `SetsInv` says that the sets are finite and that `operator<` orders
  them without ties, the clock being behind none of them; on such a set the loop of `insert` comes to
  the reference definition, by descending on the scores it has left (`Descent`).

Then the players of a client. The module extends `Players`, and instantiates `Editor`, whose actions have the names of those of
`HighScores`. Assumed is `PlayersAssumption`: the new name and the empty text are names, and no command is one of the
dialog's two other states.

* `FormIsRight` and `PlayersComeBack`, on the invariant of `EditorKeeps`. What the form shows is not inductive by
  itself: the form finds its player by the name in the row, so that names must be unique in the list, and, because
  the list is loaded without asking, in the file too (`Roster`). A handler of the dialog must not come when the list has been
  saved and a game is on: `Keeps` has the file equal to the list then, and the dialog's handlers change the list only while its
  `Configuring` is there. `Keeps` further follows save: `.new` is the list from its writing to the renaming, and between
  removal and renaming alone may the file hold none of the lists in `settled`.
* The attempt found two faults of the model, both harmless in the run: a `CASE` in `Selected` whose arms overlapped when
  there were no players, and that a command could have been the value that stands for "no dialog". Both were mended.

### Two threads: `ThreadsProofs`

`NothingOvertakes`, `ThreadsDeliver` (the refinement of `Delivery`), `TypeCorrect`. `Books` says that
handled, listed and still to be raised messages together are what was read, in order. The
hard part is that the two signals have a list each: `InTurn` follows a disconnection from the
I/O thread, through mutex, list and pipe, to the GUI thread (`Once`: there is never a second), and says that as long as
a message is listed, its flush is ahead of the disconnection's; `Calm` says what a
connection that is not there has left behind, which is nothing.

### Start and end: `AcceptorProofs`

`TypeCorrect`, `StopLetsOneIn`. That at most one connection comes late
is not inductive: `IInv` adds that after shutdown the acceptor is closed, and that an
accept whose connection is still to be handed over and a pool with somebody in it
exclude each other.

### How loops are reasoned about

The prover cannot instantiate the library's induction theorems. Loops are recursive
functions or folds here, and what they compute is proved with induction in terms of
sets: a set of numbers that has 0 and with each its successor has them all (`Ascent`),
because a counterexample would be the least one; `Smallest` and `Descent` are the same for the loops
of sockets and scores.

### Only model-checked

* Liveness, which is out of the prover's reach: `UnattendedEnds`, `CountdownEnds`, `GameOverShown`, `EverythingArrives`,
  `NothingForgotten`, `QuitEnds`, `StopsWhenTold`, `ListensInTheEnd`.
* `LevelPack`: fifty levels that are data, and that TLC explores whole.

## 5. Plan

1. Scores and the tick interval in `Game`; key bindings of `Playing`; identifiers and their width.
2. `Acceptor` composed with the timer of `Server`.
