------------------------------ MODULE Steering ------------------------------
(***************************************************************************)
(* One player's way of steering: the server keeps the turns he asks for in *)
(* a queue (remoteplayer.cpp), drops those it takes to be pointless, and   *)
(* hands one to the game in each tick (Server::tick), where Snake::turn    *)
(* drops pointless ones once more, by what the snake really does.          *)
(*                                                                         *)
(* This is the server of Server.tla with a single player who stays, so that*)
(* a wait that has completed and its handler are one step: nothing cancels *)
(* a wait in between.  The rules of the game are seen through the result   *)
(* of a tick, and through the direction in which a level starts a snake.   *)
(***************************************************************************)
EXTENDS Integers, Sequences, Directions

CONSTANTS
  Countdown,   \* options_.countdown
  MaxQueue     \* bound: turns waiting

ASSUME SteeringAssumption == Countdown \in Nat /\ MaxQueue \in Nat

VARIABLES
  game,        \* game_ is not null
  timer,       \* the countdown bound to the pending wait, or Idle
  pausing,
  paused,
  nominal,     \* nominalDirection_
  queue,       \* turnQueue_, its front first
  direction,   \* of the snake
  shown,       \* the client shows a countdown: its countdown_ is not zero
  made,        \* history: how each turn of the queue came into it
  moved        \* history: when the turn of the last tick was made

vars == << game, timer, pausing, paused, nominal, queue, direction, shown,
           made, moved >>

Idle == -1

\* What the player sees when he presses a key.
Moment == {"lobby", "countdown", "pause", "play"}

Now == IF ~game THEN "lobby"
       ELSE IF paused THEN "pause"
       ELSE IF shown THEN "countdown" ELSE "play"

Init == /\ game = FALSE
        /\ timer = Idle
        /\ pausing = FALSE
        /\ paused = FALSE
        /\ nominal = "max"
        /\ queue = << >>
        /\ direction \in Direction
        /\ shown = FALSE
        /\ made = << >>
        /\ moved = "none"

-----------------------------------------------------------------------------
(* RemotePlayer and his snake, in a record: a handler may reset the one or *)
(* put the other on its start, and then tick.                              *)

Player == [nominal |-> nominal, queue |-> queue, made |-> made,
           direction |-> direction]

Becomes(player) == /\ nominal' = player.nominal
                   /\ queue' = player.queue
                   /\ made' = player.made
                   /\ direction' = player.direction

\* Mutant of Cleared: nominalDirection_ stays.
Cleared_KeepsNominal(player) ==
  [player EXCEPT !.queue = << >>, !.made = << >>]

\* RemotePlayer::reset.
Cleared(player) ==
  [player EXCEPT !.nominal = "max", !.queue = << >>, !.made = << >>]

\* Mutant of Pointless: turning round is not.
Pointless_NotReverse(d) == d = nominal

\* The condition of queueTurn.  The opposite of max is no direction.
Pointless(d) == nominal # "max" /\ SameAxis(nominal, d)

\* RemotePlayer::queueTurn, for a turn it takes.
KeyPress(d) ==
  /\ ~Pointless(d)
  /\ Len(queue) < MaxQueue
  /\ nominal' = d
  /\ queue' = Append(queue, d)
  /\ made' = Append(made, [first |-> nominal = "max", moment |-> Now])
  /\ UNCHANGED << game, timer, pausing, paused, direction, shown, moved >>

-----------------------------------------------------------------------------
(* Server::tick. *)

\* RemotePlayer::dequeue and, with what it returns, Snake::turn.
Turned(player) ==
  IF player.queue = << >> THEN player
  ELSE [player EXCEPT !.queue = Tail(@), !.made = Tail(@),
                      !.direction = IF SameAxis(@, Head(player.queue)) THEN @
                                    ELSE Head(player.queue)]

CountdownTick(n, player) ==
  /\ Becomes(Cleared(player))
  /\ game' = TRUE
  /\ timer' = n - 1
  /\ shown' = TRUE
  /\ UNCHANGED moved

PlayTick(player) ==
  /\ shown' = FALSE
  /\ moved' = IF player.queue = << >> THEN "none" ELSE Head(player.made).moment
  /\ \/ \* none, number
        /\ game' = TRUE
        /\ timer' = 0
        /\ Becomes(Turned(player))
     \/ \* advanceLevel, dead: the snake is put on a start
        /\ game' = TRUE
        /\ timer' = Countdown
        /\ \E d \in Direction :
             Becomes([Cleared(player) EXCEPT !.direction = d])
     \/ \* gameOver
        /\ game' = FALSE
        /\ timer' = Idle
        /\ Becomes(Turned(player))

\* tick(countdown), with the player as the handler has left him.  No tick comes
\* while the game is paused but that of togglePaused, which has cleared paused_.
Tick(countdown, player) ==
  /\ pausing' = FALSE
  /\ IF pausing /\ countdown = 0
     THEN /\ game' = TRUE
          /\ paused' = TRUE
          /\ timer' = Idle
          /\ Becomes(player)
          /\ UNCHANGED << shown, moved >>
     ELSE /\ paused' = FALSE
          /\ IF pausing \/ countdown = 0 THEN PlayTick(player)
                                         ELSE CountdownTick(countdown, player)

\* The wait completes.
TimerTick == timer # Idle /\ Tick(timer, Player)

\* checkForGameStart, once everybody is ready.
GameStart ==
  /\ ~game
  /\ \E d \in Direction :
       Tick(Countdown, [Cleared(Player) EXCEPT !.direction = d])

\* Mutant of TogglePaused: the player is not reset.
TogglePaused_NoReset ==
  \/ /\ paused
     /\ Tick(0, Player)
  \/ /\ ~paused
     /\ pausing' = TRUE
     /\ UNCHANGED << game, timer, paused, nominal, queue, direction, shown,
                     made, moved >>

\* togglePaused.
TogglePaused ==
  \/ /\ paused
     /\ Tick(0, Cleared(Player))
  \/ /\ ~paused
     /\ pausing' = TRUE
     /\ UNCHANGED << game, timer, paused, nominal, queue, direction, shown,
                     made, moved >>

Next == \/ \E d \in Direction : KeyPress(d)
        \/ TimerTick
        \/ GameStart
        \/ TogglePaused

Spec == Init /\ [][Next]_vars

-----------------------------------------------------------------------------
(* Properties. *)

TypeOK == /\ game \in BOOLEAN
          /\ timer \in (0 .. Countdown) \cup {Idle}
          /\ pausing \in BOOLEAN
          /\ paused \in BOOLEAN
          /\ nominal \in Direction \cup {"max"}
          /\ queue \in Seq(Direction)
          /\ direction \in Direction
          /\ shown \in BOOLEAN
          /\ made \in Seq([first : BOOLEAN, moment : Moment])
          /\ Len(made) = Len(queue)
          /\ moved \in Moment \cup {"none"}

\* Where the snake will be heading when the turns before it have been taken.
Heading == IF queue = << >> THEN direction ELSE queue[Len(queue)]

\* The server never refuses a turn the snake would make, for all that it does
\* not look at the snake but at the turns it has seen (RemotePlayer::queueTurn
\* against Snake::turn).
NoTurnRefused ==
  \A d \in Direction : ~SameAxis(Heading, d) => ~Pointless(d)

\* A tick that takes a turn from the queue, in a level that goes on.
Taken == /\ queue # << >>
         /\ queue' = Tail(queue)
         /\ nominal' = nominal

\* Nor does it hold on to a turn the snake will not make, so that the tick is
\* lost, but for the first after a reset, of which it cannot know.
NoTurnWasted ==
  [][ Taken => \/ Head(made).first
               \/ direction' = Head(queue) /\ direction' # direction ]_vars

\* server.cpp:351, "keypresses during pause don't affect play", and those of
\* the time between games do not either.  A key is pressed when it arrives.
KeysOfPauseDropped == moved \notin {"pause", "lobby"}
=============================================================================
