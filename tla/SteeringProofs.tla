--------------------------- MODULE SteeringProofs ---------------------------
(***************************************************************************)
(* What Steering promises, for every length of the countdown and every     *)
(* bound on the queue.                                                     *)
(***************************************************************************)
EXTENDS Steering, TLAPS

Turns == [first : BOOLEAN, moment : Moment]

\* The state of a player the server can have, as a record.
PlayerType ==
  {pl \in [nominal : Direction \cup {"max"}, queue : Seq(Direction),
           made : Seq(Turns), direction : Direction] :
     Len(pl.made) = Len(pl.queue)}

\* nominalDirection_ is the last turn of the queue, or the axis the snake moves
\* along; each turn is across the one before it, the first across the snake
\* unless it came first after a reset.
Steered(pl) ==
  /\ pl.nominal = "max" => pl.queue = << >>
  /\ pl.queue # << >> => pl.nominal = pl.queue[Len(pl.queue)]
  /\ pl.queue = << >> /\ pl.nominal # "max" => SameAxis(pl.direction, pl.nominal)
  /\ \A i \in 1 .. Len(pl.queue) - 1 : ~SameAxis(pl.queue[i], pl.queue[i + 1])
  /\ pl.queue # << >> /\ ~pl.made[1].first => ~SameAxis(pl.direction, pl.queue[1])

\* The turns of the queue were not made at such a moment.
NoneMade(pl, moment) ==
  \A i \in 1 .. Len(pl.made) : pl.made[i].moment # moment

IInv == /\ TypeOK
        /\ Steered(Player)
        /\ paused => game /\ timer = Idle /\ ~pausing
        /\ timer # Idle => game
        /\ ~paused => NoneMade(Player, "pause")
        /\ game => NoneMade(Player, "lobby")
        /\ moved \notin {"pause", "lobby"}

-----------------------------------------------------------------------------
(* Directions. *)

\* Being on one axis is symmetric, and directions on the axis of one direction
\* are on one axis.
LEMMA AxisSymmetric ==
  ASSUME NEW d \in Direction, NEW e \in Direction, SameAxis(d, e)
  PROVE  SameAxis(e, d)
BY DEF Direction, SameAxis, Opposite

LEMMA AxisTransitive ==
  ASSUME NEW d \in Direction, NEW e \in Direction, NEW f \in Direction,
         SameAxis(d, e), SameAxis(e, f)
  PROVE  SameAxis(d, f)
BY DEF Direction, SameAxis, Opposite

-----------------------------------------------------------------------------
(* What happens to a player. *)

LEMMA ClearedSteered ==
  ASSUME NEW pl \in PlayerType, NEW d \in Direction
  PROVE  LET new == [Cleared(pl) EXCEPT !.direction = d]
         IN  /\ Cleared(pl) \in PlayerType /\ Steered(Cleared(pl))
             /\ new \in PlayerType /\ Steered(new)
             /\ \A m \in Moment : NoneMade(Cleared(pl), m) /\ NoneMade(new, m)
<1> DEFINE cleared == Cleared(pl)
           new == [cleared EXCEPT !.direction = d]
<1>1. /\ cleared \in [nominal : Direction \cup {"max"}, queue : Seq(Direction),
                      made : Seq(Turns), direction : Direction]
      /\ cleared.nominal = "max" /\ cleared.queue = << >> /\ cleared.made = << >>
  <2>1. << >> \in Seq(Direction) /\ << >> \in Seq(Turns)
    OBVIOUS
  <2>2. pl \in [nominal : Direction \cup {"max"}, queue : Seq(Direction),
                made : Seq(Turns), direction : Direction]
    BY DEF PlayerType
  <2> QED
    BY <2>1, <2>2 DEF Cleared
<1> HIDE DEF cleared
<1>2. /\ new \in [nominal : Direction \cup {"max"}, queue : Seq(Direction),
                  made : Seq(Turns), direction : Direction]
      /\ new.nominal = "max" /\ new.queue = << >> /\ new.made = << >>
  BY <1>1
<1> HIDE DEF new
<1>3. cleared \in PlayerType /\ new \in PlayerType
  BY <1>1, <1>2 DEF PlayerType
<1>4. Steered(cleared) /\ Steered(new)
  BY <1>1, <1>2 DEF Steered
<1>5. \A m \in Moment : NoneMade(cleared, m) /\ NoneMade(new, m)
  BY <1>1, <1>2 DEF NoneMade
<1> QED
  BY <1>3, <1>4, <1>5 DEF cleared, new

\* The turn at the front is taken: what is left of the queue starts across it.
LEMMA TurnedSteered ==
  ASSUME NEW pl \in PlayerType, Steered(pl)
  PROVE  /\ Turned(pl) \in PlayerType
         /\ Steered(Turned(pl))
         /\ \A m \in Moment : NoneMade(pl, m) => NoneMade(Turned(pl), m)
<1> DEFINE new == Turned(pl)
           front == Head(pl.queue)
           dir == IF SameAxis(pl.direction, front) THEN pl.direction ELSE front
<1>1. CASE pl.queue = << >>
  BY <1>1 DEF Turned
<1>2. CASE pl.queue # << >>
  <2>1. new = [pl EXCEPT !.queue = Tail(pl.queue), !.made = Tail(pl.made),
                         !.direction = dir]
    BY <1>2 DEF Turned
  <2>2. /\ pl.queue \in Seq(Direction) /\ pl.made \in Seq(Turns)
        /\ Len(pl.made) = Len(pl.queue) /\ Len(pl.queue) \in Nat \ {0}
        /\ front = pl.queue[1] /\ front \in Direction /\ dir \in Direction
    BY <1>2 DEF PlayerType
  <2>3. /\ new.queue = Tail(pl.queue) /\ new.made = Tail(pl.made)
        /\ new.direction = dir /\ new.nominal = pl.nominal
    BY <2>1 DEF PlayerType
  <2>4. /\ new.queue \in Seq(Direction) /\ new.made \in Seq(Turns)
        /\ Len(new.queue) = Len(pl.queue) - 1 /\ Len(new.made) = Len(new.queue)
        /\ \A i \in 1 .. Len(new.queue) : new.queue[i] = pl.queue[i + 1]
        /\ \A i \in 1 .. Len(new.made) : new.made[i] = pl.made[i + 1]
    BY <1>2, <2>2, <2>3
  <2>5. new \in PlayerType
    BY <2>1, <2>2, <2>3, <2>4 DEF PlayerType
  <2>6. SameAxis(dir, front)
    BY <2>2 DEF SameAxis
  <2> HIDE DEF new, front, dir
  <2>7. pl.nominal = pl.queue[Len(pl.queue)] /\ pl.nominal # "max"
    BY <1>2 DEF Steered
  <2>8. new.queue # << >> => new.nominal = new.queue[Len(new.queue)]
    <3> SUFFICES ASSUME new.queue # << >>
                 PROVE  new.nominal = new.queue[Len(new.queue)]
      OBVIOUS
    <3>1. Len(new.queue) \in 1 .. Len(new.queue)
      BY <2>4
    <3> QED
      BY <2>2, <2>3, <2>4, <2>7, <3>1
  <2>9. new.queue = << >> => SameAxis(new.direction, new.nominal)
    <3> SUFFICES ASSUME new.queue = << >>
                 PROVE  SameAxis(new.direction, new.nominal)
      OBVIOUS
    <3>1. Len(pl.queue) = 1
      BY <2>2, <2>4
    <3> QED
      BY <2>2, <2>3, <2>6, <2>7, <3>1
  <2>10. \A i \in 1 .. Len(new.queue) - 1 :
           ~SameAxis(new.queue[i], new.queue[i + 1])
    <3> SUFFICES ASSUME NEW i \in 1 .. Len(new.queue) - 1
                 PROVE  ~SameAxis(new.queue[i], new.queue[i + 1])
      OBVIOUS
    <3>1. i + 1 \in 1 .. Len(pl.queue) - 1
      BY <2>2, <2>4
    <3>2. i \in 1 .. Len(new.queue) /\ i + 1 \in 1 .. Len(new.queue)
      BY <2>2, <2>4
    <3>3. new.queue[i] = pl.queue[i + 1] /\ new.queue[i + 1] = pl.queue[(i + 1) + 1]
      BY <2>4, <3>2
    <3> QED
      BY <3>1, <3>3 DEF Steered
  <2>11. new.queue # << >> => ~SameAxis(new.direction, new.queue[1])
    <3> SUFFICES ASSUME new.queue # << >>, SameAxis(new.direction, new.queue[1])
                 PROVE  FALSE
      OBVIOUS
    <3>1. 1 \in 1 .. Len(pl.queue) - 1 /\ new.queue[1] = pl.queue[2]
      BY <2>4, <2>2
    <3>2. pl.queue[2] \in Direction
      BY <2>2, <3>1
    <3>3. SameAxis(front, pl.queue[2])
      BY <2>2, <2>3, <2>6, <3>1, <3>2, AxisSymmetric, AxisTransitive
    <3>4. ~SameAxis(pl.queue[1], pl.queue[1 + 1])
      BY <3>1 DEF Steered
    <3> QED
      BY <2>2, <3>3, <3>4
  <2>12. Steered(new)
    BY <2>3, <2>7, <2>8, <2>9, <2>10, <2>11 DEF Steered
  <2>13. ASSUME NEW m \in Moment, NoneMade(pl, m)
         PROVE  NoneMade(new, m)
    <3> SUFFICES ASSUME NEW i \in 1 .. Len(new.made)
                 PROVE  new.made[i].moment # m
      BY DEF NoneMade
    <3>1. i + 1 \in 1 .. Len(pl.made)
      BY <2>2, <2>4
    <3>2. pl.made[i + 1].moment # m
      BY <2>13, <3>1 DEF NoneMade
    <3> QED
      BY <2>4, <3>2
  <2> QED
    BY <2>5, <2>12, <2>13 DEF new
<1> QED
  BY <1>1, <1>2

-----------------------------------------------------------------------------
(* Steps. *)

\* A player of the type makes the variables that hold him have theirs.
LEMMA BecomesTyped ==
  ASSUME NEW pl \in PlayerType, Becomes(pl)
  PROVE  /\ nominal' \in Direction \cup {"max"} /\ queue' \in Seq(Direction)
         /\ made' \in Seq(Turns) /\ Len(made') = Len(queue')
         /\ direction' \in Direction
         /\ Player' = pl
BY DEF PlayerType, Becomes, Player

\* A tick, with a player who was made to mind what IInv asks of him in a game.
LEMMA TickInv ==
  ASSUME NEW n \in 0 .. Countdown, NEW pl \in PlayerType,
         TypeOK, Steered(pl), NoneMade(pl, "pause"), NoneMade(pl, "lobby"),
         moved \notin {"pause", "lobby"},
         Tick(n, pl)
  PROVE  IInv'
<1> USE SteeringAssumption DEF SteeringAssumption
<1>1. CASE pausing /\ n = 0
  <2>1. Becomes(pl) /\ Player' = pl
    BY <1>1, BecomesTyped DEF Tick
  <2> QED
    BY <1>1, <2>1, BecomesTyped DEF Tick, IInv, TypeOK, Turns
<1>2. CASE ~(pausing /\ n = 0) /\ (pausing \/ n = 0)
  <2>1. PlayTick(pl) /\ pausing' = FALSE /\ paused' = FALSE /\ shown' = FALSE
    BY <1>2 DEF Tick, PlayTick
  <2>2. moved' \in Moment \cup {"none"} /\ moved' \notin {"pause", "lobby"}
    <3>1. CASE pl.queue = << >>
      BY <2>1, <3>1 DEF PlayTick
    <3>2. CASE pl.queue # << >>
      <4>1. 1 \in 1 .. Len(pl.made) /\ Head(pl.made) = pl.made[1]
            /\ pl.made[1] \in Turns
        BY <3>2 DEF PlayerType
      <4> QED
        BY <2>1, <3>2, <4>1 DEF PlayTick, NoneMade, Turns
    <3> QED
      BY <3>1, <3>2
  <2>3. CASE Becomes(Turned(pl)) /\ game' = TRUE /\ timer' = 0
    <3>1. /\ Turned(pl) \in PlayerType /\ Steered(Turned(pl))
          /\ NoneMade(Turned(pl), "pause") /\ NoneMade(Turned(pl), "lobby")
      BY TurnedSteered DEF Moment
    <3>2. /\ nominal' \in Direction \cup {"max"} /\ queue' \in Seq(Direction)
          /\ made' \in Seq(Turns) /\ Len(made') = Len(queue')
          /\ direction' \in Direction /\ Player' = Turned(pl)
      BY <2>3, <3>1, BecomesTyped
    <3>3. timer' \in 0 .. Countdown
      BY <2>3
    <3>4. TypeOK'
      BY <2>1, <2>2, <2>3, <3>2, <3>3 DEF TypeOK, Turns
    <3>5. Steered(Player)' /\ NoneMade(Player, "pause")' /\ NoneMade(Player, "lobby")'
      BY <3>1, <3>2
    <3> QED
      BY <2>1, <2>2, <2>3, <3>4, <3>5 DEF IInv
  <2>4. CASE /\ game' = TRUE /\ timer' = Countdown
             /\ \E d \in Direction :
                  Becomes([Cleared(pl) EXCEPT !.direction = d])
    <3>1. PICK d \in Direction : Becomes([Cleared(pl) EXCEPT !.direction = d])
      BY <2>4
    <3> DEFINE new == [Cleared(pl) EXCEPT !.direction = d]
    <3>2. /\ new \in PlayerType /\ Steered(new)
          /\ NoneMade(new, "pause") /\ NoneMade(new, "lobby")
      BY ClearedSteered DEF Moment
    <3> HIDE DEF new
    <3>3. Becomes(new)
      BY <3>1 DEF new
    <3>4. /\ nominal' \in Direction \cup {"max"} /\ queue' \in Seq(Direction)
          /\ made' \in Seq(Turns) /\ Len(made') = Len(queue')
          /\ direction' \in Direction /\ Player' = new
      BY <3>2, <3>3, BecomesTyped
    <3>5. timer' \in 0 .. Countdown
      BY <2>4
    <3>6. TypeOK'
      BY <2>1, <2>2, <2>4, <3>4, <3>5 DEF TypeOK, Turns
    <3>7. Steered(Player)' /\ NoneMade(Player, "pause")' /\ NoneMade(Player, "lobby")'
      BY <3>2, <3>4
    <3> QED
      BY <2>1, <2>2, <2>4, <3>6, <3>7 DEF IInv
  <2>5. CASE Becomes(Turned(pl)) /\ game' = FALSE /\ timer' = Idle
    <3>1. /\ Turned(pl) \in PlayerType /\ Steered(Turned(pl))
          /\ NoneMade(Turned(pl), "pause")
      BY TurnedSteered DEF Moment
    <3> QED
      BY <2>1, <2>2, <2>5, <3>1, BecomesTyped DEF PlayTick, IInv, TypeOK, Turns
  <2> QED
    BY <2>1, <2>3, <2>4, <2>5 DEF PlayTick
<1>3. CASE ~pausing /\ n # 0
  <2>1. /\ CountdownTick(n, pl) /\ pausing' = FALSE /\ paused' = FALSE
        /\ n - 1 \in 0 .. Countdown
    BY <1>3 DEF Tick
  <2>2. /\ Cleared(pl) \in PlayerType /\ Steered(Cleared(pl))
        /\ NoneMade(Cleared(pl), "pause") /\ NoneMade(Cleared(pl), "lobby")
    BY ClearedSteered DEF Moment, PlayerType
  <2> QED
    BY <2>1, <2>2, BecomesTyped DEF CountdownTick, IInv, TypeOK, Turns
<1> QED
  BY <1>1, <1>2, <1>3

LEMMA KeyPressInv ==
  ASSUME IInv, NEW d \in Direction, KeyPress(d)
  PROVE  IInv'
<1> DEFINE turn == [first |-> nominal = "max", moment |-> Now]
<1>1. /\ queue \in Seq(Direction) /\ made \in Seq(Turns)
      /\ Len(made) = Len(queue) /\ Len(queue) \in Nat
      /\ nominal \in Direction \cup {"max"} /\ direction \in Direction
  BY DEF IInv, TypeOK, Turns
<1>2. turn \in Turns
  BY DEF Turns, Now, Moment
<1> HIDE DEF turn
<1>3. /\ queue' = Append(queue, d) /\ made' = Append(made, turn) /\ nominal' = d
      /\ UNCHANGED << game, timer, pausing, paused, direction, shown, moved >>
  BY DEF KeyPress, turn
<1>4. /\ queue' \in Seq(Direction) /\ made' \in Seq(Turns)
      /\ Len(queue') = Len(queue) + 1 /\ Len(made') = Len(queue')
      /\ queue'[Len(queue) + 1] = d /\ made'[Len(queue) + 1] = turn
      /\ \A i \in 1 .. Len(queue) : queue'[i] = queue[i] /\ made'[i] = made[i]
      /\ queue' # << >>
  BY <1>1, <1>2, <1>3
<1>5. TypeOK'
  BY <1>1, <1>3, <1>4 DEF IInv, TypeOK, Turns
<1>6. nominal # "max" => ~SameAxis(nominal, d)
  BY DEF KeyPress, Pointless
<1>7. d # "max"
  BY DEF Direction
<1>8. \A i \in 1 .. Len(queue') - 1 : ~SameAxis(queue'[i], queue'[i + 1])
  <2> SUFFICES ASSUME NEW i \in 1 .. Len(queue') - 1
               PROVE  ~SameAxis(queue'[i], queue'[i + 1])
    OBVIOUS
  <2>1. CASE i = Len(queue)
    <3>1. queue # << >> /\ queue'[i] = queue[Len(queue)] /\ queue'[i + 1] = d
      BY <1>1, <1>4, <2>1
    <3>2. nominal = queue[Len(queue)] /\ nominal # "max"
      BY <3>1 DEF IInv, Steered, Player
    <3> QED
      BY <1>6, <3>1, <3>2
  <2>2. CASE i # Len(queue)
    <3>1. /\ i \in 1 .. Len(queue) - 1
          /\ queue'[i] = queue[i] /\ queue'[i + 1] = queue[i + 1]
      BY <1>1, <1>4, <2>2
    <3> QED
      BY <3>1 DEF IInv, Steered, Player
  <2> QED
    BY <2>1, <2>2
<1>9. ~made'[1].first => ~SameAxis(direction', queue'[1])
  <2>1. CASE queue = << >>
    <3>1. made'[1] = turn /\ queue'[1] = d
      BY <1>1, <1>4, <2>1
    <3> SUFFICES ASSUME ~turn.first, SameAxis(direction, d)
                 PROVE  FALSE
      BY <1>3, <3>1
    <3>2. nominal \in Direction
      BY <1>1 DEF turn
    <3>3. SameAxis(direction, nominal)
      BY <2>1, <3>2 DEF IInv, Steered, Player, turn
    <3> QED
      BY <1>1, <1>6, <3>2, <3>3, AxisSymmetric, AxisTransitive DEF turn
  <2>2. CASE queue # << >>
    <3>1. made'[1] = made[1] /\ queue'[1] = queue[1]
      BY <1>1, <1>4, <2>2
    <3> QED
      BY <1>3, <2>2, <3>1 DEF IInv, Steered, Player
  <2> QED
    BY <2>1, <2>2
<1>10. Steered(Player)'
  BY <1>3, <1>4, <1>7, <1>8, <1>9 DEF Steered, Player
<1>11. ASSUME NEW m \in Moment, NoneMade(Player, m), Now # m
       PROVE  NoneMade(Player, m)'
  <2> SUFFICES ASSUME NEW i \in 1 .. Len(made')
               PROVE  made'[i].moment # m
    BY DEF NoneMade, Player
  <2>1. CASE i = Len(queue) + 1
    BY <1>4, <1>11, <2>1 DEF turn
  <2>2. CASE i # Len(queue) + 1
    BY <1>1, <1>4, <1>11, <2>2 DEF NoneMade, Player
  <2> QED
    BY <2>1, <2>2
<1>12. (~paused => NoneMade(Player, "pause"))'
  BY <1>3, <1>11 DEF IInv, Now, Moment
<1>13. (game => NoneMade(Player, "lobby"))'
  BY <1>3, <1>11 DEF IInv, Now, Moment
<1> QED
  BY <1>3, <1>5, <1>10, <1>12, <1>13 DEF IInv

\* IInv is inductive: one step for each action.
LEMMA Inductive == IInv /\ [Next]_vars => IInv'
<1> SUFFICES ASSUME IInv, [Next]_vars
             PROVE  IInv'
  OBVIOUS
<1> USE SteeringAssumption DEF SteeringAssumption
<1>1. Player \in PlayerType
  BY DEF IInv, TypeOK, PlayerType, Player, Turns
<1>2. ASSUME NEW d \in Direction, KeyPress(d)
      PROVE  IInv'
  BY <1>2, KeyPressInv
<1>3. CASE TimerTick
  <2>1. ~paused /\ game /\ timer \in 0 .. Countdown /\ Tick(timer, Player)
    BY <1>3 DEF TimerTick, IInv, TypeOK
  <2> QED
    BY <1>1, <2>1, TickInv DEF IInv
<1>4. CASE GameStart
  <2>1. PICK d \in Direction :
          Tick(Countdown, [Cleared(Player) EXCEPT !.direction = d])
    BY <1>4 DEF GameStart
  <2> DEFINE new == [Cleared(Player) EXCEPT !.direction = d]
  <2>2. /\ new \in PlayerType /\ Steered(new)
        /\ NoneMade(new, "pause") /\ NoneMade(new, "lobby")
    BY <1>1, ClearedSteered DEF Moment
  <2> HIDE DEF new
  <2>3. Tick(Countdown, new) /\ Countdown \in 0 .. Countdown
    BY <2>1 DEF new
  <2> QED
    BY <2>2, <2>3, TickInv DEF IInv
<1>5. CASE TogglePaused
  <2>1. CASE paused /\ Tick(0, Cleared(Player))
    <3>1. /\ Cleared(Player) \in PlayerType /\ Steered(Cleared(Player))
          /\ NoneMade(Cleared(Player), "pause") /\ NoneMade(Cleared(Player), "lobby")
      BY <1>1, ClearedSteered DEF Moment, PlayerType
    <3> QED
      BY <2>1, <3>1, TickInv DEF IInv
  <2>2. CASE ~paused /\ UNCHANGED << game, timer, paused, nominal, queue,
                                     direction, shown, made, moved >>
             /\ pausing' = TRUE
    BY <2>2 DEF IInv, TypeOK, Player, Steered, NoneMade
  <2> QED
    BY <1>5, <2>1, <2>2 DEF TogglePaused
<1>6. CASE UNCHANGED vars
  BY <1>6 DEF vars, IInv, TypeOK, Player, Steered, NoneMade
<1> QED
  BY <1>2, <1>3, <1>4, <1>5, <1>6 DEF Next
-----------------------------------------------------------------------------
(* The theorems. *)

\* IInv always holds.
THEOREM Invariance == Spec => []IInv
<1>1. Init => IInv
  <2> SUFFICES ASSUME Init PROVE IInv
    OBVIOUS
  <2>1. << >> \in Seq(Direction) /\ << >> \in Seq([first : BOOLEAN, moment : Moment])
    OBVIOUS
  <2>2. TypeOK
    BY <2>1 DEF Init, TypeOK
  <2>3. Steered(Player)
    BY DEF Init, Steered, Player
  <2>4. \A m \in Moment : NoneMade(Player, m)
    BY DEF Init, NoneMade, Player
  <2> QED
    BY <2>2, <2>3, <2>4 DEF Init, IInv, Moment
<1> QED
  BY <1>1, Inductive, PTL DEF Spec

\* The variables have their types, whatever the player presses and when.
THEOREM TypeCorrect == Spec => []TypeOK
<1>1. IInv => TypeOK
  BY DEF IInv
<1> QED
  BY <1>1, Invariance, PTL

\* RemotePlayer::queueTurn refuses no turn the snake would make: the last turn
\* of the queue, or else the snake, has the axis of nominalDirection_.
THEOREM EveryTurnHeard == Spec => []NoTurnRefused
<1>1. IInv => NoTurnRefused
  <2> SUFFICES ASSUME IInv, NEW d \in Direction, ~SameAxis(Heading, d),
                      nominal # "max", SameAxis(nominal, d)
               PROVE  FALSE
    BY DEF NoTurnRefused, Pointless
  <2>1. nominal \in Direction /\ direction \in Direction
    BY DEF IInv, TypeOK
  <2>2. CASE queue = << >>
    <3>1. SameAxis(direction, nominal)
      BY <2>2 DEF IInv, Steered, Player
    <3> QED
      BY <2>1, <2>2, <3>1, AxisTransitive DEF Heading
  <2>3. CASE queue # << >>
    BY <2>3 DEF IInv, Steered, Player, Heading
  <2> QED
    BY <2>2, <2>3
<1> QED
  BY <1>1, Invariance, PTL

\* server.cpp:351: turns that arrive while the game is paused, or between games, never
\* reach a snake: who resumes or starts the game resets the player first.
THEOREM PauseIsSafe == Spec => []KeysOfPauseDropped
<1>1. IInv => KeysOfPauseDropped
  BY DEF IInv, KeysOfPauseDropped
<1> QED
  BY <1>1, Invariance, PTL

\* A tick that takes a turn from the queue is one that plays with the player as
\* he is, and turns the snake.
LEMMA TakenTurns ==
  ASSUME NEW n \in 0 .. Countdown, NEW pl \in PlayerType, Tick(n, pl), Taken,
         pl = Player \/ pl.nominal = "max",
         nominal # "max", queue' # queue, ~SameAxis(direction, Head(queue))
  PROVE  direction' = Head(queue)
<1>1. nominal' # "max" /\ queue # << >>
  BY DEF Taken
<1>2. \A new : Becomes(new) => new.nominal = nominal'
  BY DEF Becomes
<1>3. Cleared(pl).nominal = "max"
  BY DEF Cleared, PlayerType
<1>4. \A d \in Direction : [Cleared(pl) EXCEPT !.direction = d].nominal = "max"
  BY DEF Cleared, PlayerType
<1>5. Turned(pl).nominal = pl.nominal
  BY DEF Turned, PlayerType
<1>6. Becomes(pl) => FALSE
  BY <1>1, <1>2 DEF Becomes, Player
<1>7. Becomes(Turned(pl))
  BY <1>1, <1>2, <1>3, <1>4, <1>6 DEF Tick, CountdownTick, PlayTick
<1>8. pl = Player
  BY <1>1, <1>2, <1>5, <1>7
<1>9. pl.queue = queue /\ pl.direction = direction
  BY <1>8 DEF Player
<1>10. Turned(pl).direction = Head(queue)
  BY <1>1, <1>9 DEF Turned, PlayerType
<1> QED
  BY <1>7, <1>10 DEF Becomes

\* No tick is lost on a turn the snake ignores, but for the first after a reset.
THEOREM NoTickWasted == Spec => NoTurnWasted
<1> DEFINE Used == \/ Head(made).first
                   \/ direction' = Head(queue) /\ direction' # direction
<1>1. IInv /\ [Next]_vars => [Taken => Used]_vars
  <2> SUFFICES ASSUME IInv, Next, Taken, ~Head(made).first
               PROVE  direction' = Head(queue) /\ direction' # direction
    BY DEF vars
  <2>1. /\ queue \in Seq(Direction) /\ made \in Seq(Turns)
        /\ Len(made) = Len(queue) /\ Len(queue) \in Nat \ {0}
        /\ Head(queue) = queue[1] /\ Head(made) = made[1]
        /\ direction \in Direction /\ queue[1] \in Direction
        /\ Len(Tail(queue)) = Len(queue) - 1
    BY DEF IInv, TypeOK, Turns, Taken
  <2>2. ~SameAxis(direction, Head(queue))
    BY <2>1 DEF IInv, Steered, Player, Taken
  <2>3. nominal # "max"
    BY DEF IInv, Steered, Player, Taken
  <2>4. Player \in PlayerType
    BY DEF IInv, TypeOK, PlayerType, Player, Turns
  <2>5. queue' # queue
    BY <2>1 DEF Taken
  <2> SUFFICES direction' = Head(queue)
    BY <2>2 DEF SameAxis
  <2>6. ASSUME NEW d \in Direction, KeyPress(d)
        PROVE  FALSE
    BY <2>1, <2>6 DEF KeyPress, Taken
  <2>7. CASE TimerTick
    <3>1. timer \in 0 .. Countdown /\ Tick(timer, Player)
      BY <2>7 DEF TimerTick, IInv, TypeOK
    <3> QED
      BY <2>2, <2>3, <2>4, <2>5, <3>1, TakenTurns
  <2>8. CASE GameStart
    <3>1. PICK d \in Direction :
            Tick(Countdown, [Cleared(Player) EXCEPT !.direction = d])
      BY <2>8 DEF GameStart
    <3> DEFINE new == [Cleared(Player) EXCEPT !.direction = d]
    <3>2. new \in PlayerType
      BY <2>4, ClearedSteered
    <3>3. new.nominal = "max"
      BY DEF Cleared, Player
    <3> HIDE DEF new
    <3>4. Tick(Countdown, new) /\ Countdown \in 0 .. Countdown
      BY <3>1, SteeringAssumption DEF new, SteeringAssumption
    <3> QED
      BY <2>2, <2>3, <2>5, <3>2, <3>3, <3>4, TakenTurns
  <2>9. CASE TogglePaused
    <3>1. Cleared(Player) \in PlayerType
      BY <2>1, <2>4, ClearedSteered
    <3>2. Cleared(Player).nominal = "max"
      BY DEF Cleared, Player
    <3>3. Tick(0, Cleared(Player)) /\ 0 \in 0 .. Countdown
      BY <2>5, <2>9, SteeringAssumption DEF TogglePaused, SteeringAssumption
    <3> QED
      BY <2>2, <2>3, <2>5, <3>1, <3>2, <3>3, TakenTurns
  <2> QED
    BY <2>6, <2>7, <2>8, <2>9 DEF Next
<1>2. NoTurnWasted <=> [][Taken => Used]_vars
  BY DEF NoTurnWasted
<1> HIDE DEF Used
<1> QED
  BY <1>1, <1>2, Invariance, PTL DEF Spec
=============================================================================
