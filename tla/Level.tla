------------------------------- MODULE Level -------------------------------
(***************************************************************************)
(* One level in play: class Level with its snakes, its number and its      *)
(* board, and the operations that change them (level.hpp, level.cpp,       *)
(* snake.hpp, snake.cpp, block.hpp).  The module has no variables: a level *)
(* is a record                                                             *)
(*   walls   the blocks of the realised LevelDefinition, as cells          *)
(*   snakes  player -> snake                                               *)
(*   number  the cells of the current number, {} before the first one      *)
(*   value   its value                                                     *)
(*   board   cell -> BoardState                                            *)
(* and every operation an operator from levels to levels, so that the      *)
(* server's copy and a client's copy are changed by the same definitions.  *)
(*                                                                         *)
(* A snake is a record: points, tail FIRST and head LAST (the deque of the *)
(* code is the other way round), direction and pendingGrowth.              *)
(***************************************************************************)
EXTENDS Grid, Sequences

CONSTANTS
  NumPlayers,     \* players of the game, in the order the game lists them
  StartLength,    \* GameSettings::startLength
  GrowthFactor,   \* GameSettings::growthFactor
  LastNumber      \* the number that finishes a level, 9 in the code

ASSUME LevelAssumption == /\ NumPlayers \in Nat \ {0}
                          /\ StartLength \in Nat
                          /\ GrowthFactor \in Nat
                          /\ LastNumber \in Nat \ {0}

Player == 1 .. NumPlayers

\* What the players ask for in one tick: at most one direction each.
Moves == UNION {[ps -> Direction] : ps \in SUBSET Player}

NoMoves == [p \in {} |-> "up"]

SnakeType == [points : Seq(Cells), direction : Direction, pending : Nat]

LevelType == [walls : SUBSET Cells, snakes : [Player -> SnakeType],
              number : NumberBlocks \cup {{}}, value : 0 .. LastNumber,
              board : [Cells -> BoardState]]

-----------------------------------------------------------------------------
(* A new level. *)

\* The constructor of Snake: one point, and the rest of the length as growth.
NewSnake(start) ==
  [points    |-> << start.point >>,
   direction |-> start.direction,
   pending   |-> IF StartLength = 0 THEN 0 ELSE StartLength - 1]

\* The constructor of Level without a number.  The points the snakes start
\* from are not marked on the board: initBoard writes walls only.
NewLevel(walls, starts) ==
  [walls  |-> walls,
   snakes |-> [p \in Player |-> NewSnake(starts[p])],
   number |-> {},
   value  |-> 0,
   board  |-> InitialBoard(walls)]

-----------------------------------------------------------------------------
(* The number. *)

\* Blocks randomNumber accepts.  What is left of the old number is still on
\* the board while it draws.
FreeBlocks(lv) ==
  {blk \in NumberBlocks : \A c \in blk : lv.board[c] = "empty"}

\* Level::setNumber.
WithNumber(lv, blk, val) ==
  [lv EXCEPT !.number = blk, !.value = val,
             !.board = [c \in Cells |->
                          IF c \in blk THEN "number"
                          ELSE IF c \in lv.number /\ lv.board[c] = "number"
                               THEN "empty"
                               ELSE lv.board[c]]]

-----------------------------------------------------------------------------
(* One tick of the snakes: Level::tick without the random engine.  Its     *)
(* first loop turns every snake and records the cell ahead of it, the      *)
(* second moves the heads, the third the tails.                            *)

\* Mutant of Turn: only the direction it already has is ignored.
Turn_MayReverse(snake, d) == [snake EXCEPT !.direction = d]

\* Snake::turn for a snake whose player has a move.
Turn(snake, d) ==
  IF SameAxis(snake.direction, d) THEN snake
                                  ELSE [snake EXCEPT !.direction = d]

Turned(lv, mv) ==
  [lv EXCEPT !.snakes = [p \in Player |->
     IF p \in DOMAIN mv THEN Turn(lv.snakes[p], mv[p]) ELSE lv.snakes[p]]]

HeadOf(snake) == snake.points[Len(snake.points)]

NextHead(snake) == Adjacent(HeadOf(snake), snake.direction)

\* Mutant of Dead: nobody dies of meeting head on.
Dead_NotHeadOn(lv) ==
  {p \in Player : lv.board[NextHead(lv.snakes[p])] \in {"wall", "snake"}}

\* The snakes Snake::advanceHead reports dead, in a level already turned.  Two
\* heads bound for one cell both die.  The loop over the snakes reads the board
\* it is changing, but a cell it has claimed for a head is the next cell of no
\* other snake that lives, so all heads can be decided on the board before it.
Dead(lv) ==
  {p \in Player : \/ \E q \in Player \ {p} :
                        NextHead(lv.snakes[q]) = NextHead(lv.snakes[p])
                  \/ lv.board[NextHead(lv.snakes[p])] \in {"wall", "snake"}}

\* The snakes it reports to have hit the number.
Eaters(lv) ==
  {p \in Player \ Dead(lv) : lv.board[NextHead(lv.snakes[p])] = "number"}

-----------------------------------------------------------------------------
(* The second loop as the code writes it: one snake after another, in the  *)
(* order of the game's players, each reading the board the one before it   *)
(* has changed.                                                            *)

\* Mutant of AdvanceHead: the first to a cell has it.
AdvanceHead_FirstHasIt(lv, acc, p) ==
  LET next == NextHead(lv.snakes[p])
  IN  IF acc.board[next] \in {"wall", "snake"}
      THEN [acc EXCEPT !.dead = @ \cup {p}]
      ELSE [dead  |-> acc.dead,
            ate   |-> IF acc.board[next] = "number" THEN acc.ate \cup {p}
                                                    ELSE acc.ate,
            board |-> [acc.board EXCEPT ![next] = "snake"]]

\* Snake::advanceHead; acc is what the loop has come to.
AdvanceHead(lv, acc, p) ==
  LET next == NextHead(lv.snakes[p])
  IN  IF \/ \E q \in Player \ {p} : NextHead(lv.snakes[q]) = next
         \/ acc.board[next] \in {"wall", "snake"}
      THEN [acc EXCEPT !.dead = @ \cup {p}]
      ELSE [dead  |-> acc.dead,
            ate   |-> IF acc.board[next] = "number" THEN acc.ate \cup {p}
                                                    ELSE acc.ate,
            board |-> [acc.board EXCEPT ![next] = "snake"]]

HeadLoop(lv, order) ==
  LET after[k \in 0 .. NumPlayers] ==
        IF k = 0 THEN [dead |-> {}, ate |-> {}, board |-> lv.board]
                 ELSE AdvanceHead(lv, after[k - 1], order[k])
  IN  after[NumPlayers]

-----------------------------------------------------------------------------
(* The heads and tails of a tick together.                                 *)

\* Mutant of Pending: the new growth replaces what was still owed.
Pending_Replaced(lv, p) ==
  IF p \in Eaters(lv) THEN lv.value * GrowthFactor ELSE lv.snakes[p].pending

\* What pendingGrowth is when the tails are reached.
Pending(lv, p) ==
  lv.snakes[p].pending
    + (IF p \in Eaters(lv) THEN lv.value * GrowthFactor ELSE 0)

\* Snake::advanceTail also moves the tails of the dead.
Vacating(lv) == {p \in Player : Pending(lv, p) = 0}

Extended(lv, p) ==
  IF p \in Dead(lv) THEN lv.snakes[p].points
                    ELSE Append(lv.snakes[p].points, NextHead(lv.snakes[p]))

MovedSnake(lv, p) ==
  [points    |-> IF p \in Vacating(lv) THEN Tail(Extended(lv, p))
                                       ELSE Extended(lv, p),
   direction |-> lv.snakes[p].direction,
   pending   |-> IF p \in Vacating(lv) THEN 0 ELSE Pending(lv, p) - 1]

Claimed(lv) == {NextHead(lv.snakes[p]) : p \in Player \ Dead(lv)}

Vacated(lv) == {Head(Extended(lv, p)) : p \in Vacating(lv)}

Moved(lv) ==
  LET claimed == Claimed(lv)
      vacated == Vacated(lv)
  IN  [lv EXCEPT !.snakes = [p \in Player |-> MovedSnake(lv, p)],
                 !.board = [c \in Cells |->
                              IF c \in vacated THEN "empty"
                              ELSE IF c \in claimed THEN "snake"
                              ELSE lv.board[c]]]

-----------------------------------------------------------------------------
(* What makes a level consistent.  Nothing marks a snake on its start, so  *)
(* this is about the cells that are not in a set except, the starts: there *)
(* another snake, the number or a wall may share the cell with a body, and *)
(* is wiped off the board when that body leaves it.                        *)

Body(lv, p) == {lv.snakes[p].points[i] : i \in DOMAIN lv.snakes[p].points}

\* The board has every part of every snake, and no trace of one that moved on.
SnakesMarked(lv, except) ==
  \A c \in Cells \ except :
    lv.board[c] = "snake" <=> \E p \in Player : c \in Body(lv, p)

\* No two parts of snakes, of one or of two, are in one cell.
BodiesDisjoint(lv, except) ==
  \A p, q \in Player : \A i \in DOMAIN lv.snakes[p].points :
    \A j \in DOMAIN lv.snakes[q].points :
      /\ lv.snakes[p].points[i] = lv.snakes[q].points[j]
      /\ lv.snakes[p].points[i] \notin except
      => p = q /\ i = j

\* The walls are those of the definition and of the frame.
WallsMarked(lv, except) ==
  \A c \in Cells \ except :
    lv.board[c] = "wall" <=> c \in Border \cup lv.walls

\* The board has the whole of the number and nothing of an earlier one.
NumberMarked(lv, except) ==
  \A c \in Cells \ except : lv.board[c] = "number" <=> c \in lv.number

\* A body is a line of neighbouring cells.
IsLine(snake) ==
  \A i \in 1 .. Len(snake.points) - 1 :
    \E d \in Direction : snake.points[i + 1] = Adjacent(snake.points[i], d)

\* Wherever it is steered, the next cell is not the snake's own neck.
NeckClear(snake) ==
  Len(snake.points) >= 2 =>
    \A d \in Direction :
      NextHead(Turn(snake, d)) # snake.points[Len(snake.points) - 1]
=============================================================================
