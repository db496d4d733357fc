-------------------------------- MODULE Grid --------------------------------
(***************************************************************************)
(* The playing field: points, the wrap-around neighbour function           *)
(* (board.cpp), the blocks a number may occupy (number.hpp, level.hpp) and *)
(* the board a level starts from.                                          *)
(*                                                                         *)
(* A point is the pair <<x, y>> with 0 <= x < Width and 0 <= y < Height.   *)
(* Every level of the shipped pack has the same size, so the size is a     *)
(* constant here and not a field of the level definition.                  *)
(***************************************************************************)
EXTENDS Integers, Directions

CONSTANTS
  Width,    \* the field w of LevelDefinition
  Height    \* the field h of LevelDefinition

\* The narrowest board a level can be played on: Board::init needs w, h > 0,
\* and a number two cells high must fit.
ASSUME GridAssumption == /\ Width \in Nat \ {0}
                         /\ Height \in Nat \ {0, 1}

Cells == (0 .. Width - 1) \X (0 .. Height - 1)

\* Board::adjacent: one step, leaving at one edge and entering at the other.
Adjacent(c, d) ==
  CASE d = "up"    -> << c[1], IF c[2] = 0 THEN Height - 1 ELSE c[2] - 1 >>
    [] d = "down"  -> << c[1], IF c[2] = Height - 1 THEN 0 ELSE c[2] + 1 >>
    [] d = "left"  -> << IF c[1] = 0 THEN Width - 1 ELSE c[1] - 1, c[2] >>
    [] d = "right" -> << IF c[1] = Width - 1 THEN 0 ELSE c[1] + 1, c[2] >>

BoardState == {"empty", "wall", "number", "snake"}

Border == {c \in Cells : c[1] \in {0, Width - 1} \/ c[2] \in {0, Height - 1}}

\* Board::init: the frame and the blocks of the realised definition.
InitialBoard(walls) ==
  [c \in Cells |-> IF c \in Border \cup walls THEN "wall" ELSE "empty"]

\* Block(x, y, Number::width, Number::height): one cell wide, two high.
NumberBlock(c) == {c, << c[1], c[2] + 1 >>}

\* The blocks randomNumber draws from: x in 0..w-1, y in 0..h-2.
NumberBlocks == {NumberBlock(c) : c \in (0 .. Width - 1) \X (0 .. Height - 2)}
=============================================================================
