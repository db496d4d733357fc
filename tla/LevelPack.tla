------------------------------ MODULE LevelPack ------------------------------
(***************************************************************************)
(* The two level packs that bin/levels writes (levels.cpp), and how far a  *)
(* snake gets on the boards made of them (board.cpp, snake.cpp).           *)
(*                                                                         *)
(* Levels are given in the coordinates of the QBASIC program they come     *)
(* from, counted from 1 and below three lines of scores, and corrected at  *)
(* the end.  Names of levels are left out.                                 *)
(***************************************************************************)
EXTENDS Grid, Sequences

VARIABLES
  pack, id,  \* the level looked at: a place in one of the packs
  reached,   \* cells where the first snake's head can have been, whatever is drawn
  edge       \* those it has just got to

vars == << pack, id, reached, edge >>

\* Mutant of Block: max is taken for the last point.
Block_Inclusive(x, y, w, h) == (x .. x + w) \X (y .. y + h)

\* The cells of Block(x, y, w, h).
Block(x, y, w, h) == (x .. x + w - 1) \X (y .. y + h - 1)

Dot(x, y) == {<< x, y >>}

\* The numbers a loop from a by steps of n counts up to b.
By(n, a, b) == {i \in a .. b : (i - a) % n = 0}

Start(x, y, d) == [point |-> << x, y >>, direction |-> d]

\* Mutant of Corrected: the lines of scores are forgotten.
Corrected_NoScores(c) == << c[1] - 1, c[2] - 1 >>

Corrected(c) == << c[1] - 1, c[2] - 3 >>

Correction(walls, random, starts) ==
  [walls  |-> {Corrected(c) : c \in walls},
   random |-> {Corrected(c) : c \in random},
   starts |-> [i \in DOMAIN starts |->
                 [starts[i] EXCEPT !.point = Corrected(@)]]]

Level(walls, starts) == Correction(walls, {}, starts)

-----------------------------------------------------------------------------
(* classicLevel *)

InCorners == << Start(65, 7, "down"), Start(16, 46, "up"),
                Start(16, 7, "down"), Start(65, 46, "up") >>

RoundABar == << Start(60, 7, "left"), Start(21, 46, "right"),
                Start(60, 46, "left"), Start(21, 7, "right") >>

Within == << Start(50, 39, "up"), Start(31, 14, "down"),
             Start(31, 39, "up"), Start(50, 14, "down") >>

AtSides == << Start(75, 39, "up"), Start(6, 14, "down"),
              Start(6, 39, "up"), Start(75, 14, "down") >>

\* Mutant of Membrane: it is a wall.
Membrane_Solid == UNION {Dot(40, y) : y \in 4 .. 49}

Membrane == UNION {Dot(40, y) : y \in By(2, 4, 49)}

Slant == UNION {Dot(i, i) \cup Dot(i + 28, i) : i \in 6 .. 47}

Diffraction ==
  UNION {UNION {Dot(x, y) : x \in By(20, 10, 70)} : y \in By(2, 4, 49)}
  \cup UNION {UNION {Dot(x, y + 1) : x \in By(20, 20, 60)} : y \in By(2, 4, 49)}

ClassicLevels == <<
  Level({}, << Start(70, 14, "left"), Start(11, 39, "right"),
               Start(70, 39, "left"), Start(11, 14, "right") >>),
  Level(Block(20, 25, 41, 1), RoundABar),
  Level(Block(20, 10, 1, 31) \cup Block(60, 10, 1, 31), Within),
  Level(Block(20, 4, 1, 27) \cup Block(60, 23, 1, 27)
          \cup Block(2, 38, 39, 1) \cup Block(41, 15, 39, 1),
        << Start(60, 7, "left"), Start(20, 46, "right"),
           Start(70, 43, "up"), Start(10, 10, "down") >>),
  Level(Block(21, 13, 1, 27) \cup Block(59, 13, 1, 27)
          \cup Block(23, 11, 35, 1) \cup Block(23, 41, 35, 1), Within),
  Level(UNION {Block(x, 4, 1, 19) \cup Block(x, 31, 1, 19) : x \in By(10, 10, 79)},
        InCorners),
  Level(Membrane, InCorners),
  Level(UNION {Block(x, 4, 1, 37) : x \in By(20, 10, 70)}
          \cup UNION {Block(x, 13, 1, 37) : x \in By(20, 20, 60)}, InCorners),
  Level(Slant, AtSides),
  Level(Diffraction, InCorners) >>

-----------------------------------------------------------------------------
(* ultraLevel: levels of its own among those of the classic pack. *)

Around == << Start(70, 39, "up"), Start(11, 14, "down"),
             Start(11, 39, "up"), Start(70, 14, "down") >>

Tee == Block(20, 15, 41, 1) \cup Block(40, 16, 1, 25)

CulDeSac == Block(20, 10, 41, 1) \cup Block(20, 20, 1, 30) \cup Block(60, 20, 1, 30)

Clasp == Block(21, 11, 1, 31) \cup Block(59, 11, 1, 31)
           \cup Block(22, 11, 9, 1) \cup Block(22, 41, 9, 1)
           \cup Block(50, 11, 9, 1) \cup Block(50, 41, 9, 1)

ThreeBars == UNION {Block(20, y, 41, 1) : y \in {15, 25, 35}}

Fence == UNION {Block(x, 10, 1, 31) : x \in {20, 30, 50, 60}}

JudgementDay == Block(20, 15, 41, 1) \cup Block(20, 21, 17, 1) \cup Block(43, 21, 18, 1)
                  \cup Block(36, 22, 1, 19) \cup Block(43, 22, 1, 19)

Table == Block(20, 7, 41, 1) \cup Block(20, 13, 41, 1)
           \cup UNION {Block(x, 20, 1, 30) : x \in {17, 23, 57, 63}}

Keep == Clasp \cup Block(25, 15, 1, 23) \cup Block(55, 15, 1, 23)
          \cup Block(26, 15, 5, 1) \cup Block(26, 37, 5, 1)
          \cup Block(50, 15, 5, 1) \cup Block(50, 37, 5, 1)

Skew == Block(21, 18, 1, 24) \cup Block(25, 18, 1, 20) \cup Block(55, 15, 1, 20)
          \cup Block(59, 11, 1, 24) \cup Block(28, 11, 32, 1) \cup Block(28, 15, 27, 1)
          \cup Block(26, 37, 27, 1) \cup Block(21, 41, 32, 1) \cup Block(30, 26, 21, 1)

TripleTee == Block(15, 10, 51, 1) \cup Block(15, 14, 51, 1)
               \cup Block(15, 18, 22, 1) \cup Block(44, 18, 22, 1)
               \cup Block(40, 15, 1, 26) \cup Block(36, 19, 1, 22)
               \cup Block(44, 19, 1, 22)

\* What Castle and Fortress have in common.
Walled == Block(25, 10, 1, 31) \cup Block(55, 10, 1, 31)
            \cup UNION {Block(x, y, 1, 6) : x \in {30, 50}, y \in {15, 30}}
            \cup UNION {Block(x, y, 10, 1) : x \in {26, 45}, y \in {10, 40}}
            \cup Block(31, 15, 19, 1) \cup Block(31, 35, 19, 1)

Castle == Walled \cup Block(35, 20, 1, 11) \cup Block(45, 20, 1, 11)

Fortress == Walled \cup Block(15, 10, 1, 31) \cup Block(65, 10, 1, 31)
              \cup Block(35, 22, 1, 7) \cup Block(45, 22, 1, 7)
              \cup Block(37, 20, 7, 1) \cup Block(37, 30, 7, 1)

Deception == Block(25, 10, 1, 31) \cup Block(30, 15, 1, 26) \cup Block(35, 20, 1, 16)
               \cup Block(40, 15, 1, 21) \cup Block(45, 15, 1, 16)
               \cup Block(50, 10, 1, 26) \cup Block(55, 10, 1, 31)
               \cup Block(26, 10, 25, 1) \cup Block(31, 15, 9, 1)
               \cup Block(41, 35, 9, 1) \cup Block(31, 40, 24, 1)

SpillProof == UNION {Block(x, y, 1, 15) : x \in {25, 55}, y \in {10, 26}}
                \cup UNION {Block(x, y, 15, 1) : x \in {25, 41}, y \in {10, 40}}
                \cup UNION {Block(x, y, 1, 12) : x \in {39, 41}, y \in {10, 29}}
                \cup UNION {Block(x, y, 12, 1) : x \in {25, 44}, y \in {24, 26}}
                \cup Block(39, 24, 3, 3)

Sift == UNION {Dot(x, y) : x \in By(10, 10, 70), y \in By(2, 4, 49)}

Cross == UNION {Dot(i + 14, i) \cup Dot(i + 14, 53 - i) : i \in 6 .. 47}

Crease == Cross \cup UNION {
  {<< 30 + i, 6 + i >>, << 51 - i, 6 + i >>, << 20 + i, 16 + i >>, << 20 + i, 37 - i >>,
   << 61 - i, 16 + i >>, << 61 - i, 37 - i >>, << 30 + i, 47 - i >>,
   << 51 - i, 47 - i >>} : i \in 0 .. 10}

Manhattan == UNION {Dot(x, y) : x \in By(2, 3, 78), y \in By(2, 5, 48)}

Origami == Crease \cup Block(2, 4, 16, 46) \cup Block(64, 4, 16, 46)

\* Level n counted from 0.
Chaos(n) ==
  LET gap == IF 40 - n < 1 THEN 1 ELSE 40 - n
  IN  Correction({}, Block(2 + gap, 4 + gap, 77 - 2 * gap, 45 - 2 * gap),
                 << Start(79, 4, "down"), Start(2, 49, "up"),
                    Start(2, 4, "down"), Start(79, 49, "up") >>)

UltraLevels ==
  LET Classic(n) == ClassicLevels[n + 1]
  IN  << Classic(0), Classic(1), Classic(2), Level(Tee, Around),
         Level(CulDeSac, Around), Level(Clasp, Around), Classic(3),
         Level(ThreeBars, RoundABar), Level(Fence, Around),
         Level(JudgementDay, Around), Level(Table, Around), Level(Keep, Around),
         Classic(4), Level(Skew, Around), Level(TripleTee, Around), Classic(5),
         Level(Castle, Around), Classic(6), Level(Fortress, Around), Classic(7),
         Level(Deception, Around), Classic(8), Level(SpillProof, Around),
         Level(Sift, InCorners), Level(Cross, AtSides), Level(Crease, AtSides),
         Classic(9),
         Level(Manhattan, << Start(66, 10, "down"), Start(14, 43, "up"),
                             Start(14, 10, "down"), Start(66, 43, "up") >>),
         Level(Origami, << Start(63, 39, "up"), Start(18, 14, "down"),
                           Start(18, 39, "up"), Start(63, 14, "down") >>) >>
      \o [k \in 1 .. 11 |-> Chaos(28 + k)]

Packs == [classic |-> ClassicLevels, ultra |-> UltraLevels]

-----------------------------------------------------------------------------
(* A board, and where a snake can go on it. *)

TheLevel == Packs[pack][id]

Fixed == Border \cup TheLevel.walls

\* realise() draws each random cell on its own, a wall or not.  Here all are walls that
\* can be: a wall less only opens ways, so that a snake gets wherever it gets here,
\* whatever is drawn.
Walls == Fixed \cup TheLevel.random

Init == /\ pack \in DOMAIN Packs
        /\ id \in DOMAIN Packs[pack]
        /\ reached = {}
        /\ edge = {TheLevel.starts[1].point}

\* The cells the head can move to from where it has just got, by a turn or none.
Spread ==
  /\ edge # {}
  /\ reached' = reached \cup edge
  /\ edge' = {Adjacent(c, d) : c \in edge, d \in Direction} \ (Walls \cup reached')
  /\ UNCHANGED << pack, id >>

Next == Spread

Spec == Init /\ [][Next]_vars

-----------------------------------------------------------------------------
(* Properties. *)

\* Levels are what Game takes for levels: on the board, with a start for four.
TypeOK == /\ pack \in DOMAIN Packs /\ id \in DOMAIN Packs[pack]
          /\ TheLevel.walls \subseteq Cells
          /\ TheLevel.random \subseteq Cells
          /\ Len(TheLevel.starts) = 4
          /\ \A i \in 1 .. 4 : TheLevel.starts[i]
                                 \in [point : Cells, direction : Direction]
          /\ reached \cup edge \subseteq Cells

Explored == edge = {}

\* A number's cells and those a head can come from.
Beside(block) == block \cup {Adjacent(c, d) : c \in block, d \in Direction}

\* Whatever realise() draws, every snake can come to every other, wherever they start,
\* and to every number wherever randomNumber puts it; but for a number that is among
\* random cells, with nothing beside it but walls and more of them.  Those may be drawn so
\* as to enclose it: realise() prevents nothing.
OnlyDrawsShutIn ==
  Explored =>
    /\ \A i \in DOMAIN TheLevel.starts : TheLevel.starts[i].point \in reached
    /\ \A block \in NumberBlocks :
         block \cap Fixed = {} => \/ Beside(block) \cap reached # {}
                                 \/ Beside(block) \subseteq Walls

\* Nobody starts on a wall, on another, or in front of one, whatever is drawn: the first
\* tick kills nobody who has not turned.
FirstTickKillsNobody ==
  LET starts == TheLevel.starts
      Ahead(i) == Adjacent(starts[i].point, starts[i].direction)
  IN  \A i \in DOMAIN starts :
        /\ starts[i].point \notin Walls /\ Ahead(i) \notin Walls
        /\ \A j \in DOMAIN starts \ {i} :
             /\ Ahead(i) # Ahead(j) /\ Ahead(i) # starts[j].point
             /\ starts[i].point # starts[j].point
=============================================================================
